------------------------- MODULE Publication_proofs ---------------------------
(***************************************************************************)
(* Proofs about how results are published: the batch that computes several *)
(* at once (EvaluationBatch), for any number of items and workers, the     *)
(* registry they are published in (SharedReceipts), for any writers,       *)
(* inputs, tables and any number of publications, and the tables that      *)
(* later publications continue (TableComposition), for any groups, axis    *)
(* and number of updates.                                                  *)
(***************************************************************************)
EXTENDS EvaluationBatch, SharedReceipts, TableComposition, FiniteLemmas

-----------------------------------------------------------------------------
(* The batch: the caller's place determines its futures and its results.   *)

\* The pending futures are among the drawn items, so they can be counted.
LEMMA PendingFinite == TypeOK => IsFiniteSet(pending) /\ Cardinality(pending) \in Nat
<1> SUFFICES ASSUME TypeOK
             PROVE  IsFiniteSet(pending) /\ Cardinality(pending) \in Nat
  OBVIOUS
<1>1. pending \subseteq 1..next /\ next \in Int
  BY DEF TypeOK, EvaluationBatchAssumption
<1>2. IsFiniteSet(1..next)
  BY <1>1, FS_Interval
<1>3. QED
  BY <1>1, <1>2, FS_Subset, FS_CardinalityType

\* A batch starts in its types.
LEMMA TypeInitial == Init => TypeOK
<1> SUFFICES ASSUME Init
             PROVE  TypeOK
  OBVIOUS
<1>1. pc \in Labels
  BY DEF Init, Labels
<1>2. status \in [Item -> Status]
  BY DEF Init, Status
<1>3. workers \in 1..MaxWorkers /\ canceled \in BOOLEAN /\ failing \in BOOLEAN
  BY DEF Init
<1>4. next \in 0..Items /\ pending \subseteq 1..next /\ ordered \subseteq 1..next
  BY EvaluationBatchAssumption DEF Init
<1>5. QED
  BY <1>1, <1>2, <1>3, <1>4 DEF TypeOK

\* No step of the caller or of the pool leaves them.
LEMMA TypeStep == TypeOK /\ [Next]_vars => TypeOK'
<1> SUFFICES ASSUME TypeOK, [Next]_vars
             PROVE  TypeOK'
  OBVIOUS
<1> USE EvaluationBatchAssumption DEF TypeOK, Status, Labels, Item
<1>1. CASE Admit
  BY <1>1 DEF Admit, NextItem
<1>2. CASE AdmitEnds \/ AdmitRaises \/ Poll \/ WaitTimeout \/ CollectFailure \/ CancelEnds \/ Join
           \/ SerialEnds \/ Cancel
  BY <1>2 DEF AdmitEnds, AdmitRaises, Poll, WaitTimeout, CollectFailure, CancelEnds, Join,
     SerialEnds, Cancel, Raise
<1>3. CASE Collect
  BY <1>3 DEF Collect, Raise, Observed, Finished
<1>4. CASE \E i \in Item : CancelOne(i)
  BY <1>4 DEF CancelOne
<1>5. CASE SerialStart
  <2>1. next' = next + 1 /\ next' \in 0..Items
    BY <1>5 DEF SerialStart
  <2>2. pending' \subseteq 1..next' /\ ordered' \subseteq 1..next'
    BY <1>5, <2>1 DEF SerialStart
  <2>3. pc' \in Labels /\ failing' \in BOOLEAN
    BY <1>5 DEF SerialStart
  <2>4. status' \in [Item -> Status]
    BY <1>5 DEF SerialStart
  <2>5. QED
    BY <1>5, <2>1, <2>2, <2>3, <2>4 DEF SerialStart
<1>6. CASE SerialFinish
  <2>1. status' \in [Item -> Status] /\ next \in 1..next
    BY <1>6 DEF SerialFinish, InFlight
  <2>2. ordered' \subseteq 1..next' /\ pc' \in Labels /\ failing' \in BOOLEAN
    BY <1>6, <2>1 DEF SerialFinish
  <2>3. QED
    BY <1>6, <2>1, <2>2 DEF SerialFinish
<1>7. CASE \E i \in Item : Start(i)
  BY <1>7 DEF Start, Started
<1>8. CASE \E i \in Item : Finish(i)
  BY <1>8 DEF Finish
<1>9. CASE Done \/ UNCHANGED vars
  BY <1>9 DEF Done, vars
<1>10. QED
  BY <1>1, <1>2, <1>3, <1>4, <1>5, <1>6, <1>7, <1>8, <1>9 DEF Next, Caller, Pool

(* The variables stay in their types for every number of items and workers. *)
THEOREM TypeCorrect == Spec => []TypeOK
<1>1. QED
  BY TypeInitial, TypeStep, PTL DEF Spec

\* The inductive invariant holds before the first item is drawn.
LEMMA InvInitial == Init => IInv
<1> SUFFICES ASSUME Init
             PROVE  IInv
  OBVIOUS
<1>1. InFlight = {} /\ Cardinality(pending) = 0
  BY FS_EmptySet DEF Init, InFlight, Busy
<1>2. QED
  BY <1>1, EvaluationBatchAssumption DEF Init, IInv, Futures, Control, Pooled, Serial

(* The steps of the caller's thread that touch no future. *)
LEMMA CallerMoves ==
  ASSUME TypeOK, IInv,
         AdmitEnds \/ AdmitRaises \/ Poll \/ WaitTimeout \/ CollectFailure \/ CancelEnds \/ Join
  PROVE  IInv'
<1> USE DEF Raise
<1>1. UNCHANGED <<workers, status, next, pending, ordered>>
  BY DEF AdmitEnds, AdmitRaises, Poll, WaitTimeout, CollectFailure, CancelEnds, Join
<1>2. InFlight' = InFlight
  BY <1>1 DEF InFlight
<1>3. Cardinality(pending') <= workers' /\ Futures'
  BY <1>1, <1>2 DEF IInv, Futures
<1>4. pc # "serial" /\ (pc \in {"admit", "poll", "wait", "cancel"} => workers > 1)
  BY EvaluationBatchAssumption
     DEF AdmitEnds, AdmitRaises, Poll, WaitTimeout, CollectFailure, CancelEnds, Join,
         IInv, Serial, TypeOK
<1>5. Control'
  <2>1. CASE AdmitEnds
    <3>1. ~ HasRoom => pending # {}
      BY FS_EmptySet, EvaluationBatchAssumption DEF HasRoom, TypeOK
    <3>2. QED
      BY <1>1, <1>2, <2>1, <3>1 DEF AdmitEnds, IInv, Control
  <2>2. CASE AdmitRaises \/ CollectFailure
    BY <1>1, <1>2, <2>2 DEF AdmitRaises, CollectFailure, IInv, Control
  <2>3. CASE Poll
    <3>1. pending = {} => next = Items /\ ordered = Item /\ InFlight = {}
      BY <1>4, <2>3 DEF Poll, IInv, Control, Pooled, Item
    <3>2. QED
      BY <1>1, <1>2, <2>3, <3>1 DEF Poll, AllCollected, IInv, Control
  <2>4. CASE WaitTimeout
    BY <1>1, <1>2, <2>4 DEF WaitTimeout, IInv, Control
  <2>5. CASE CancelEnds \/ Join
    BY <1>1, <1>2, <2>5 DEF CancelEnds, Join, PoolIdle, IInv, Control
  <2>6. QED
    BY <2>1, <2>2, <2>3, <2>4, <2>5
<1>6. Pooled'
  BY <1>1, <1>2
     DEF AdmitEnds, AdmitRaises, Poll, WaitTimeout, CollectFailure, CancelEnds, Join, IInv, Pooled
<1>7. Serial'
  <2>1. CASE workers > 1
    BY <1>1, <2>1 DEF Serial
  <2>2. CASE workers = 1
    <3>1. Join
      BY <1>4, <2>2
         DEF AdmitEnds, AdmitRaises, Poll, WaitTimeout, CollectFailure, CancelEnds, Join
    <3>2. QED
      BY <1>1, <1>2, <2>2, <3>1 DEF Join, PoolIdle, IInv, Serial
  <2>3. QED
    BY <2>1, <2>2, EvaluationBatchAssumption DEF TypeOK
<1>8. QED
  BY <1>3, <1>5, <1>6, <1>7 DEF IInv

\* A drawn item is submitted and pending.
LEMMA AdmitInv ==
  ASSUME TypeOK, IInv, Admit
  PROVE  IInv'
<1> USE EvaluationBatchAssumption
<1>1. workers > 1
  BY DEF Admit, IInv, Serial, TypeOK
<1>2. NextItem \in Item /\ NextItem = next' /\ NextItem = next + 1
  BY DEF Admit, NextItem, TypeOK, Item
<1>3. InFlight' = InFlight \union {NextItem}
  BY <1>2 DEF Admit, InFlight, Busy, TypeOK
<1>4. Cardinality(pending') <= workers'
  <2>1. Cardinality(pending') \in {Cardinality(pending), Cardinality(pending) + 1}
    BY PendingFinite, FS_AddElement DEF Admit
  <2>2. workers' = workers /\ workers \in Int /\ Cardinality(pending) < workers
    BY DEF Admit, HasRoom, TypeOK
  <2>3. QED
    BY <2>1, <2>2, PendingFinite
<1>5. Futures'
  BY <1>2, <1>3 DEF Admit, IInv, Futures, TypeOK, Item
<1>6. Control'
  BY <1>2 DEF Admit, IInv, Control
<1>7. Pooled'
  BY <1>2, <1>3 DEF Admit, IInv, Pooled, TypeOK
<1>8. Serial'
  BY <1>1 DEF Admit, Serial
<1>9. QED
  BY <1>4, <1>5, <1>6, <1>7, <1>8 DEF IInv

\* A collected item leaves the pending ones for the results.
LEMMA CollectInv ==
  ASSUME TypeOK, IInv, Collect
  PROVE  IInv'
<1> USE EvaluationBatchAssumption DEF Raise
<1>1. workers > 1
  BY DEF Collect, IInv, Serial, TypeOK
<1>2. PICK collected \in SUBSET Observed \ {{}} :
        /\ pending' = pending \ collected
        /\ ordered' = ordered \union collected
        /\ \/ collected = Observed /\ pc' = "admit" /\ UNCHANGED failing
           \/ Raise
  BY DEF Collect
<1>3. UNCHANGED <<workers, status, next>> /\ \A i \in Observed : status[i] = "ok"
  BY DEF Collect
<1>4. InFlight' = InFlight /\ collected \intersect InFlight = {} /\ collected \subseteq pending
  BY <1>2, <1>3 DEF InFlight, Observed, Finished, Busy
<1>5. Cardinality(pending') <= workers'
  <2>1. Cardinality(pending') <= Cardinality(pending) /\ Cardinality(pending') \in Nat
    BY <1>2, PendingFinite, FS_Subset, FS_CardinalityType
  <2>2. QED
    BY <1>3, <2>1, PendingFinite DEF IInv, TypeOK
<1>6. Futures'
  BY <1>2, <1>3, <1>4 DEF IInv, Futures
<1>7. Control'
  BY <1>2, <1>3, <1>4 DEF Collect, IInv, Control
<1>8. Pooled'
  BY <1>2, <1>3, <1>4 DEF Collect, IInv, Pooled
<1>9. Serial'
  BY <1>1, <1>3 DEF Serial
<1>10. QED
  BY <1>5, <1>6, <1>7, <1>8, <1>9 DEF IInv

\* On the caller's thread an item is drawn, evaluated and collected in turn.
LEMMA SerialInv ==
  ASSUME TypeOK, IInv, SerialStart \/ SerialFinish \/ SerialEnds
  PROVE  IInv'
<1> USE EvaluationBatchAssumption
<1>1. workers = 1 /\ pc = "serial" /\ ~ failing
  BY DEF SerialStart, SerialFinish, SerialEnds, IInv, Pooled, Control, TypeOK
<1>2. UNCHANGED <<workers, pending>> /\ Cardinality(pending') <= workers' /\ Pooled'
  BY <1>1 DEF SerialStart, SerialFinish, SerialEnds, IInv, Pooled
<1>3. CASE SerialStart /\ status' # status
  <2>1. status' = [status EXCEPT ![next + 1] = "running"] /\ next' = next + 1
        /\ UNCHANGED <<ordered, pc, failing>> /\ InFlight = {} /\ next < Items
    BY <1>3 DEF SerialStart
  <2>2. next + 1 \in Item
    BY <2>1 DEF TypeOK, Item
  <2>3. InFlight' = {next + 1}
    BY <2>1, <2>2 DEF InFlight, Busy, TypeOK
  <2>4. Futures' /\ Control'
    BY <1>1, <2>1, <2>2, <2>3 DEF Futures, Control, IInv, TypeOK, Item
  <2>5. Serial'
    BY <1>1, <1>2, <2>1, <2>2, <2>3 DEF Serial, IInv, TypeOK, Item
  <2>6. QED
    BY <1>2, <2>4, <2>5 DEF IInv
<1>4. CASE SerialStart /\ status' = status
  <2>1. next' = next + 1 /\ UNCHANGED ordered /\ InFlight = {} /\ InFlight' = {}
        /\ ((pc' = "join" /\ failing') \/ UNCHANGED <<pc, failing>>)
    BY <1>4 DEF SerialStart, InFlight
  <2>2. status' = [status EXCEPT ![next + 1] = "running"] => next + 1 \in InFlight'
    BY <1>4 DEF SerialStart, InFlight, Busy, TypeOK, Item
  <2>3. pc' = "join" /\ failing'
    BY <1>4, <2>1, <2>2 DEF SerialStart
  <2>4. QED
    BY <1>1, <1>2, <1>4, <2>1, <2>3 DEF IInv, Futures, Control, Serial
<1>5. CASE SerialFinish
  <2>1. PICK outcome \in {"ok", "error"} : status' = [status EXCEPT ![next] = outcome]
    BY <1>5 DEF SerialFinish
  <2>2. InFlight = {next} /\ next \in Item
    BY <1>1, <1>5 DEF SerialFinish, IInv, Serial, InFlight
  <2>3. InFlight' = {} /\ status'[next] = outcome
    BY <2>1, <2>2 DEF InFlight, Busy, TypeOK
  <2>4. UNCHANGED next /\ next \notin ordered
    BY <1>1, <1>5, <2>2 DEF SerialFinish, IInv, Serial
  <2>5. CASE outcome = "ok"
    <3>1. ordered' = ordered \union {next} /\ UNCHANGED <<pc, failing>>
      BY <1>5, <2>3, <2>5 DEF SerialFinish
    <3>2. Futures' /\ Control'
      BY <1>1, <2>1, <2>2, <2>3, <2>4, <2>5, <3>1 DEF IInv, Futures, Control, TypeOK
    <3>3. Serial'
      BY <1>1, <1>2, <2>2, <2>3, <2>4, <3>1 DEF IInv, Serial, TypeOK, Item
    <3>4. QED
      BY <1>2, <3>2, <3>3 DEF IInv
  <2>6. CASE outcome = "error"
    <3>1. UNCHANGED ordered /\ pc' = "join" /\ failing'
      BY <1>5, <2>3, <2>6 DEF SerialFinish
    <3>2. \A i \in ordered : status'[i] = status[i]
      BY <2>1, <2>4 DEF TypeOK, Item
    <3>3. Futures' /\ Control' /\ Serial'
      BY <1>1, <1>2, <2>3, <2>4, <3>1, <3>2 DEF IInv, Futures, Control, Serial
    <3>4. QED
      BY <1>2, <3>3 DEF IInv
  <2>7. QED
    BY <2>1, <2>5, <2>6
<1>6. CASE SerialEnds
  <2>1. UNCHANGED <<status, next, ordered, failing>> /\ pc' = "join" /\ next = Items
        /\ InFlight = {} /\ InFlight' = {}
    BY <1>6 DEF SerialEnds, InFlight
  <2>2. ordered = Item
    BY <1>1, <2>1 DEF IInv, Serial, Item
  <2>3. QED
    BY <1>1, <1>2, <2>1, <2>2 DEF IInv, Futures, Control, Serial
<1>7. QED
  BY <1>3, <1>4, <1>5, <1>6

(* A future changes under the pool or the cancel loop; nothing becomes busy. *)
LEMMA FutureInv ==
  ASSUME TypeOK, IInv, NEW i \in Item, CancelOne(i) \/ Start(i) \/ Finish(i)
  PROVE  IInv'
<1>1. UNCHANGED <<workers, next, pending, ordered, pc, failing>>
  BY DEF CancelOne, Start, Finish
<1>2. i \in InFlight /\ \A j \in Item \ {i} : status'[j] = status[j]
  BY DEF CancelOne, Start, Finish, InFlight, Busy, TypeOK
<1>3. InFlight' \subseteq InFlight
  BY <1>2 DEF InFlight
<1>4. i \notin ordered
  BY <1>2 DEF IInv, Futures, InFlight, Busy
<1>5. ordered \subseteq Item
  BY EvaluationBatchAssumption DEF TypeOK, Item
<1>6. Futures' /\ Pooled' /\ Cardinality(pending') <= workers'
  BY <1>1, <1>2, <1>3, <1>4, <1>5 DEF IInv, Futures, Pooled
<1>7. Control'
  BY <1>1, <1>3 DEF IInv, Control
<1>8. Serial'
  BY <1>1, <1>2 DEF CancelOne, Start, Finish, IInv, Serial, Control
<1>9. QED
  BY <1>6, <1>7, <1>8 DEF IInv

\* Every step keeps the invariant.
LEMMA InvStep == TypeOK /\ IInv /\ [Next]_vars => IInv'
<1> SUFFICES ASSUME TypeOK, IInv, [Next]_vars
             PROVE  IInv'
  OBVIOUS
<1>1. CASE Cancel \/ Done \/ UNCHANGED vars
  BY <1>1 DEF Cancel, Done, vars, IInv, Futures, Control, Pooled, Serial, InFlight
<1>2. CASE Admit
  BY <1>2, AdmitInv
<1>3. CASE Collect
  BY <1>3, CollectInv
<1>4. CASE AdmitEnds \/ AdmitRaises \/ Poll \/ WaitTimeout \/ CollectFailure \/ CancelEnds \/ Join
  BY <1>4, CallerMoves
<1>5. CASE SerialStart \/ SerialFinish \/ SerialEnds
  BY <1>5, SerialInv
<1>6. CASE \E i \in Item : CancelOne(i) \/ Start(i) \/ Finish(i)
  BY <1>6, FutureInv
<1>7. QED
  BY <1>1, <1>2, <1>3, <1>4, <1>5, <1>6 DEF Next, Caller, Pool

(* The inductive invariant: what is drawn is pending or collected, and the *)
(* ways out of the loop.                                                   *)
THEOREM InductiveInvariant == Spec => []IInv
<1>1. QED
  BY TypeInitial, TypeStep, InvInitial, InvStep, PTL DEF Spec

(* At most workers items are drawn and not handed back. *)
THEOREM AdmissionIsBounded == Spec => []AdmissionBounded
<1>1. TypeOK /\ IInv => AdmissionBounded
  BY EvaluationBatchAssumption DEF IInv, Pooled, Serial, TypeOK, AdmissionBounded
<1>2. QED
  BY <1>1, TypeCorrect, InductiveInvariant, PTL

(* No kernel is queued or running once the caller has control again. *)
THEOREM ReturnsWhenQuiet == Spec => []ReturnsQuiet
<1>1. IInv => ReturnsQuiet
  BY DEF IInv, Control, ReturnsQuiet
<1>2. QED
  BY <1>1, InductiveInvariant, PTL

(* A returned list holds every item's result. *)
THEOREM ReturnedListIsComplete == Spec => []ResultsComplete
<1>1. IInv => ResultsComplete
  BY DEF IInv, Control, Futures, ResultsComplete
<1>2. QED
  BY <1>1, InductiveInvariant, PTL

\* Every step obeys a cancellation and a failure, or changes nothing.
LEMMA StopStep == TypeOK /\ IInv /\ [Next]_vars => AdmissionStopped \/ UNCHANGED vars
<1> SUFFICES ASSUME TypeOK, IInv, Next
             PROVE  AdmissionStopped
  BY DEF vars
<1> USE DEF AdmissionStopped, TypeOK
<1>1. failing => pc \in {"cancel", "join", "returned"}
  BY DEF IInv, Control
<1>2. CASE Admit
  BY <1>1, <1>2, EvaluationBatchAssumption DEF Admit, NextItem, Item
<1>3. CASE AdmitEnds \/ AdmitRaises \/ Poll \/ WaitTimeout \/ Collect \/ CollectFailure \/ CancelEnds
           \/ Join \/ SerialEnds \/ Cancel \/ Done
  BY <1>3 DEF AdmitEnds, AdmitRaises, Poll, WaitTimeout, Collect, CollectFailure, CancelEnds, Join,
     SerialEnds, Cancel, Done, Raise, vars
<1>4. CASE SerialStart
  BY <1>1, <1>4 DEF SerialStart
<1>5. CASE SerialFinish
  <2>1. PICK outcome \in {"ok", "error"} : status' = [status EXCEPT ![next] = outcome]
    BY <1>5 DEF SerialFinish
  <2>2. ~ failing
    BY <1>1, <1>5 DEF SerialFinish
  <2>3. QED
    BY <2>1, <2>2
<1>6. CASE \E i \in Item : CancelOne(i) \/ Start(i) \/ Finish(i)
  <2>1. PICK i \in Item : CancelOne(i) \/ Start(i) \/ Finish(i)
    BY <1>6
  <2>2. CASE CancelOne(i)
    BY <2>2 DEF CancelOne
  <2>3. CASE Start(i)
    BY <2>3 DEF Start, Started
  <2>4. CASE Finish(i)
    BY <2>4 DEF Finish
  <2>5. QED
    BY <2>1, <2>2, <2>3, <2>4
<1>7. QED
  BY <1>2, <1>3, <1>4, <1>5, <1>6 DEF Next, Caller, Pool

(* No kernel starts once the flag is set, and no item is drawn once an     *)
(* exception is on its way to the caller.                                  *)
THEOREM AdmissionStops == Spec => StopsAdmission
<1>1. QED
  BY TypeInitial, TypeStep, InvInitial, InvStep, StopStep, PTL DEF Spec, StopsAdmission


-----------------------------------------------------------------------------
(* Authority: a binding that was verified stays verified.                   *)

\* A set of rows that contains what its members verify.
Closed(rows, proved) == \A s \in rows : Verifies(s, proved) => s \in proved

\* When every row of the registry is verified, the smallest closed set is the
\* registry itself.
LEMMA AllProved ==
  ASSUME \A r \in Receipts : VerifyBinding(r)
  PROVE  Authorities = Receipts
  BY DEF VerifyBinding, Verifies, Authorities

\* A registry that keeps its rows proves them and whatever they prove.
LEMMA AuthorityGrows ==
  ASSUME \A r \in Receipts : VerifyBinding(r),
         Receipts \subseteq Receipts',
         NEW r, VerifyBinding(r)
  PROVE  VerifyBinding(r)'
<1>1. Authorities = Receipts
  BY AllProved
<1>2. ASSUME NEW proved \in SUBSET Receipts', Closed(Receipts', proved)
      PROVE  Receipts \subseteq proved
  <2> DEFINE old == proved \cap Receipts
  <2>1. Closed(Receipts, old)
    BY <1>2 DEF Closed, Verifies, PreservesOriginal
  <2>2. Receipts \subseteq old
    BY <1>1, <2>1 DEF Closed, Authorities
  <2> QED
    BY <2>2
<1>3. Receipts \subseteq Authorities'
  BY <1>2 DEF Authorities, Closed, Verifies, PreservesOriginal
<1> QED
  BY <1>1, <1>3 DEF VerifyBinding, Verifies, PreservesOriginal

\* The row a publication inserts.
Inserts(w) ==
  /\ Admitted(w) /\ ExpectedObserved(w) /\ KeepsPrimitives(writer[w].receipt)
  /\ \E step \in ClockSteps :
       /\ now' = now + step
       /\ shared' = shared \cup {[receipt |-> writer[w].receipt, at |-> now']}

\* A step inserts the row of one publisher, empties the registry or keeps it.
LEMMA RegistryStep ==
  ASSUME [SharedNext]_sharedVars
  PROVE  \/ \E w \in Writers :
              /\ writer[w].phase = "saved" /\ Inserts(w)
              /\ writer' = [writer EXCEPT ![w] = Idle]
              /\ UNCHANGED <<registered, present>>
         \/ shared' = {} /\ now' = now
         \/ shared' = shared /\ now' = now
<1>1. ASSUME NEW w \in Writers, CloseShared(w)
      PROVE  \/ /\ writer[w].phase = "saved" /\ Inserts(w)
                /\ writer' = [writer EXCEPT ![w] = Idle]
                /\ UNCHANGED <<registered, present>>
             \/ shared' = shared /\ now' = now
  BY <1>1 DEF CloseShared, Inserts
<1>2. CASE RetireOwner
  BY <1>2 DEF RetireOwner
<1>3. CASE \/ PreviewOwner \/ UnlinkOwner \/ UNCHANGED sharedVars
  BY <1>3 DEF PreviewOwner, UnlinkOwner, sharedVars
<1>4. ASSUME NEW w \in Writers,
             \/ ReadShared(w) \/ SavePrimitives(w) \/ AbandonShared(w)
             \/ RetainOriginal(w) \/ ExpectOriginal(w)
             \/ \E r \in Receipts, i \in InputIds : AdmitOriginal(w, r, i)
      PROVE  shared' = shared /\ now' = now
  BY <1>4 DEF ReadShared, SavePrimitives, AdmitOriginal, RetainOriginal, ExpectOriginal,
              AbandonShared
<1> QED
  BY <1>1, <1>2, <1>3, <1>4 DEF SharedNext

LEMMA AuthorityStep ==
  ASSUME SharedAuthority, [SharedNext]_sharedVars
  PROVE  SharedAuthority'
<1> USE DEF SharedAuthority
<1>1. ASSUME NEW w \in Writers, Inserts(w), UNCHANGED present
      PROVE  SharedAuthority'
  <2>1. Receipts' = Receipts \cup {writer[w].receipt}
    <3> DEFINE row == [receipt |-> writer[w].receipt, at |-> now']
    <3>1. shared' = shared \cup {row} /\ row.receipt = writer[w].receipt
      BY <1>1 DEF Inserts
    <3> HIDE DEF row
    <3> QED
      BY <3>1 DEF Receipts
  <2>2. VerifyBinding(writer[w].receipt) /\ Contents(writer[w].receipt) \subseteq present
    BY <1>1 DEF Inserts, Admitted
  <2>3. \A r \in Receipts' : VerifyBinding(r) /\ Contents(r) \subseteq present
    BY <2>1, <2>2
  <2> QED
    BY <1>1, <2>1, <2>3, AuthorityGrows DEF Contents
<1>2. CASE shared' = {}
  BY <1>2 DEF Receipts
<1>3. CASE UNCHANGED shared
  <2>1. Receipts' = Receipts
    BY <1>3 DEF Receipts
  <2>2. \A r \in Receipts' : VerifyBinding(r)'
    BY <2>1, AuthorityGrows
  <2>3. \A r \in Receipts : Contents(r) \subseteq present'
    <3>1. CASE UNCHANGED present
      BY <3>1
    <3>2. ASSUME NEW w \in Writers, SavePrimitives(w) PROVE present \subseteq present'
      BY <3>2 DEF SavePrimitives, SaveTables
    <3>3. CASE UnlinkOwner
      BY <3>3 DEF UnlinkOwner, Referenced
    <3> QED
      BY <3>1, <3>2, <3>3
         DEF SharedNext, ReadShared, AdmitOriginal, RetainOriginal, ExpectOriginal,
             CloseShared, AbandonShared, PreviewOwner, RetireOwner, sharedVars
  <2> QED
    BY <2>1, <2>2, <2>3 DEF Contents
<1> QED
  BY <1>1, <1>2, <1>3, RegistryStep

\* Every published receipt has its files and its registered originals, whatever
\* was published, admitted or released meanwhile (verify_binding,
\* _require_publication_files).
THEOREM ReceiptsKeepAuthority ==
  SharedSpec => []SharedAuthority
<1>1. SharedInit => SharedAuthority
  BY DEF SharedInit, SharedAuthority, Receipts
<1> QED
  BY <1>1, AuthorityStep, PTL DEF SharedSpec

-----------------------------------------------------------------------------
(* What the registry and the publishers hold.                               *)

\* A receipt keeps the returns, and at most the coverage was added to them.
ReceiptShape(r) ==
  /\ r = [input |-> r.input, binding |-> r.binding, files |-> r.files]
  /\ r.input \in InputIds
  /\ r.files = [name \in DOMAIN r.files |-> r.files[name]]
  /\ DOMAIN r.files \in {{"returns"}, {"returns", "daily_signal_coverage"}}
  /\ "daily_signal_coverage" \in DOMAIN r.files =>
       r.files["daily_signal_coverage"] = Coverage

\* The rows are finitely many, and none is later than the clock was.
RowsShape ==
  /\ IsFiniteSet(shared)
  /\ \A row \in shared : row = [receipt |-> row.receipt, at |-> row.at] /\ row.at \in Int
  /\ now \in Int
  /\ \A r \in Receipts : ReceiptShape(r)

\* A publisher works with a receipt it has read or built from one.
WriterShape(state) ==
  /\ state.phase = "read" => state.expected = NoReceipt \/ ReceiptShape(state.expected)
  /\ state.phase = "admitted" => state.binding.replacement \in InputIds
  /\ state.phase = "saved" => ReceiptShape(state.receipt)

SharedType ==
  /\ RowsShape
  /\ DOMAIN writer = Writers
  /\ \A w \in Writers : WriterShape(writer[w])

ImmutabilityInv == SharedType /\ PrimitiveImmutable

-----------------------------------------------------------------------------
(* The newest row.                                                          *)

LEMMA NoReceiptDiffers ==
  ASSUME NEW r, ReceiptShape(r)
  PROVE  r # NoReceipt
  BY SharedAssumption DEF ReceiptShape, NoReceipt

LEMMA NewestRow ==
  ASSUME NEW rows, IsFiniteSet(rows), \A row \in rows : row.at \in Int
  PROVE  /\ rows = {} => Newest(rows) = NoReceipt
         /\ rows # {} => \E row \in rows : /\ Newest(rows) = row.receipt
                                          /\ \A other \in rows : other.at <= row.at
<1>1. CASE rows = {}
  BY <1>1 DEF Newest
<1>2. CASE rows # {}
  <2> DEFINE stamp == [row \in rows |-> row.at]
  <2>1. \A row \in rows : stamp[row] \in Int
    OBVIOUS
  <2>2. \E row \in rows : \A other \in rows : stamp[other] <= stamp[row]
    <3> HIDE DEF stamp
    <3> QED
      BY <1>2, <2>1, GreatestValue
  <2>3. \E row \in rows : \A other \in rows : other.at <= row.at
    BY <2>2
  <2> QED
    BY <1>2, <2>3 DEF Newest
<1> QED
  BY <1>1, <1>2

LEMMA LatestOfInput ==
  ASSUME RowsShape, NEW r \in Receipts
  PROVE  /\ LatestOf(r.input) \in Receipts
         /\ LatestOf(r.input).input = r.input
         /\ LatestOf(r.input) # NoReceipt
<1> DEFINE rows == {row \in shared : row.receipt.input = r.input}
<1>1. rows # {} /\ rows \subseteq shared
  BY DEF Receipts
<1>2. IsFiniteSet(rows) /\ \A row \in rows : row.at \in Int
  BY <1>1, FS_Subset DEF RowsShape
<1>3. PICK row \in rows : Newest(rows) = row.receipt
  BY <1>1, <1>2, NewestRow
<1> QED
  BY <1>3, NoReceiptDiffers DEF LatestOf, Receipts, RowsShape

LEMMA LatestSharedShape ==
  ASSUME RowsShape
  PROVE  LatestShared = NoReceipt \/ (LatestShared \in Receipts /\ ReceiptShape(LatestShared))
  BY NewestRow DEF LatestShared, Receipts, RowsShape

-----------------------------------------------------------------------------
(* Immutability.                                                            *)

\* Receipts of one shape that agree on the returns agree on every name.
LEMMA SameReturns ==
  ASSUME NEW r, NEW s, ReceiptShape(r), ReceiptShape(s), r.files["returns"] = s.files["returns"]
  PROVE  \A name \in DOMAIN r.files \cap DOMAIN s.files : r.files[name] = s.files[name]
  BY DEF ReceiptShape

LEMMA InsertedAgrees ==
  ASSUME ImmutabilityInv, NEW receipt, ReceiptShape(receipt), KeepsPrimitives(receipt),
         NEW s \in Receipts, s.input = receipt.input
  PROVE  \A name \in DOMAIN receipt.files \cap DOMAIN s.files :
            receipt.files[name] = s.files[name]
<1> DEFINE old == LatestOf(s.input)
<1>1. old \in Receipts /\ old.input = s.input /\ old # NoReceipt
  BY LatestOfInput DEF ImmutabilityInv, SharedType
<1>2. ReceiptShape(old) /\ ReceiptShape(s)
  BY <1>1 DEF ImmutabilityInv, SharedType, RowsShape
<1>3. "returns" \in DOMAIN old.files /\ "returns" \in DOMAIN s.files
  BY <1>2 DEF ReceiptShape
<1>4. receipt.files["returns"] = old.files["returns"]
  BY <1>1, <1>3 DEF KeepsPrimitives
<1>5. old.files["returns"] = s.files["returns"]
  BY <1>1, <1>3 DEF ImmutabilityInv, PrimitiveImmutable
<1> QED
  BY <1>2, <1>4, <1>5, SameReturns

\* Files with the coverage added have the shape of a receipt's files.
LEMMA GrownShape ==
  ASSUME NEW r, ReceiptShape(r)
  PROVE  ReceiptShape(WithCoverage(r))
<1> DEFINE files == [name \in DOMAIN r.files \cup {"daily_signal_coverage"} |->
                       IF name \in DOMAIN r.files THEN r.files[name] ELSE Coverage]
           grown == [input |-> r.input, binding |-> r.binding, files |-> files]
<1>1. grown = WithCoverage(r)
  BY DEF ReceiptShape, WithCoverage
<1>2. DOMAIN files = {"returns", "daily_signal_coverage"}
      /\ files["daily_signal_coverage"] = Coverage
  BY DEF ReceiptShape
<1>3. files = [name \in DOMAIN files |-> files[name]]
  OBVIOUS
<1> HIDE DEF files
<1>4. ReceiptShape(grown)
  BY <1>2, <1>3 DEF ReceiptShape
<1> QED
  BY <1>1, <1>4

LEMMA NewShape ==
  ASSUME NEW r \in NewPrimitives
  PROVE  ReceiptShape(r)
<1>1. PICK i \in InputIds, c \in Tables :
        r = [input |-> i, binding |-> Unbound, files |-> [name \in {"returns"} |-> c]]
  BY DEF NewPrimitives
<1> QED
  BY <1>1 DEF ReceiptShape

LEMMA WriterStep ==
  ASSUME SharedType, [SharedNext]_sharedVars
  PROVE  DOMAIN writer' = Writers /\ \A w \in Writers : WriterShape(writer'[w])
<1> DEFINE Moves(w, state) == writer' = [writer EXCEPT ![w] = state]
<1>1. ASSUME NEW w \in Writers, NEW state, WriterShape(state), Moves(w, state)
      PROVE  DOMAIN writer' = Writers /\ \A v \in Writers : WriterShape(writer'[v])
  BY <1>1 DEF SharedType
<1>2. WriterShape(Idle)
  BY DEF WriterShape, Idle
<1>3. CASE UNCHANGED writer
  BY <1>3 DEF SharedType
<1>4. ASSUME NEW w \in Writers, ReadShared(w)
      PROVE  \E state : WriterShape(state) /\ Moves(w, state)
  <2> DEFINE state == [phase |-> "read", expected |-> LatestShared]
  <2>1. Moves(w, state)
    BY <1>4 DEF ReadShared
  <2>2. WriterShape(state)
    BY LatestSharedShape DEF WriterShape, SharedType
  <2> QED
    BY <2>1, <2>2
<1>5. ASSUME NEW w \in Writers, SavePrimitives(w)
      PROVE  \E state : WriterShape(state) /\ Moves(w, state)
  <2> DEFINE expected == writer[w].expected
             State(receipt) == [phase |-> "saved", expected |-> expected,
                                receipt |-> receipt, admission |-> Unbound]
  <2>1. PICK receipt \in NewPrimitives
                          \cup (IF expected = NoReceipt THEN {} ELSE {WithCoverage(expected)}) :
               Moves(w, State(receipt))
    BY <1>5 DEF SavePrimitives
  <2>2. expected = NoReceipt \/ ReceiptShape(expected)
    BY <1>5 DEF SavePrimitives, SharedType, WriterShape
  <2>3. ReceiptShape(receipt)
    BY <2>1, <2>2, GrownShape, NewShape
  <2>4. WriterShape(State(receipt))
    BY <2>3 DEF WriterShape
  <2> QED
    BY <2>1, <2>4
<1>6. ASSUME NEW w \in Writers, NEW r \in Receipts, NEW i \in InputIds,
             AdmitOriginal(w, r, i)
      PROVE  \E state : WriterShape(state) /\ Moves(w, state)
  <2> DEFINE state == [phase |-> "admitted",
                       binding |-> [original |-> r, replacement |-> i]]
  <2>1. Moves(w, state)
    BY <1>6 DEF AdmitOriginal
  <2>2. WriterShape(state)
    BY DEF WriterShape
  <2> QED
    BY <2>1, <2>2
<1>7. ASSUME NEW w \in Writers, ExpectOriginal(w)
      PROVE  \E state : WriterShape(state) /\ Moves(w, state)
  <2> DEFINE binding == writer[w].binding
             receipt == [input |-> binding.replacement, binding |-> binding,
                         files |-> LatestShared.files]
             state == [phase |-> "saved", expected |-> LatestShared, admission |-> binding,
                       receipt |-> receipt]
  <2>1. Moves(w, state)
    BY <1>7 DEF ExpectOriginal
  <2>2. ReceiptShape(LatestShared)
    BY <1>7, LatestSharedShape DEF ExpectOriginal, SharedType
  <2>3. binding.replacement \in InputIds
    BY <1>7 DEF ExpectOriginal, SharedType, WriterShape
  <2>4. ReceiptShape(receipt)
    BY <2>2, <2>3 DEF ReceiptShape
  <2>5. WriterShape(state)
    BY <2>4 DEF WriterShape
  <2> QED
    BY <2>1, <2>5
<1>8. ASSUME NEW w \in Writers, CloseShared(w) \/ AbandonShared(w) \/ RetainOriginal(w)
      PROVE  Moves(w, Idle)
  BY <1>8 DEF CloseShared, AbandonShared, RetainOriginal
<1>9. CASE PreviewOwner \/ RetireOwner \/ UnlinkOwner \/ UNCHANGED sharedVars
  BY <1>3, <1>9 DEF PreviewOwner, RetireOwner, UnlinkOwner, sharedVars
<1> HIDE DEF Moves
<1> QED
  BY <1>1, <1>2, <1>4, <1>5, <1>6, <1>7, <1>8, <1>9 DEF SharedNext

LEMMA RowsStep ==
  ASSUME SharedType, [SharedNext]_sharedVars
  PROVE  RowsShape'
<1>1. ASSUME NEW w \in Writers, writer[w].phase = "saved", Inserts(w)
      PROVE  RowsShape'
  <2> DEFINE row == [receipt |-> writer[w].receipt, at |-> now']
  <2>1. shared' = shared \cup {row} /\ now' \in Int
    BY <1>1, SharedAssumption DEF Inserts, SharedType, RowsShape
  <2>2. row.receipt = writer[w].receipt /\ row.at = now' /\ ReceiptShape(writer[w].receipt)
        /\ row = [receipt |-> row.receipt, at |-> row.at]
    BY <1>1 DEF SharedType, WriterShape
  <2> HIDE DEF row
  <2>3. IsFiniteSet(shared')
    BY <2>1, FS_AddElement DEF SharedType, RowsShape
  <2>4. \A r \in Receipts' : ReceiptShape(r)
    BY <2>1, <2>2 DEF SharedType, RowsShape, Receipts
  <2> QED
    BY <2>1, <2>2, <2>3, <2>4 DEF SharedType, RowsShape
<1>2. CASE shared' = {} /\ now' = now
  BY <1>2, FS_EmptySet DEF SharedType, RowsShape, Receipts
<1>3. CASE shared' = shared /\ now' = now
  BY <1>3 DEF SharedType, RowsShape, Receipts
<1> QED
  BY <1>1, <1>2, <1>3, RegistryStep

LEMMA ImmutableStep ==
  ASSUME ImmutabilityInv, [SharedNext]_sharedVars
  PROVE  PrimitiveImmutable'
<1>1. ASSUME NEW w \in Writers, writer[w].phase = "saved", Inserts(w)
      PROVE  PrimitiveImmutable'
  <2> DEFINE receipt == writer[w].receipt
             row == [receipt |-> receipt, at |-> now']
  <2>1. shared' = shared \cup {row} /\ row.receipt = receipt
    BY <1>1 DEF Inserts
  <2>2. Receipts' = Receipts \cup {receipt}
    <3> HIDE DEF row, receipt
    <3> QED
      BY <2>1 DEF Receipts
  <2>3. ReceiptShape(receipt) /\ KeepsPrimitives(receipt)
    BY <1>1 DEF Inserts, ImmutabilityInv, SharedType, WriterShape
  <2> HIDE DEF receipt
  <2>4. \A s \in Receipts : s.input = receipt.input =>
          \A name \in DOMAIN receipt.files \cap DOMAIN s.files :
             receipt.files[name] = s.files[name]
    BY <2>3, InsertedAgrees
  <2> QED
    BY <2>2, <2>4 DEF ImmutabilityInv, PrimitiveImmutable
<1>2. CASE shared' = {}
  BY <1>2 DEF PrimitiveImmutable, Receipts
<1>3. CASE shared' = shared
  BY <1>3 DEF ImmutabilityInv, PrimitiveImmutable, Receipts
<1> QED
  BY <1>1, <1>2, <1>3, RegistryStep

LEMMA SharedTypeInit ==
  SharedInit => SharedType
  BY FS_EmptySet DEF SharedInit, SharedType, RowsShape, Receipts, WriterShape, Idle

LEMMA SharedTypeStep ==
  SharedType /\ [SharedNext]_sharedVars => SharedType'
  BY WriterStep, RowsStep DEF SharedType, WriterShape, ReceiptShape

\* All receipts of the same inputs, bound ones too, give a primitive the same
\* content, whoever published them and in whatever order (publish_shared).
THEOREM PrimitivesNeverChange ==
  SharedSpec => []PrimitiveImmutable
<1>1. SharedInit => ImmutabilityInv
  BY SharedTypeInit DEF SharedInit, ImmutabilityInv, PrimitiveImmutable, Receipts
<1>2. ImmutabilityInv /\ [SharedNext]_sharedVars => ImmutabilityInv'
  BY SharedTypeStep, ImmutableStep DEF ImmutabilityInv
<1>3. ImmutabilityInv => PrimitiveImmutable
  BY DEF ImmutabilityInv
<1> QED
  BY <1>1, <1>2, <1>3, PTL DEF SharedSpec

-----------------------------------------------------------------------------
(* Succession.                                                              *)

\* No row is later than the clock.
RowsPast == SharedType /\ \A row \in shared : row.at <= now

\* The row a publication inserts is the one of its own publisher, and replaces
\* the receipt that publisher had read.
LEMMA InsertedRow ==
  ASSUME SharedType, [SharedNext]_sharedVars, NEW row \in shared' \ shared
  PROVE  \E w \in Writers :
            /\ writer[w] # writer'[w]
            /\ writer[w].receipt = row.receipt
            /\ writer[w].expected = LatestShared
            /\ shared' = shared \cup {row} /\ row.at = now' /\ now' - now \in ClockSteps
<1>1. PICK w \in Writers : /\ writer[w].phase = "saved" /\ Inserts(w)
                          /\ writer' = [writer EXCEPT ![w] = Idle]
  BY RegistryStep
<1> DEFINE inserted == [receipt |-> writer[w].receipt, at |-> now']
<1>2. PICK step \in ClockSteps : now' = now + step /\ shared' = shared \cup {inserted}
  BY <1>1 DEF Inserts
<1>3. row = inserted /\ inserted.at = now' /\ inserted.receipt = writer[w].receipt
  BY <1>2
<1>4. now' - now \in ClockSteps
  BY <1>2, SharedAssumption DEF SharedType, RowsShape
<1>5. writer[w].expected = LatestShared
  BY <1>1 DEF Inserts, ExpectedObserved
<1>6. writer[w] # writer'[w]
  BY <1>1 DEF SharedType, Idle
<1> HIDE DEF inserted
<1> QED
  BY <1>2, <1>3, <1>4, <1>5, <1>6

\* When the clock advances between publications, what was published last is
\* what the next reader gets.
LEMMA LastIsNewest ==
  ASSUME RowsPast, RowsShape', ClockSteps \subseteq Nat \ {0}, NEW row,
         shared' = shared \cup {row}, row.at = now', now' - now \in ClockSteps
  PROVE  LatestShared' = row.receipt
<1>1. \A other \in shared : other.at < row.at
  BY DEF RowsPast, SharedType, RowsShape
<1>2. PICK newest \in shared' : /\ LatestShared' = newest.receipt
                               /\ \A other \in shared' : other.at <= newest.at
  BY NewestRow DEF LatestShared, RowsShape
<1> QED
  BY <1>1, <1>2 DEF RowsPast, SharedType, RowsShape

LEMMA RowsPastStep ==
  ASSUME ClockSteps \subseteq Nat \ {0}
  PROVE  RowsPast /\ [SharedNext]_sharedVars => RowsPast'
<1> SUFFICES ASSUME RowsPast, [SharedNext]_sharedVars PROVE RowsPast'
  OBVIOUS
<1>1. SharedType'
  BY SharedTypeStep DEF RowsPast
<1>2. ASSUME NEW row \in shared' PROVE row.at <= now'
  <2>1. CASE row \notin shared
    BY <1>1, <2>1, InsertedRow DEF RowsPast, SharedType, RowsShape
  <2>2. CASE row \in shared
    <3>1. now' >= now /\ now' \in Int /\ now \in Int
      <4>1. CASE \E w \in Writers : Inserts(w)
        BY <4>1 DEF Inserts, RowsPast, SharedType, RowsShape
      <4>2. CASE now' = now
        BY <4>2 DEF RowsPast, SharedType, RowsShape
      <4> QED
        BY <4>1, <4>2, RegistryStep
    <3> QED
      BY <2>2, <3>1 DEF RowsPast, SharedType, RowsShape
  <2> QED
    BY <2>1, <2>2
<1> QED
  BY <1>1, <1>2 DEF RowsPast

\* A publication replaces exactly the receipt it was computed from and, provided
\* the wall clock advanced since the last one, is the one the next reader gets
\* (publish_shared, which orders rows by datetime.now).
THEOREM PublicationsSucceedExpected ==
  ASSUME ClockSteps \subseteq Nat \ {0}
  PROVE  SharedSpec => SucceedsExpected
<1>1. SharedInit => RowsPast
  BY SharedTypeInit DEF SharedInit, RowsPast
<1>2. RowsPast /\ [SharedNext]_sharedVars => RowsPast'
  BY RowsPastStep
<1>3. RowsPast /\ [SharedNext]_sharedVars => Succeeds
  <2> SUFFICES ASSUME RowsPast, [SharedNext]_sharedVars, NEW row \in shared' \ shared
               PROVE  /\ \E w \in Writers : /\ writer[w] # writer'[w]
                                            /\ writer[w].receipt = row.receipt
                                            /\ writer[w].expected = LatestShared
                      /\ LatestShared' = row.receipt
    BY DEF Succeeds
  <2>1. SharedType /\ SharedType'
    BY SharedTypeStep DEF RowsPast
  <2> QED
    BY <2>1, InsertedRow, LastIsNewest DEF SharedType
<1> QED
  BY <1>1, <1>2, <1>3, PTL DEF SharedSpec, SucceedsExpected

-----------------------------------------------------------------------------
(* Continued tables: what a selection, a read and a composition return, by  *)
(* induction on the lists they are made from.                               *)

\* The rows and filters of a table of the axis.
TableRows == [group : Groups, day : Axis, revision : Int]
TableFilters == [groups : SUBSET Groups, from : Int, to : Int]

\* What a filter leaves of each row.
Picked(q, f) == [i \in DOMAIN q |-> IF Keeps(f, q[i]) THEN << q[i] >> ELSE << >>]

LEMMA PickedMap ==
  ASSUME NEW X, NEW f, NEW q \in Seq(X)
  PROVE  LET m == [x \in X |-> IF Keeps(f, x) THEN << x >> ELSE << >>]
         IN  /\ Picked(q, f) = Map(m, q)
             /\ Maps(m, X, Seq(X))
<1> DEFINE m == [x \in X |-> IF Keeps(f, x) THEN << x >> ELSE << >>]
<1>1. \A i \in DOMAIN q : q[i] \in X
  OBVIOUS
<1>2. Picked(q, f) = Map(m, q)
  BY <1>1 DEF Picked, Map
<1>3. \A x \in X : << x >> \in Seq(X) /\ << >> \in Seq(X)
  OBVIOUS
<1> QED
  BY <1>2, <1>3 DEF Maps

LEMMA PickedType ==
  ASSUME NEW X, NEW q \in Seq(X), NEW f
  PROVE  Picked(q, f) \in Seq(Seq(X))
<1> DEFINE m == [x \in X |-> IF Keeps(f, x) THEN << x >> ELSE << >>]
<1>1. Picked(q, f) = Map(m, q) /\ Maps(m, X, Seq(X))
  BY PickedMap
<1> HIDE DEF m
<1> QED
  BY <1>1, MapType

LEMMA SelectType ==
  ASSUME NEW X, NEW q \in Seq(X), NEW f
  PROVE  Select(q, f) \in Seq(X)
<1>1. Select(q, f) = FlattenSeq(Picked(q, f))
  BY DEF Select, Picked
<1> QED
  BY <1>1, PickedType, FlatType

LEMMA SelectEmpty ==
  ASSUME NEW f
  PROVE  Select(<< >>, f) = << >>
<1>1. Picked(<< >>, f) = << >>
  BY DEF Picked
<1>2. Select(<< >>, f) = FlattenSeq(Picked(<< >>, f))
  BY DEF Select, Picked
<1> QED
  BY <1>1, <1>2, FlatEmpty

LEMMA SelectAppend ==
  ASSUME NEW X, NEW q \in Seq(X), NEW x \in X, NEW f
  PROVE  Select(Append(q, x), f) = IF Keeps(f, x) THEN Append(Select(q, f), x)
                                   ELSE Select(q, f)
<1> DEFINE s == IF Keeps(f, x) THEN << x >> ELSE << >>
           r == Append(q, x)
<1>1. Picked(r, f) = Append(Picked(q, f), s)
  <2> DEFINE m == [y \in X |-> IF Keeps(f, y) THEN << y >> ELSE << >>]
  <2>1. r \in Seq(X) /\ m[x] = s
    OBVIOUS
  <2>2. /\ Picked(r, f) = Map(m, r) /\ Picked(q, f) = Map(m, q)
        /\ Maps(m, X, Seq(X))
    BY <2>1, PickedMap
  <2> HIDE DEF m, s
  <2> QED
    BY <2>1, <2>2, MapAppend
<1>2. /\ Select(r, f) = FlattenSeq(Picked(r, f))
      /\ Select(q, f) = FlattenSeq(Picked(q, f))
  BY DEF Select, Picked
<1>3. s \in Seq(X) /\ Picked(q, f) \in Seq(Seq(X)) /\ Select(q, f) \in Seq(X)
  BY PickedType, SelectType
<1>4. Select(r, f) = Select(q, f) \o s
  <2> HIDE DEF r, s
  <2> QED
    BY <1>1, <1>2, <1>3, FlatAppend
<1>5. Select(q, f) \o << x >> = Append(Select(q, f), x) /\ Select(q, f) \o << >> = Select(q, f)
  BY <1>3
<1> QED
  BY <1>4, <1>5

LEMMA SelectJoin ==
  ASSUME NEW X, NEW p \in Seq(X), NEW q \in Seq(X), NEW f
  PROVE  Select(p \o q, f) = Select(p, f) \o Select(q, f)
<1> DEFINE S == {r \in Seq(X) : Select(p \o r, f) = Select(p, f) \o Select(r, f)}
<1>1. << >> \in S
  <2>1. p \o << >> = p /\ << >> \in Seq(X)
    OBVIOUS
  <2>2. Select(p, f) \o << >> = Select(p, f)
    BY SelectType
  <2> QED
    BY <2>1, <2>2, SelectEmpty
<1>2. \A r \in Seq(X), x \in X : r \in S => Append(r, x) \in S
  <2> SUFFICES ASSUME NEW r \in Seq(X), NEW x \in X,
                      Select(p \o r, f) = Select(p, f) \o Select(r, f)
               PROVE  Select(p \o Append(r, x), f) = Select(p, f) \o Select(Append(r, x), f)
    <3>1. \A r \in Seq(X), x \in X : Append(r, x) \in Seq(X)
      OBVIOUS
    <3> QED
      BY <3>1, Zenon
  <2>1. p \o Append(r, x) = Append(p \o r, x) /\ p \o r \in Seq(X)
    BY AppendToJoin
  <2>2. Select(Append(p \o r, x), f) = IF Keeps(f, x) THEN Append(Select(p \o r, f), x)
                                       ELSE Select(p \o r, f)
    BY <2>1, SelectAppend
  <2>3. Select(Append(r, x), f) = IF Keeps(f, x) THEN Append(Select(r, f), x)
                                  ELSE Select(r, f)
    BY SelectAppend
  <2>4. Select(p, f) \o Append(Select(r, f), x) = Append(Select(p, f) \o Select(r, f), x)
    BY SelectType, AppendToJoin
  <2> QED
    BY <2>1, <2>2, <2>3, <2>4
<1>3. \A r \in Seq(X) : r \in S
  <2> HIDE DEF S
  <2> QED
    BY <1>1, <1>2, SeqInduction
<1> QED
  BY <1>3

LEMMA SelectSelect ==
  ASSUME NEW X, NEW q \in Seq(X), NEW f, NEW g, NEW h,
         \A x \in X : Keeps(h, x) <=> Keeps(f, x) /\ Keeps(g, x)
  PROVE  Select(Select(q, f), g) = Select(q, h)
<1> DEFINE S == {r \in Seq(X) : Select(Select(r, f), g) = Select(r, h)}
<1>1. << >> \in S
  <2>1. << >> \in Seq(X)
    OBVIOUS
  <2> QED
    BY <2>1, SelectEmpty
<1>2. \A r \in Seq(X), x \in X : r \in S => Append(r, x) \in S
  <2> SUFFICES ASSUME NEW r \in Seq(X), NEW x \in X,
                      Select(Select(r, f), g) = Select(r, h)
               PROVE  Select(Select(Append(r, x), f), g) = Select(Append(r, x), h)
    OBVIOUS
  <2> DEFINE s == Select(r, f)
  <2>1. s \in Seq(X)
    BY SelectType
  <2>2. Select(Append(r, x), f) = IF Keeps(f, x) THEN Append(s, x) ELSE s
    BY SelectAppend
  <2>3. Select(Append(r, x), h) = IF Keeps(h, x) THEN Append(Select(r, h), x)
                                  ELSE Select(r, h)
    BY SelectAppend
  <2>4. Select(Append(s, x), g) = IF Keeps(g, x) THEN Append(Select(s, g), x)
                                  ELSE Select(s, g)
    BY <2>1, SelectAppend
  <2>5. Keeps(h, x) <=> Keeps(f, x) /\ Keeps(g, x)
    OBVIOUS
  <2> QED
    BY <2>2, <2>3, <2>4, <2>5
<1>3. \A r \in Seq(X) : r \in S
  <2> HIDE DEF S
  <2> QED
    BY <1>1, <1>2, SeqInduction
<1> QED
  BY <1>3

LEMMA SelectAll ==
  ASSUME NEW X, NEW q \in Seq(X), NEW f, \A x \in X : Keeps(f, x)
  PROVE  Select(q, f) = q
<1> DEFINE S == {r \in Seq(X) : Select(r, f) = r}
<1>1. << >> \in S
  <2>1. << >> \in Seq(X)
    OBVIOUS
  <2> QED
    BY <2>1, SelectEmpty
<1>2. \A r \in Seq(X), x \in X : r \in S => Append(r, x) \in S
  <2> SUFFICES ASSUME NEW r \in Seq(X), NEW x \in X, Select(r, f) = r
               PROVE  Select(Append(r, x), f) = Append(r, x)
    OBVIOUS
  <2> QED
    BY SelectAppend
<1>3. \A r \in Seq(X) : r \in S
  <2> HIDE DEF S
  <2> QED
    BY <1>1, <1>2, SeqInduction
<1> QED
  BY <1>3

LEMMA SelectNone ==
  ASSUME NEW X, NEW q \in Seq(X), NEW f, \A x \in X : ~ Keeps(f, x)
  PROVE  Select(q, f) = << >>
<1> DEFINE S == {r \in Seq(X) : Select(r, f) = << >>}
<1>1. << >> \in S
  <2>1. << >> \in Seq(X)
    OBVIOUS
  <2> QED
    BY <2>1, SelectEmpty
<1>2. \A r \in Seq(X), x \in X : r \in S => Append(r, x) \in S
  <2> SUFFICES ASSUME NEW r \in Seq(X), NEW x \in X, Select(r, f) = << >>
               PROVE  Select(Append(r, x), f) = << >>
    OBVIOUS
  <2> QED
    BY SelectAppend
<1>3. \A r \in Seq(X) : r \in S
  <2> HIDE DEF S
  <2> QED
    BY <1>1, <1>2, SeqInduction
<1> QED
  BY <1>3

\* Filters that admit the same rows select the same.
LEMMA SelectSame ==
  ASSUME NEW X, NEW q \in Seq(X), NEW f, NEW g,
         \A x \in X : Keeps(f, x) <=> Keeps(g, x)
  PROVE  Select(q, f) = Select(q, g)
<1>1. \A i \in DOMAIN q : q[i] \in X
  OBVIOUS
<1>2. Picked(q, f) = Picked(q, g)
  BY <1>1 DEF Picked
<1> QED
  BY <1>2 DEF Select, Picked

\* Selecting from a concatenation selects from each of its members.
LEMMA SelectFlat ==
  ASSUME NEW X, NEW qs \in Seq(Seq(X)), NEW f
  PROVE  /\ [i \in DOMAIN qs |-> Select(qs[i], f)] \in Seq(Seq(X))
         /\ Select(FlattenSeq(qs), f) = FlattenSeq([i \in DOMAIN qs |-> Select(qs[i], f)])
<1> DEFINE Y == Seq(X)
           Each(r) == [i \in DOMAIN r |-> Select(r[i], f)]
           S == {r \in Seq(Y) : Select(FlattenSeq(r), f) = FlattenSeq(Each(r))}
           m == [y \in Y |-> Select(y, f)]
<1>0. /\ \A y \in Y : m[y] = Select(y, f)
      /\ Maps(m, Y, Y)
      /\ \A r \in Seq(Y) : Each(r) = Map(m, r) /\ Each(r) \in Seq(Y)
  <2>1. \A y \in Y : Select(y, f) \in Y
    BY SelectType
  <2> HIDE DEF Y
  <2>2. (\A y \in Y : m[y] = Select(y, f)) /\ Maps(m, Y, Y)
    BY <2>1 DEF Maps
  <2>3. ASSUME NEW r \in Seq(Y) PROVE Each(r) = Map(m, r)
    <3>1. \A i \in DOMAIN r : r[i] \in Y
      OBVIOUS
    <3> QED
      BY <2>2, <3>1 DEF Map
  <2> HIDE DEF m, Each
  <2> QED
    BY <2>2, <2>3, MapType
<1>1. << >> \in S
  <2>1. << >> \in Seq(Y) /\ Each(<< >>) = << >>
    OBVIOUS
  <2> QED
    BY <2>1, FlatEmpty, SelectEmpty
<1>2. \A r \in Seq(Y), y \in Y : r \in S => Append(r, y) \in S
  <2> SUFFICES ASSUME NEW r \in Seq(Y), NEW y \in Y,
                      Select(FlattenSeq(r), f) = FlattenSeq(Each(r))
               PROVE  /\ Append(r, y) \in Seq(Y)
                      /\ Select(FlattenSeq(Append(r, y)), f) = FlattenSeq(Each(Append(r, y)))
    OBVIOUS
  <2>1. FlattenSeq(Append(r, y)) = FlattenSeq(r) \o y /\ FlattenSeq(r) \in Seq(X)
    BY FlatAppend, FlatType
  <2>2. Select(FlattenSeq(r) \o y, f) = Select(FlattenSeq(r), f) \o Select(y, f)
    BY ONLY <2>1, y \in Seq(X), SelectJoin
  <2>3. Each(Append(r, y)) = Append(Each(r), Select(y, f))
    <3> HIDE DEF Y
    <3>1. Append(r, y) \in Seq(Y)
      OBVIOUS
    <3> HIDE DEF Each, m
    <3> QED
      <4>1. Map(m, Append(r, y)) = Append(Map(m, r), m[y])
        BY <1>0, MapAppend
      <4>2. Each(Append(r, y)) = Map(m, Append(r, y)) /\ Each(r) = Map(m, r)
        BY <1>0, <3>1
      <4>3. m[y] = Select(y, f)
        BY <1>0
      <4> QED
        BY <4>1, <4>2, <4>3
  <2>4. FlattenSeq(Append(Each(r), Select(y, f))) = FlattenSeq(Each(r)) \o Select(y, f)
    <3>1. Each(r) \in Seq(Seq(X)) /\ Select(y, f) \in Seq(X)
      BY <1>0, SelectType
    <3> HIDE DEF Each
    <3> QED
      BY <3>1, FlatAppend
  <2>5. Append(r, y) \in Seq(Y)
    <3> HIDE DEF Y
    <3> QED
      OBVIOUS
  <2> HIDE DEF Each
  <2> QED
    BY <2>1, <2>2, <2>3, <2>4, <2>5
<1>3. \A r \in Seq(Y) : r \in S
  <2> HIDE DEF S, Y
  <2> QED
    BY <1>1, <1>2, SeqInduction
<1> QED
  BY <1>0, <1>3

CountedParts ==
  {p \in [leaf : Seq(TableRows), groups : SUBSET Groups, from : Int, to : Int, rows : Nat] :
      p.rows = Len(Select(p.leaf, FilterOf(p)))}

\* What a read takes from a part.
Taken == [p \in CountedParts |-> Select(p.leaf, FilterOf(p))]

LEMMA TakenMaps ==
  /\ Maps(Taken, CountedParts, Seq(TableRows))
  /\ \A p \in CountedParts : Taken[p] = Select(p.leaf, FilterOf(p)) /\ p.rows = Len(Taken[p])
<1>1. \A p \in CountedParts : p.leaf \in Seq(TableRows) /\ p.rows = Len(Select(p.leaf, FilterOf(p)))
  BY DEF CountedParts
<1>2. \A p \in CountedParts : Select(p.leaf, FilterOf(p)) \in Seq(TableRows)
  BY <1>1, SelectType
<1> QED
  BY <1>1, <1>2 DEF Maps, Taken

LEMMA PartCounted ==
  ASSUME NEW leaf \in Seq(TableRows), NEW f \in TableFilters
  PROVE  /\ Part(leaf, f) \in CountedParts
         /\ FilterOf(Part(leaf, f)) = f
         /\ Taken[Part(leaf, f)] = Select(leaf, f)
<1> DEFINE p == Part(leaf, f)
<1>1. /\ p.leaf = leaf /\ p.groups = f.groups /\ p.from = f.from /\ p.to = f.to
      /\ p.rows = Len(Select(leaf, f))
      /\ p = [leaf |-> leaf, groups |-> p.groups, from |-> p.from, to |-> p.to, rows |-> p.rows]
  BY DEF Part
<1>2. /\ f.groups \in SUBSET Groups /\ f.from \in Int /\ f.to \in Int
      /\ f = [groups |-> f.groups, from |-> f.from, to |-> f.to]
  BY DEF TableFilters
<1>3. Len(Select(leaf, f)) \in Nat
  <2>1. Select(leaf, f) \in Seq(TableRows)
    BY SelectType
  <2> QED
    BY <2>1
<1> HIDE DEF p
<1>4. FilterOf(p) = f
  BY <1>1, <1>2 DEF FilterOf
<1>5. p \in CountedParts
  BY <1>1, <1>2, <1>3, <1>4 DEF CountedParts
<1> QED
  BY <1>1, <1>4, <1>5, TakenMaps DEF p

\* A read, as a concatenation of what it takes from each part.
LEMMA ReadTaken ==
  ASSUME NEW ref \in Seq(CountedParts)
  PROVE  /\ ReadReference(ref) = FlattenSeq(Map(Taken, ref))
         /\ Map(Taken, ref) \in Seq(Seq(TableRows))
         /\ ReadReference(ref) \in Seq(TableRows)
<1>1. \A i \in DOMAIN ref : ref[i] \in CountedParts
  OBVIOUS
<1>2. [i \in DOMAIN ref |-> Select(ref[i].leaf, FilterOf(ref[i]))] = Map(Taken, ref)
  BY <1>1, TakenMaps DEF Map
<1>3. Map(Taken, ref) \in Seq(Seq(TableRows))
  BY TakenMaps, MapType
<1>4. FlattenSeq(Map(Taken, ref)) \in Seq(TableRows)
  BY <1>3, FlatType
<1> QED
  BY <1>2, <1>3, <1>4 DEF ReadReference

LEMMA ReadEmpty ==
  ReadReference(<< >>) = << >>
<1>1. Map(Taken, << >>) = << >>
  BY DEF Map
<1>2. << >> \in Seq(CountedParts)
  OBVIOUS
<1> QED
  BY <1>1, <1>2, ReadTaken, FlatEmpty

LEMMA ReadAppend ==
  ASSUME NEW ref \in Seq(CountedParts), NEW p \in CountedParts
  PROVE  ReadReference(Append(ref, p)) = ReadReference(ref) \o Taken[p]
<1> DEFINE r == Append(ref, p)
<1>1. r \in Seq(CountedParts) /\ Map(Taken, r) = Append(Map(Taken, ref), Taken[p])
  <2>1. Map(Taken, r) = Append(Map(Taken, ref), Taken[p])
    BY TakenMaps, MapAppend
  <2> QED
    BY <2>1
<1>2. Taken[p] \in Seq(TableRows)
  BY TakenMaps DEF Maps
<1>3. FlattenSeq(Append(Map(Taken, ref), Taken[p])) = FlattenSeq(Map(Taken, ref)) \o Taken[p]
  BY <1>2, ReadTaken, FlatAppend
<1> HIDE DEF r
<1>4. ReadReference(r) = FlattenSeq(Map(Taken, r))
  BY <1>1, ReadTaken
<1> QED
  BY <1>1, <1>3, <1>4, ReadTaken DEF r

LEMMA ReadJoin ==
  ASSUME NEW p \in Seq(CountedParts), NEW q \in Seq(CountedParts)
  PROVE  ReadReference(p \o q) = ReadReference(p) \o ReadReference(q)
<1> DEFINE S == {r \in Seq(CountedParts) :
                    ReadReference(p \o r) = ReadReference(p) \o ReadReference(r)}
<1>1. << >> \in S
  <2>1. p \o << >> = p /\ << >> \in Seq(CountedParts)
    OBVIOUS
  <2>2. ReadReference(p) \o << >> = ReadReference(p)
    BY ReadTaken
  <2> QED
    BY <2>1, <2>2, ReadEmpty
<1>2. \A r \in Seq(CountedParts), x \in CountedParts : r \in S => Append(r, x) \in S
  <2> SUFFICES ASSUME NEW r \in Seq(CountedParts), NEW x \in CountedParts,
                      ReadReference(p \o r) = ReadReference(p) \o ReadReference(r)
               PROVE  ReadReference(p \o Append(r, x))
                        = ReadReference(p) \o ReadReference(Append(r, x))
    <3>1. \A r \in Seq(CountedParts), x \in CountedParts : Append(r, x) \in Seq(CountedParts)
      OBVIOUS
    <3> QED
      BY <3>1, Zenon
  <2>1. p \o Append(r, x) = Append(p \o r, x) /\ p \o r \in Seq(CountedParts)
    BY AppendToJoin
  <2>2. ReadReference(Append(p \o r, x)) = ReadReference(p \o r) \o Taken[x]
    BY <2>1, ReadAppend
  <2>3. ReadReference(Append(r, x)) = ReadReference(r) \o Taken[x]
    BY ReadAppend
  <2>4. /\ ReadReference(p) \in Seq(TableRows) /\ ReadReference(r) \in Seq(TableRows)
        /\ Taken[x] \in Seq(TableRows)
    BY ReadTaken, TakenMaps DEF Maps
  <2>5. ReadReference(p) \o (ReadReference(r) \o Taken[x])
          = (ReadReference(p) \o ReadReference(r)) \o Taken[x]
    <3> DEFINE a == ReadReference(p)
               b == ReadReference(r)
               c == Taken[x]
    <3>1. a \in Seq(TableRows) /\ b \in Seq(TableRows) /\ c \in Seq(TableRows)
      BY <2>4
    <3> HIDE DEF a, b, c
    <3>2. a \o (b \o c) = (a \o b) \o c
      BY <3>1, JoinAssoc
    <3> QED
      BY <3>2 DEF a, b, c
  <2> QED
    BY <2>1, <2>2, <2>3, <2>5
<1>3. \A r \in Seq(CountedParts) : r \in S
  <2> HIDE DEF S
  <2> QED
    BY <1>1, <1>2, SeqInduction
<1> QED
  BY <1>3

\* Conjoined filters admit what both admit.
LEMMA ConjoinKeeps ==
  ASSUME NEW f \in TableFilters, NEW g \in TableFilters
  PROVE  /\ Conjoin(f, g) \in TableFilters
         /\ \A x \in TableRows : Keeps(Conjoin(f, g), x) <=> Keeps(f, x) /\ Keeps(g, x)
<1>1. /\ f.groups \in SUBSET Groups /\ f.from \in Int /\ f.to \in Int
      /\ g.groups \in SUBSET Groups /\ g.from \in Int /\ g.to \in Int
  BY DEF TableFilters
<1> DEFINE h == Conjoin(f, g)
<1>2. /\ h.groups = f.groups \cap g.groups
      /\ h.from = IF f.from > g.from THEN f.from ELSE g.from
      /\ h.to = IF f.to < g.to THEN f.to ELSE g.to
      /\ h = [groups |-> h.groups, from |-> h.from, to |-> h.to]
  BY DEF Conjoin
<1> HIDE DEF h
<1>3. h.groups \in SUBSET Groups /\ h.from \in Int /\ h.to \in Int
  BY <1>1, <1>2
<1>4. h \in TableFilters
  BY <1>2, <1>3 DEF TableFilters
<1>5. \A x \in TableRows : x.day \in Int
  BY CompositionAssumption DEF TableRows, Axis
<1>6. \A x \in TableRows : Keeps(h, x) <=> Keeps(f, x) /\ Keeps(g, x)
  BY <1>1, <1>2, <1>5 DEF Keeps
<1> QED
  BY <1>4, <1>6 DEF h

\* The members of a part of a part read the part's selection of what it reads.
LEMMA NarrowedReads ==
  ASSUME NEW part, part.ref \in Seq(CountedParts), part.filter \in TableFilters
  PROVE  /\ Narrowed(part) \in Seq(CountedParts)
         /\ ReadReference(Narrowed(part)) = Select(ReadReference(part.ref), part.filter)
<1> DEFINE ref == part.ref
           f == part.filter
           N == [p \in CountedParts |-> Part(p.leaf, Conjoin(FilterOf(p), f))]
<1>0. \A p \in CountedParts : p.leaf \in Seq(TableRows) /\ FilterOf(p) \in TableFilters
  BY DEF CountedParts, FilterOf, TableFilters
<1>1. ASSUME NEW p \in CountedParts
      PROVE  /\ N[p] = Part(p.leaf, Conjoin(FilterOf(p), f)) /\ N[p] \in CountedParts
             /\ Taken[N[p]] = Select(Taken[p], f)
  <2> DEFINE g == FilterOf(p)
             h == Conjoin(g, f)
  <2>1. /\ h \in TableFilters
        /\ \A x \in TableRows : Keeps(h, x) <=> Keeps(g, x) /\ Keeps(f, x)
    BY <1>0, ConjoinKeeps
  <2>2. p.leaf \in Seq(TableRows) /\ Taken[p] = Select(p.leaf, g)
    BY <1>0, TakenMaps
  <2>3. N[p] = Part(p.leaf, h)
    OBVIOUS
  <2> HIDE DEF g, h, f, N
  <2>4. N[p] \in CountedParts /\ Taken[N[p]] = Select(p.leaf, h)
    BY <2>1, <2>2, <2>3, PartCounted
  <2>5. Select(Select(p.leaf, g), f) = Select(p.leaf, h)
    BY <2>1, <2>2, SelectSelect
  <2> QED
    BY <2>2, <2>3, <2>4, <2>5 DEF h, g
<1>2. Narrowed(part) = Map(N, ref) /\ \A j \in DOMAIN ref : ref[j] \in CountedParts
  <2>1. \A j \in DOMAIN ref : ref[j] \in CountedParts
    OBVIOUS
  <2>2. \A j \in DOMAIN ref : N[ref[j]] = Part(ref[j].leaf, Conjoin(FilterOf(ref[j]), f))
    BY <2>1
  <2> HIDE DEF N
  <2> QED
    BY <2>1, <2>2 DEF Narrowed, Map
<1>3. Maps(N, CountedParts, CountedParts)
  BY <1>1 DEF Maps
<1> HIDE DEF N, f, ref
<1>4. ref \in Seq(CountedParts) /\ f \in TableFilters
  BY DEF f, ref
<1>5. Narrowed(part) \in Seq(CountedParts)
  BY <1>2, <1>3, <1>4, MapType
<1> DEFINE a == Map(Taken, Map(N, ref))
           b == Map(Taken, ref)
<1>6. a = [i \in DOMAIN b |-> Select(b[i], f)]
  <2>1. DOMAIN Map(N, ref) = DOMAIN ref /\ DOMAIN b = DOMAIN ref /\ DOMAIN a = DOMAIN ref
    BY DEF Map
  <2>2. \A i \in DOMAIN ref : a[i] = Taken[N[ref[i]]] /\ b[i] = Taken[ref[i]]
    BY DEF Map
  <2>3. a = [i \in DOMAIN a |-> a[i]]
    BY DEF Map
  <2> HIDE DEF a, b
  <2>4. \A i \in DOMAIN ref : a[i] = Select(b[i], f)
    BY <1>1, <1>2, <2>2
  <2> QED
    BY <2>1, <2>3, <2>4
<1>7. b \in Seq(Seq(TableRows)) /\ ReadReference(ref) = FlattenSeq(b)
  BY <1>4, ReadTaken
<1>8. ReadReference(Narrowed(part)) = FlattenSeq(a)
  BY <1>2, <1>5, ReadTaken
<1>9. Select(FlattenSeq(b), f) = FlattenSeq([i \in DOMAIN b |-> Select(b[i], f)])
  <2> HIDE DEF b
  <2> QED
    BY <1>7, SelectFlat
<1> QED
  BY <1>5, <1>6, <1>7, <1>8, <1>9 DEF f, ref

\* What a composition is asked for: parts of references, and their rows.
AskedParts == [ref : Seq(CountedParts), filter : TableFilters]
Asked == [p \in AskedParts |-> Select(ReadReference(p.ref), p.filter)]
Meant(parts) == FlattenSeq(Map(Asked, parts))

LEMMA AskedMaps ==
  /\ Maps(Asked, AskedParts, Seq(TableRows))
  /\ \A p \in AskedParts :
       /\ Asked[p] = Select(ReadReference(p.ref), p.filter)
       /\ p.ref \in Seq(CountedParts) /\ p.filter \in TableFilters
<1>1. \A p \in AskedParts : p.ref \in Seq(CountedParts) /\ p.filter \in TableFilters
  BY DEF AskedParts
<1>2. \A p \in AskedParts : ReadReference(p.ref) \in Seq(TableRows)
  BY <1>1, ReadTaken
<1>3. \A p \in AskedParts : Select(ReadReference(p.ref), p.filter) \in Seq(TableRows)
  BY <1>2, SelectType
<1> QED
  BY <1>1, <1>3 DEF Asked, Maps

LEMMA MeantType ==
  ASSUME NEW ps \in Seq(AskedParts)
  PROVE  Meant(ps) \in Seq(TableRows) /\ Map(Asked, ps) \in Seq(Seq(TableRows))
<1>1. Map(Asked, ps) \in Seq(Seq(TableRows))
  BY AskedMaps, MapType
<1> QED
  BY <1>1, FlatType DEF Meant

LEMMA MeantEmpty ==
  Meant(<< >>) = << >>
<1>1. Map(Asked, << >>) = << >>
  BY DEF Map
<1> QED
  BY <1>1, FlatEmpty DEF Meant

LEMMA MeantAppend ==
  ASSUME NEW ps \in Seq(AskedParts), NEW p \in AskedParts
  PROVE  Meant(Append(ps, p)) = Meant(ps) \o Asked[p]
<1>1. Map(Asked, Append(ps, p)) = Append(Map(Asked, ps), Asked[p])
  BY AskedMaps, MapAppend
<1>2. Asked[p] \in Seq(TableRows) /\ Map(Asked, ps) \in Seq(Seq(TableRows))
  BY MeantType, AskedMaps DEF Maps
<1>3. FlattenSeq(Append(Map(Asked, ps), Asked[p])) = FlattenSeq(Map(Asked, ps)) \o Asked[p]
  BY <1>2, FlatAppend
<1> QED
  BY <1>1, <1>3 DEF Meant

LEMMA MeantJoin ==
  ASSUME NEW p \in Seq(AskedParts), NEW q \in Seq(AskedParts)
  PROVE  Meant(p \o q) = Meant(p) \o Meant(q)
<1> DEFINE S == {r \in Seq(AskedParts) : Meant(p \o r) = Meant(p) \o Meant(r)}
<1>1. << >> \in S
  <2>1. p \o << >> = p /\ << >> \in Seq(AskedParts)
    OBVIOUS
  <2>2. Meant(p) \o << >> = Meant(p)
    BY MeantType
  <2> QED
    BY <2>1, <2>2, MeantEmpty
<1>2. \A r \in Seq(AskedParts), x \in AskedParts : r \in S => Append(r, x) \in S
  <2> SUFFICES ASSUME NEW r \in Seq(AskedParts), NEW x \in AskedParts,
                      Meant(p \o r) = Meant(p) \o Meant(r)
               PROVE  Meant(p \o Append(r, x)) = Meant(p) \o Meant(Append(r, x))
    <3>1. \A r \in Seq(AskedParts), x \in AskedParts : Append(r, x) \in Seq(AskedParts)
      OBVIOUS
    <3> QED
      BY <3>1, Zenon
  <2>1. p \o Append(r, x) = Append(p \o r, x) /\ p \o r \in Seq(AskedParts)
    BY AppendToJoin
  <2>2. Meant(Append(p \o r, x)) = Meant(p \o r) \o Asked[x]
    BY <2>1, MeantAppend
  <2>3. Meant(Append(r, x)) = Meant(r) \o Asked[x]
    BY MeantAppend
  <2>4. /\ Meant(p) \in Seq(TableRows) /\ Meant(r) \in Seq(TableRows)
        /\ Asked[x] \in Seq(TableRows)
    BY MeantType, AskedMaps DEF Maps
  <2>5. Meant(p) \o (Meant(r) \o Asked[x]) = (Meant(p) \o Meant(r)) \o Asked[x]
    <3> DEFINE a == Meant(p)
               b == Meant(r)
               c == Asked[x]
    <3>1. a \in Seq(TableRows) /\ b \in Seq(TableRows) /\ c \in Seq(TableRows)
      BY <2>4
    <3> HIDE DEF a, b, c
    <3>2. a \o (b \o c) = (a \o b) \o c
      BY <3>1, JoinAssoc
    <3> QED
      BY <3>2 DEF a, b, c
  <2> QED
    BY <2>1, <2>2, <2>3, <2>5
<1>3. \A r \in Seq(AskedParts) : r \in S
  <2> HIDE DEF S
  <2> QED
    BY <1>1, <1>2, SeqInduction
<1> QED
  BY <1>3

\* The members of every part, before those without rows are left out.
Narrowing == [p \in AskedParts |-> Narrowed(p)]
Members(parts) == FlattenSeq([i \in DOMAIN parts |-> Narrowed(parts[i])])

LEMMA NarrowingMaps ==
  /\ Maps(Narrowing, AskedParts, Seq(CountedParts))
  /\ \A p \in AskedParts :
       /\ Narrowing[p] = Narrowed(p) /\ Narrowing[p] \in Seq(CountedParts)
       /\ ReadReference(Narrowing[p]) = Asked[p]
<1>1. \A p \in AskedParts : /\ Narrowed(p) \in Seq(CountedParts)
                            /\ ReadReference(Narrowed(p)) = Select(ReadReference(p.ref), p.filter)
  BY AskedMaps, NarrowedReads
<1> QED
  BY <1>1, AskedMaps DEF Narrowing, Maps

LEMMA MembersRead ==
  ASSUME NEW ps \in Seq(AskedParts)
  PROVE  Members(ps) \in Seq(CountedParts) /\ ReadReference(Members(ps)) = Meant(ps)
<1>0. \A r \in Seq(AskedParts) : /\ Members(r) = FlattenSeq(Map(Narrowing, r))
                                 /\ Map(Narrowing, r) \in Seq(Seq(CountedParts))
                                 /\ Members(r) \in Seq(CountedParts)
  <2> SUFFICES ASSUME NEW r \in Seq(AskedParts)
               PROVE  /\ Members(r) = FlattenSeq(Map(Narrowing, r))
                      /\ Map(Narrowing, r) \in Seq(Seq(CountedParts))
                      /\ Members(r) \in Seq(CountedParts)
    OBVIOUS
  <2>1. \A i \in DOMAIN r : r[i] \in AskedParts
    OBVIOUS
  <2>2. [i \in DOMAIN r |-> Narrowed(r[i])] = Map(Narrowing, r)
    BY <2>1, NarrowingMaps DEF Map
  <2>3. Map(Narrowing, r) \in Seq(Seq(CountedParts))
    BY NarrowingMaps, MapType
  <2>4. FlattenSeq(Map(Narrowing, r)) \in Seq(CountedParts)
    BY <2>3, FlatType
  <2> QED
    BY <2>2, <2>3, <2>4 DEF Members
<1> DEFINE S == {r \in Seq(AskedParts) : ReadReference(Members(r)) = Meant(r)}
<1>1. << >> \in S
  <2>1. << >> \in Seq(AskedParts) /\ Map(Narrowing, << >>) = << >>
    BY DEF Map
  <2> QED
    BY <1>0, <2>1, FlatEmpty, ReadEmpty, MeantEmpty
<1>2. \A r \in Seq(AskedParts), x \in AskedParts : r \in S => Append(r, x) \in S
  <2> SUFFICES ASSUME NEW r \in Seq(AskedParts), NEW x \in AskedParts,
                      ReadReference(Members(r)) = Meant(r)
               PROVE  ReadReference(Members(Append(r, x))) = Meant(Append(r, x))
    OBVIOUS
  <2>1. Map(Narrowing, Append(r, x)) = Append(Map(Narrowing, r), Narrowing[x])
    BY NarrowingMaps, MapAppend
  <2>2. Narrowing[x] \in Seq(CountedParts) /\ ReadReference(Narrowing[x]) = Asked[x]
    BY NarrowingMaps
  <2>3. FlattenSeq(Append(Map(Narrowing, r), Narrowing[x])) = Members(r) \o Narrowing[x]
    BY <1>0, <2>2, FlatAppend
  <2>4. Members(Append(r, x)) = Members(r) \o Narrowing[x]
    <3>1. Append(r, x) \in Seq(AskedParts)
      OBVIOUS
    <3> QED
      BY <1>0, <2>1, <2>3, <3>1
  <2>5. ReadReference(Members(r) \o Narrowing[x]) = ReadReference(Members(r)) \o Asked[x]
    BY <1>0, <2>2, ReadJoin
  <2> QED
    BY <2>4, <2>5, MeantAppend
<1>3. \A r \in Seq(AskedParts) : r \in S
  <2> HIDE DEF S
  <2> QED
    BY <1>1, <1>2, SeqInduction
<1> QED
  BY <1>0, <1>3

\* What compose_reference keeps of some members.
PlacesKept(ms) == [i \in DOMAIN ms |-> IF i = 1 \/ ms[i].rows > 0 THEN << ms[i] >> ELSE << >>]
KeptMembers(ms) == FlattenSeq(PlacesKept(ms))

LEMMA KeptPlaces ==
  ASSUME NEW ms \in Seq(CountedParts)
  PROVE  /\ PlacesKept(ms) \in Seq(Seq(CountedParts)) /\ Len(PlacesKept(ms)) = Len(ms)
         /\ \A i \in 1 .. Len(ms) :
              PlacesKept(ms)[i] = IF i = 1 \/ ms[i].rows > 0 THEN << ms[i] >> ELSE << >>
         /\ KeptMembers(ms) \in Seq(CountedParts)
<1> DEFINE Y == Seq(CountedParts)
           n == Len(ms)
           E(i) == IF i = 1 \/ ms[i].rows > 0 THEN << ms[i] >> ELSE << >>
<1>1. n \in Nat /\ DOMAIN ms = 1 .. n /\ \A i \in 1 .. n : E(i) \in Y
  <2>1. \A x \in CountedParts : << x >> \in Y
    OBVIOUS
  <2>2. << >> \in Y /\ \A i \in 1 .. n : ms[i] \in CountedParts
    OBVIOUS
  <2> QED
    BY <2>1, <2>2
<1> HIDE DEF Y, E, n
<1>2. PlacesKept(ms) = [i \in 1 .. n |-> E(i)]
  BY <1>1 DEF PlacesKept, E
<1>3. [i \in 1 .. n |-> E(i)] \in Seq(Y) /\ Len([i \in 1 .. n |-> E(i)]) = n
  BY <1>1
<1>4. PlacesKept(ms) \in Seq(Seq(CountedParts))
  BY <1>2, <1>3 DEF Y
<1>5. KeptMembers(ms) \in Seq(CountedParts)
  BY <1>4, FlatType DEF KeptMembers
<1>6. \A i \in 1 .. n : PlacesKept(ms)[i] = E(i)
  BY <1>2
<1> QED
  BY <1>2, <1>3, <1>4, <1>5, <1>6 DEF E, n

LEMMA KeptRead ==
  ASSUME NEW ms \in Seq(CountedParts)
  PROVE  ReadReference(KeptMembers(ms)) = ReadReference(ms)
<1> DEFINE S == {r \in Seq(CountedParts) : ReadReference(KeptMembers(r)) = ReadReference(r)}
<1>1. << >> \in S
  <2>1. << >> \in Seq(CountedParts) /\ PlacesKept(<< >>) = << >>
    BY DEF PlacesKept
  <2> QED
    BY <2>1, FlatEmpty DEF KeptMembers
<1>2. \A r \in Seq(CountedParts), x \in CountedParts : r \in S => Append(r, x) \in S
  <2> SUFFICES ASSUME NEW r \in Seq(CountedParts), NEW x \in CountedParts,
                      ReadReference(KeptMembers(r)) = ReadReference(r)
               PROVE  ReadReference(KeptMembers(Append(r, x))) = ReadReference(Append(r, x))
    OBVIOUS
  <2> DEFINE n == Len(r)
             s == Append(r, x)
             e == IF n + 1 = 1 \/ x.rows > 0 THEN << x >> ELSE << >>
             a == PlacesKept(s)
             b == PlacesKept(r)
  <2>1. /\ n \in Nat /\ s \in Seq(CountedParts) /\ Len(s) = n + 1 /\ s[n + 1] = x
        /\ \A i \in 1 .. n : s[i] = r[i]
    OBVIOUS
  <2>2. /\ a \in Seq(Seq(CountedParts)) /\ Len(a) = n + 1
        /\ \A i \in 1 .. n + 1 : a[i] = IF i = 1 \/ s[i].rows > 0 THEN << s[i] >> ELSE << >>
    <3> HIDE DEF s
    <3> QED
      BY <2>1, KeptPlaces
  <2>3. /\ b \in Seq(Seq(CountedParts)) /\ Len(b) = n
        /\ \A i \in 1 .. n : b[i] = IF i = 1 \/ r[i].rows > 0 THEN << r[i] >> ELSE << >>
    BY KeptPlaces
  <2>4. a[n + 1] = e
    <3> HIDE DEF a, s, n
    <3>1. n + 1 \in 1 .. n + 1
      BY <2>1
    <3> QED
      BY <2>1, <2>2, <3>1
  <2>5. \A i \in 1 .. n : a[i] = b[i]
    <3> HIDE DEF a, b, s, n
    <3>1. \A i \in 1 .. n : i \in 1 .. n + 1
      BY <2>1
    <3> SUFFICES ASSUME NEW i \in 1 .. n PROVE a[i] = b[i]
      OBVIOUS
    <3>2. a[i] = IF i = 1 \/ s[i].rows > 0 THEN << s[i] >> ELSE << >>
      BY <2>2, <3>1
    <3>3. b[i] = IF i = 1 \/ r[i].rows > 0 THEN << r[i] >> ELSE << >>
      BY <2>3
    <3>4. s[i] = r[i]
      BY <2>1
    <3> QED
      BY <3>2, <3>3, <3>4
  <2>6. a = Append(b, e)
    <3> HIDE DEF a, b, s, n, e
    <3> QED
      BY <2>2, <2>3, <2>4, <2>5, AppendOf
  <2>7. e \in Seq(CountedParts)
    OBVIOUS
  <2>8. FlattenSeq(Append(b, e)) = FlattenSeq(b) \o e
    <3> HIDE DEF b, e
    <3> QED
      BY <2>3, <2>7, FlatAppend
  <2>9. KeptMembers(s) = KeptMembers(r) \o e
    BY <2>6, <2>8 DEF KeptMembers
  <2>10. KeptMembers(r) \in Seq(CountedParts)
    BY KeptPlaces
  <2>11. ReadReference(r) \in Seq(TableRows) /\ Taken[x] \in Seq(TableRows)
         /\ x.rows = Len(Taken[x])
    BY ReadTaken, TakenMaps DEF Maps
  <2>12. ReadReference(s) = ReadReference(r) \o Taken[x]
    BY ReadAppend
  <2>13. CASE n + 1 = 1 \/ x.rows > 0
    <3>1. KeptMembers(r) \o << x >> = Append(KeptMembers(r), x)
      BY <2>10
    <3>2. ReadReference(Append(KeptMembers(r), x)) = ReadReference(KeptMembers(r)) \o Taken[x]
      BY <2>10, ReadAppend
    <3> HIDE DEF n
    <3> QED
      BY <2>9, <2>12, <2>13, <3>1, <3>2
  <2>14. CASE ~ (n + 1 = 1 \/ x.rows > 0)
    <3>1. KeptMembers(r) \o << >> = KeptMembers(r)
      BY <2>10
    <3>2. Taken[x] = << >>
      BY <2>11, <2>14
    <3>3. ReadReference(r) \o << >> = ReadReference(r)
      BY <2>11
    <3> HIDE DEF n
    <3> QED
      BY <2>9, <2>12, <2>14, <3>1, <3>2, <3>3
  <2> QED
    BY <2>13, <2>14
<1>3. \A r \in Seq(CountedParts) : r \in S
  <2> HIDE DEF S
  <2> QED
    BY <1>1, <1>2, SeqInduction
<1> QED
  BY <1>3

\* compose_reference reads what its parts ask for, one after the other.
LEMMA ComposeReads ==
  ASSUME NEW ps \in Seq(AskedParts)
  PROVE  /\ ComposeReference(ps) \in Seq(CountedParts)
         /\ ReadReference(ComposeReference(ps)) = Meant(ps)
<1>1. ComposeReference(ps) = KeptMembers(Members(ps))
  BY DEF ComposeReference, KeptMembers, Members, PlacesKept
<1> QED
  BY <1>1, MembersRead, KeptPlaces, KeptRead

\* The row counts of the parts add up to the rows of the read.
LEMMA RowsCounted ==
  ASSUME NEW ref \in Seq(CountedParts)
  PROVE  SumFunction([i \in DOMAIN ref |-> ref[i].rows]) = Len(ReadReference(ref))
<1> DEFINE Counts(r) == [i \in DOMAIN r |-> r[i].rows]
           S == {r \in Seq(CountedParts) : SumFunction(Counts(r)) = Len(ReadReference(r))}
<1>0. \A p \in CountedParts : p.rows \in Int
  BY DEF CountedParts
<1>1. << >> \in S
  <2>1. << >> \in Seq(CountedParts) /\ DOMAIN Counts(<< >>) = {}
    OBVIOUS
  <2>2. SumFunction(Counts(<< >>)) = 0
    <3> HIDE DEF Counts
    <3> QED
      BY <2>1, SumOnEmpty DEF SumFunction
  <2>3. Len(<< >>) = 0
    OBVIOUS
  <2> QED
    BY <2>1, <2>2, <2>3, ReadEmpty
<1>2. \A r \in Seq(CountedParts), x \in CountedParts : r \in S => Append(r, x) \in S
  <2> HIDE DEF Counts
  <2> SUFFICES ASSUME NEW r \in Seq(CountedParts), NEW x \in CountedParts,
                      SumFunction(Counts(r)) = Len(ReadReference(r))
               PROVE  SumFunction(Counts(Append(r, x))) = Len(ReadReference(Append(r, x)))
    OBVIOUS
  <2> USE DEF Counts
  <2> DEFINE n == Len(r)
             s == Append(r, x)
             f == Counts(s)
             g == Counts(r)
             T == 1 .. n
  <2>1. /\ n \in Nat /\ s \in Seq(CountedParts) /\ DOMAIN s = 1 .. n + 1 /\ s[n + 1] = x
        /\ DOMAIN r = T
        /\ \A i \in T : s[i] = r[i] /\ r[i] \in CountedParts
    OBVIOUS
  <2>2. /\ DOMAIN f = 1 .. n + 1 /\ f[n + 1] = x.rows
        /\ DOMAIN g = T
        /\ \A i \in T : f[i] = g[i] /\ f[i] \in Int
    <3> HIDE DEF s, n
    <3>1. \A i \in 1 .. n + 1 : f[i] = s[i].rows
      BY <2>1
    <3> QED
      BY <1>0, <2>1, <3>1
  <2>3. /\ IsFiniteSet(T) /\ 1 .. n + 1 = T \cup {n + 1} /\ n + 1 \notin T
        /\ x.rows \in Int
    <3>1. IsFiniteSet(T)
      BY <2>1, FS_Interval
    <3> QED
      BY <1>0, <2>1, <3>1
  <2> HIDE DEF f, g, s, n, T
  <2>4. SumFunctionOnSet(f, T \cup {n + 1}) = f[n + 1] + SumFunctionOnSet(f, T)
    <3>1. \A y \in T \cup {n + 1} : f[y] \in Int
      BY <2>2, <2>3
    <3> QED
      BY <2>3, <3>1, SumOnInsert
  <2>5. SumFunctionOnSet(f, T) = SumFunctionOnSet(g, T)
    BY <2>2, <2>3, SumOnSame
  <2>6. SumFunction(f) = x.rows + SumFunction(g)
    BY <2>2, <2>3, <2>4, <2>5 DEF SumFunction
  <2>7. ReadReference(s) = ReadReference(r) \o Taken[x]
    BY ReadAppend DEF s
  <2>8. Len(ReadReference(r) \o Taken[x]) = Len(ReadReference(r)) + x.rows
        /\ Len(ReadReference(r)) \in Nat
    <3>1. ReadReference(r) \in Seq(TableRows) /\ Taken[x] \in Seq(TableRows)
          /\ x.rows = Len(Taken[x])
      BY ReadTaken, TakenMaps DEF Maps
    <3> QED
      BY <3>1
  <2>9. Len(ReadReference(s)) = Len(ReadReference(r)) + x.rows
    BY <2>7, <2>8
  <2>10. SumFunction(g) = Len(ReadReference(r))
    BY DEF g
  <2>11. SumFunction(f) = Len(ReadReference(s))
    BY <2>3, <2>6, <2>8, <2>9, <2>10
  <2> QED
    BY <2>11 DEF f, s
<1>3. \A r \in Seq(CountedParts) : r \in S
  <2> HIDE DEF S
  <2> QED
    BY <1>1, <1>2, SeqInduction
<1> QED
  BY <1>3

-----------------------------------------------------------------------------
\* Filters of days.
UpTo(b) == [Everything EXCEPT !.to = b]
After(b) == [Everything EXCEPT !.from = b + 1]
WholeFilters == {f \in TableFilters : f.from = 0 /\ f.to = TableDays + 1}

LEMMA RowDays ==
  \A x \in TableRows : x.day \in Axis /\ x.day \in Int /\ 1 <= x.day /\ x.day <= TableDays
                       /\ x.group \in Groups
  BY CompositionAssumption DEF TableRows, Axis

LEMMA EverythingKeeps ==
  Everything \in WholeFilters /\ \A x \in TableRows : Keeps(Everything, x)
<1>1. Everything \in WholeFilters
  BY CompositionAssumption DEF Everything, WholeFilters, TableFilters
<1>2. \A x \in TableRows : Keeps(Everything, x)
  BY CompositionAssumption, RowDays DEF Everything, Keeps
<1> QED
  BY <1>1, <1>2

LEMMA UpToKeeps ==
  ASSUME NEW b \in Int
  PROVE  UpTo(b) \in TableFilters /\ \A x \in TableRows : Keeps(UpTo(b), x) <=> x.day <= b
<1>1. UpTo(b) = [groups |-> Groups, from |-> 0, to |-> b]
  BY DEF UpTo, Everything
<1>2. UpTo(b) \in TableFilters
  BY <1>1 DEF TableFilters
<1>3. \A x \in TableRows : Keeps(UpTo(b), x) <=> x.day <= b
  BY <1>1, RowDays DEF Keeps
<1> QED
  BY <1>2, <1>3

LEMMA AfterKeeps ==
  ASSUME NEW b \in Int
  PROVE  After(b) \in TableFilters /\ \A x \in TableRows : Keeps(After(b), x) <=> x.day > b
<1>1. After(b) = [groups |-> Groups, from |-> b + 1, to |-> TableDays + 1]
  BY DEF After, Everything
<1>2. After(b) \in TableFilters
  BY <1>1, CompositionAssumption DEF TableFilters
<1>3. \A x \in TableRows : Keeps(After(b), x) <=> x.day > b
  BY <1>1, RowDays, CompositionAssumption DEF Keeps
<1> QED
  BY <1>2, <1>3

LEMMA WholeUpTo ==
  ASSUME NEW f \in WholeFilters, NEW b \in Int, b <= TableDays
  PROVE  /\ [f EXCEPT !.to = b] \in TableFilters
         /\ \A x \in TableRows :
              Keeps([f EXCEPT !.to = b], x) <=> Keeps(f, x) /\ Keeps(UpTo(b), x)
<1> DEFINE g == [f EXCEPT !.to = b]
<1>1. /\ f.groups \in SUBSET Groups /\ f.from = 0 /\ f.to = TableDays + 1
      /\ f = [groups |-> f.groups, from |-> f.from, to |-> f.to]
  BY DEF WholeFilters, TableFilters
<1>2. g = [groups |-> f.groups, from |-> 0, to |-> b]
  BY <1>1
<1>3. g \in TableFilters
  BY <1>1, <1>2 DEF TableFilters
<1> HIDE DEF g
<1>4. g.groups = f.groups /\ g.from = 0 /\ g.to = b
  BY <1>2
<1>5. \A x \in TableRows : Keeps(g, x) <=> Keeps(f, x) /\ x.day <= b
  BY <1>1, <1>4, RowDays, CompositionAssumption DEF Keeps
<1> QED
  BY <1>3, <1>5, UpToKeeps DEF g

LEMMA OneGroupWhole ==
  ASSUME NEW g \in Groups
  PROVE  OneGroup(g) \in WholeFilters
<1>1. OneGroup(g) = [groups |-> {g}, from |-> 0, to |-> TableDays + 1]
  BY DEF OneGroup, Everything
<1> QED
  BY <1>1, CompositionAssumption DEF WholeFilters, TableFilters

-----------------------------------------------------------------------------
\* The rows up to a day of which every later row is past.
LEMMA PrefixSelect ==
  ASSUME NEW q \in Seq(TableRows), NEW k \in 0 .. Len(q), NEW b \in Int,
         \A i \in k + 1 .. Len(q) : q[i].day > b
  PROVE  /\ SubSeq(q, 1, k) \in Seq(TableRows)
         /\ Select(q, UpTo(b)) = Select(SubSeq(q, 1, k), UpTo(b))
<1> DEFINE Late == {x \in TableRows : x.day > b}
           a == SubSeq(q, 1, k)
           t == SubSeq(q, k + 1, Len(q))
           n == Len(q)
<1>1. /\ n \in Nat /\ k \in Nat /\ k <= n
      /\ a \in Seq(TableRows) /\ Len(a) = k /\ \A i \in 1 .. k : a[i] = q[i]
  OBVIOUS
<1>2. /\ t \in Seq(TableRows) /\ Len(t) = n - k
      /\ \A i \in 1 .. n - k : t[i] = q[k + i]
  BY <1>1
<1>3. q = a \o t
  <2> HIDE DEF a, t
  <2>1. /\ a \o t \in Seq(TableRows) /\ Len(a \o t) = n
        /\ \A i \in 1 .. n : (a \o t)[i] = IF i <= k THEN a[i] ELSE t[i - k]
    BY <1>1, <1>2
  <2>2. \A i \in 1 .. n : (a \o t)[i] = q[i]
    <3> SUFFICES ASSUME NEW i \in 1 .. n PROVE (a \o t)[i] = q[i]
      OBVIOUS
    <3>1. CASE i <= k
      BY <1>1, <2>1, <3>1
    <3>2. CASE ~ (i <= k)
      <4>1. i - k \in 1 .. n - k /\ k + (i - k) = i
        BY <1>1, <3>2
      <4> QED
        BY <1>2, <2>1, <3>2, <4>1
    <3> QED
      BY <3>1, <3>2
  <2> DEFINE c == a \o t
  <2>3. c \in Seq(TableRows) /\ Len(c) = n /\ \A i \in 1 .. n : c[i] = q[i]
    BY <2>1, <2>2
  <2> HIDE DEF c
  <2>4. c = q
    BY <2>3
  <2> QED
    BY <2>4 DEF c
<1>4. t \in Seq(Late)
  <2> HIDE DEF t
  <2>1. \A i \in 1 .. n - k : t[i] \in Late
    <3> SUFFICES ASSUME NEW i \in 1 .. n - k PROVE t[i] \in Late
      OBVIOUS
    <3>1. k + i \in k + 1 .. n /\ t[i] = q[k + i] /\ t[i] \in TableRows
      BY <1>1, <1>2
    <3> QED
      BY <3>1
  <2> QED
    BY <1>2, <2>1
<1>5. Select(t, UpTo(b)) = << >>
  <2>1. \A x \in Late : ~ Keeps(UpTo(b), x)
    BY UpToKeeps, RowDays
  <2> HIDE DEF t, Late
  <2> QED
    BY <1>4, <2>1, SelectNone
<1>6. Select(a \o t, UpTo(b)) = Select(a, UpTo(b)) \o Select(t, UpTo(b))
  <2> HIDE DEF a, t
  <2> QED
    BY <1>1, <1>2, SelectJoin
<1>7. Select(a, UpTo(b)) \o << >> = Select(a, UpTo(b))
  <2>1. Select(a, UpTo(b)) \in Seq(TableRows)
    BY <1>1, SelectType
  <2> QED
    BY <2>1
<1> HIDE DEF a, t
<1> QED
  BY <1>1, <1>3, <1>5, <1>6, <1>7 DEF a

\* A list in the order of its days is its rows up to a day, then the others.
LEMMA SortedSplit ==
  ASSUME NEW b \in Int, NEW q \in Seq(TableRows), SortedByDay(q)
  PROVE  Select(q, UpTo(b)) \o Select(q, After(b)) = q
<1> DEFINE S == {r \in Seq(TableRows) :
                    SortedByDay(r) => Select(r, UpTo(b)) \o Select(r, After(b)) = r}
<1>1. << >> \in S
  <2>1. << >> \in Seq(TableRows) /\ << >> \o << >> = << >>
    OBVIOUS
  <2> QED
    BY <2>1, SelectEmpty
<1>2. \A r \in Seq(TableRows), x \in TableRows : r \in S => Append(r, x) \in S
  <2> SUFFICES ASSUME NEW r \in Seq(TableRows), NEW x \in TableRows, r \in S,
                      SortedByDay(Append(r, x))
               PROVE  Select(Append(r, x), UpTo(b)) \o Select(Append(r, x), After(b))
                        = Append(r, x)
    <3> DEFINE Y == Seq(TableRows)
    <3>1. \A r \in Y, x \in TableRows : Append(r, x) \in Y
      OBVIOUS
    <3> HIDE DEF Y
    <3> QED
      BY <3>1, Zenon DEF Y
  <2>0. SortedByDay(r) => Select(r, UpTo(b)) \o Select(r, After(b)) = r
    OBVIOUS
  <2> DEFINE n == Len(r)
             s == Append(r, x)
             lo == Select(r, UpTo(b))
             hi == Select(r, After(b))
  <2>1. /\ n \in Nat /\ DOMAIN r = 1 .. n /\ DOMAIN s = 1 .. n + 1
        /\ s[n + 1] = x /\ \A i \in 1 .. n : s[i] = r[i] /\ r[i] \in TableRows
    OBVIOUS
  <2>2. /\ SortedByDay(r)
        /\ \A i \in 1 .. n : r[i].day <= x.day
    <3> HIDE DEF s, n
    <3>1. \A i, j \in 1 .. n + 1 : i < j => s[i].day <= s[j].day
      BY <2>1 DEF SortedByDay, s
    <3>2. \A i \in 1 .. n : i \in 1 .. n + 1 /\ i < n + 1 /\ n + 1 \in 1 .. n + 1
      BY <2>1
    <3>3. \A i \in 1 .. n : r[i].day <= x.day
      BY <2>1, <3>1, <3>2
    <3>4. \A i, j \in 1 .. n : i < j => r[i].day <= r[j].day
      BY <2>1, <3>1, <3>2
    <3> QED
      BY <2>1, <3>3, <3>4 DEF SortedByDay
  <2>3. lo \in Seq(TableRows) /\ hi \in Seq(TableRows) /\ lo \o hi = r
    BY <2>0, <2>2, SelectType
  <2>4. /\ Select(s, UpTo(b)) = IF x.day <= b THEN Append(lo, x) ELSE lo
        /\ Select(s, After(b)) = IF x.day > b THEN Append(hi, x) ELSE hi
    BY SelectAppend, UpToKeeps, AfterKeeps
  <2>5. CASE x.day <= b
    <3> DEFINE Early == {y \in TableRows : y.day <= b}
    <3>1. r \in Seq(Early)
      <4>1. \A i \in 1 .. n : r[i] \in Early
        BY <2>1, <2>2, <2>5, RowDays
      <4> HIDE DEF Early
      <4> QED
        BY <4>1
    <3>2. \A y \in Early : Keeps(UpTo(b), y) /\ ~ Keeps(After(b), y)
      BY UpToKeeps, AfterKeeps, RowDays
    <3> HIDE DEF Early
    <3>3. lo = r /\ hi = << >>
      BY <3>1, <3>2, SelectAll, SelectNone
    <3>4. s \o << >> = s
      OBVIOUS
    <3> HIDE DEF s, lo, hi
    <3>5. Select(s, UpTo(b)) = s /\ Select(s, After(b)) = << >>
      BY <2>4, <2>5, <3>3, RowDays DEF s
    <3> QED
      BY <3>4, <3>5 DEF s
  <2>6. CASE x.day > b
    <3>1. lo \o Append(hi, x) = Append(lo \o hi, x)
      <4> HIDE DEF lo, hi
      <4> QED
        BY <2>3, AppendToJoin
    <3>2. ~ (x.day <= b)
      BY <2>6, RowDays
    <3> HIDE DEF lo, hi, s
    <3>3. Select(s, UpTo(b)) \o Select(s, After(b)) = Append(r, x)
      BY <2>3, <2>4, <2>6, <3>1, <3>2
    <3> QED
      BY <3>3 DEF s
  <2> QED
    BY <2>5, <2>6, RowDays
<1>3. \A r \in Seq(TableRows) : r \in S
  <2> HIDE DEF S
  <2> QED
    BY <1>1, <1>2, SeqInduction
<1> QED
  BY <1>3

\* Two lists that agree up to a place after which every row is later than b.
LEMMA AgreeUpTo ==
  ASSUME NEW p \in Seq(TableRows), NEW q \in Seq(TableRows), NEW b \in Int,
         NEW k \in Nat, k <= Len(p), k <= Len(q),
         \A i \in 1 .. k : p[i] = q[i],
         \A i \in k + 1 .. Len(p) : p[i].day > b,
         \A i \in k + 1 .. Len(q) : q[i].day > b
  PROVE  Select(p, UpTo(b)) = Select(q, UpTo(b))
<1>1. k \in 0 .. Len(p) /\ k \in 0 .. Len(q)
  OBVIOUS
<1> DEFINE c == SubSeq(p, 1, k)
           d == SubSeq(q, 1, k)
<1>2. /\ c \in Seq(TableRows) /\ Len(c) = k /\ \A i \in 1 .. k : c[i] = p[i]
      /\ d \in Seq(TableRows) /\ Len(d) = k /\ \A i \in 1 .. k : d[i] = q[i]
  BY <1>1
<1>3. Select(p, UpTo(b)) = Select(c, UpTo(b)) /\ Select(q, UpTo(b)) = Select(d, UpTo(b))
  BY <1>1, PrefixSelect
<1> HIDE DEF c, d
<1>4. c = d
  BY <1>2
<1> QED
  BY <1>3, <1>4

\* _equal_ordered_prefix: up to the boundary both lists hold the same rows.
LEMMA EqualPrefixAgrees ==
  ASSUME NEW before \in Seq(TableRows), NEW current \in Seq(TableRows)
  PROVE  /\ EqualPrefix(before, current) \in 0 .. TableDays
         /\ EqualPrefix(before, current) > 0 =>
              /\ SortedByDay(current)
              /\ Select(before, UpTo(EqualPrefix(before, current)))
                   = Select(current, UpTo(EqualPrefix(before, current)))
<1> DEFINE m == Len(before)
           n == Len(current)
           common == IF m < n THEN m ELSE n
           unequal == {i \in 1 .. common : before[i] # current[i]}
           longer == IF m > common THEN before ELSE current
           first == IF unequal # {}
                    THEN Min({before[Min(unequal)].day, current[Min(unequal)].day})
                    ELSE IF m = n THEN TableDays + 1
                    ELSE longer[common + 1].day
           days == {row.day : row \in Range(before)}
           early == {d \in days : d < first}
           b == EqualPrefix(before, current)
           none == before = << >> \/ ~SortedByDay(before) \/ ~SortedByDay(current)
                   \/ ~\E d \in days : d < first
<1>1. b = IF none THEN 0 ELSE Max(early)
  BY Zenon DEF EqualPrefix
<1>2. /\ m \in Nat /\ n \in Nat /\ common \in Nat /\ common <= m /\ common <= n
      /\ DOMAIN before = 1 .. m /\ DOMAIN current = 1 .. n
      /\ \A i \in 1 .. m : before[i] \in TableRows /\ before[i].day \in Int
      /\ \A i \in 1 .. n : current[i] \in TableRows /\ current[i].day \in Int
      /\ TableDays \in Nat
  BY RowDays, CompositionAssumption
<1>3. early \in SUBSET Axis
  <2>1. \A row \in Range(before) : row \in TableRows
    BY <1>2 DEF Range
  <2> HIDE DEF first
  <2> QED
    BY <2>1, RowDays
<1>4. CASE none
  <2> HIDE DEF none
  <2>1. b = 0
    BY <1>1, <1>4
  <2> HIDE DEF b
  <2> QED
    BY <1>2, <2>1 DEF b
<1>5. CASE ~ none
  <2>1. /\ early # {} /\ SortedByDay(before) /\ SortedByDay(current)
    <3> HIDE DEF first, days
    <3> QED
      BY <1>5
  <2>2. b = Max(early)
    <3> HIDE DEF none, early
    <3> QED
      BY <1>1, <1>5
  <2>3. b \in early
    <3>1. IsFiniteSet(Axis) /\ Axis \subseteq Int
      BY <1>2, FS_Interval DEF Axis
    <3> HIDE DEF early, b
    <3>2. IsFiniteSet(early) /\ early \subseteq Int
      BY <1>3, <3>1, FS_Subset
    <3> QED
      BY <2>1, <2>2, <3>2, MaxMember
  <2>4. b \in 1 .. TableDays /\ b < first
    <3>1. b < first
      <4> HIDE DEF first, days, b
      <4> QED
        BY <2>3
    <3> HIDE DEF early, b, first
    <3> QED
      BY <1>3, <2>3, <3>1 DEF Axis
  <2>5. /\ \A i, j \in 1 .. m : i < j => before[i].day <= before[j].day
        /\ \A i, j \in 1 .. n : i < j => current[i].day <= current[j].day
    BY <1>2, <2>1 DEF SortedByDay
  <2> HIDE DEF b, early, days, none, m, n
  <2>6. \E k \in Nat : /\ k <= m /\ k <= n /\ \A i \in 1 .. k : before[i] = current[i]
                       /\ \A i \in k + 1 .. m : before[i].day > b
                       /\ \A i \in k + 1 .. n : current[i].day > b
    <3>1. CASE unequal # {}
      <4> DEFINE u == Min(unequal)
      <4>1. u \in unequal /\ \A i \in unequal : u <= i
        <5>1. unequal \in SUBSET (1 .. common) /\ unequal \subseteq Int
          BY <1>2
        <5> HIDE DEF unequal, common
        <5>2. IsFiniteSet(1 .. common)
          BY <1>2, FS_Interval
        <5>3. IsFiniteSet(unequal)
          BY <5>1, <5>2, FS_Subset
        <5> QED
          BY <3>1, <5>1, <5>3, MinMember
      <4> DEFINE x == before[u].day
                 y == current[u].day
      <4>2. first = Min({x, y})
        <5> HIDE DEF u, unequal
        <5>1. first = Min({before[Min(unequal)].day, current[Min(unequal)].day})
          BY <3>1
        <5> QED
          BY <5>1 DEF u
      <4> HIDE DEF u
      <4>3. u \in 1 .. m /\ u \in 1 .. n /\ u - 1 \in Nat /\ u \in 1 .. common
        BY <1>2, <4>1
      <4>4. x \in Int /\ y \in Int
        BY <1>2, <4>3
      <4> HIDE DEF first
      <4>5. b < x /\ b < y
        <5> HIDE DEF x, y
        <5>1. Min({x, y}) <= x /\ Min({x, y}) <= y /\ Min({x, y}) \in Int
          <6>1. {x, y} \subseteq Int /\ IsFiniteSet({x, y}) /\ {x, y} # {}
            BY <4>4, PairFinite
          <6>2. Min({x, y}) \in {x, y} /\ \A z \in {x, y} : Min({x, y}) <= z
            BY <6>1, MinMember
          <6> QED
            BY <4>4, <6>2
        <5> QED
          BY <2>4, <4>2, <4>4, <5>1
      <4>6. \A i \in 1 .. u - 1 : before[i] = current[i]
        <5> SUFFICES ASSUME NEW i \in 1 .. u - 1 PROVE before[i] = current[i]
          OBVIOUS
        <5>1. i \in 1 .. common /\ i < u
          BY <1>2, <4>3
        <5>2. i \notin unequal
          BY <4>1, <4>3, <5>1
        <5> QED
          BY <5>1, <5>2
      <4> HIDE DEF unequal, common
      <4>7. \A i \in u .. m : before[i].day > b
        <5> SUFFICES ASSUME NEW i \in u .. m PROVE before[i].day > b
          OBVIOUS
        <5>1. i \in 1 .. m /\ before[i].day \in Int /\ (u < i => x <= before[i].day)
          BY <1>2, <2>5, <4>3
        <5> QED
          BY <2>4, <4>3, <4>4, <4>5, <5>1
      <4>8. \A i \in u .. n : current[i].day > b
        <5> SUFFICES ASSUME NEW i \in u .. n PROVE current[i].day > b
          OBVIOUS
        <5>1. i \in 1 .. n /\ current[i].day \in Int /\ (u < i => y <= current[i].day)
          BY <1>2, <2>5, <4>3
        <5> QED
          BY <2>4, <4>3, <4>4, <4>5, <5>1
      <4> DEFINE k == u - 1
      <4>9. k \in Nat /\ k <= m /\ k <= n /\ k + 1 = u
        BY <1>2, <4>3
      <4> HIDE DEF k
      <4>10. \A i \in 1 .. k : before[i] = current[i]
        BY <4>6 DEF k
      <4> QED
        BY <4>7, <4>8, <4>9, <4>10
    <3>2. CASE unequal = {}
      <4>1. \A i \in 1 .. common : before[i] = current[i]
        BY <3>2
      <4>2. first = IF m = n THEN TableDays + 1 ELSE longer[common + 1].day
        BY <3>2
      <4> HIDE DEF first, unequal
      <4>3. CASE m = n
        <5>1. common = m /\ \A i \in 1 .. m : before[i] = current[i]
          BY <1>2, <4>1, <4>3
        <5>2. /\ \A i \in m + 1 .. m : before[i].day > b
              /\ \A i \in m + 1 .. n : current[i].day > b
          BY <1>2, <4>3
        <5> QED
          BY <1>2, <4>3, <5>1, <5>2
      <4>4. CASE m < n
        <5>1. common = m /\ longer = current /\ m + 1 \in 1 .. n
          BY <1>2, <4>4
        <5> HIDE DEF common, longer
        <5>2. b < current[m + 1].day /\ current[m + 1].day \in Int
          BY <1>2, <2>4, <4>2, <4>4, <5>1
        <5>3. \A i \in m + 1 .. n : current[i].day > b
          <6> SUFFICES ASSUME NEW i \in m + 1 .. n PROVE current[i].day > b
            OBVIOUS
          <6>1. i \in 1 .. n /\ m + 1 \in 1 .. n
            BY <1>2, <5>1
          <6>2. current[i].day \in Int /\ (m + 1 < i => current[m + 1].day <= current[i].day)
            BY <1>2, <2>5, <6>1
          <6> QED
            BY <1>2, <2>4, <5>2, <6>1, <6>2
        <5>4. \A i \in m + 1 .. m : before[i].day > b
          BY <1>2
        <5> QED
          BY <1>2, <4>1, <4>4, <5>1, <5>3, <5>4
      <4>5. CASE m > n
        <5>1. common = n /\ n + 1 \in 1 .. m
          <6>1. ~ (m < n)
            BY <1>2, <4>5
          <6> QED
            BY <1>2, <4>5, <6>1
        <5>0. longer = before
          <6> HIDE DEF common
          <6> QED
            BY <4>5, <5>1
        <5> HIDE DEF common, longer
        <5>2. b < before[n + 1].day /\ before[n + 1].day \in Int
          BY <1>2, <2>4, <4>2, <4>5, <5>0, <5>1
        <5>3. \A i \in n + 1 .. m : before[i].day > b
          <6> SUFFICES ASSUME NEW i \in n + 1 .. m PROVE before[i].day > b
            OBVIOUS
          <6>1. i \in 1 .. m /\ n + 1 \in 1 .. m
            BY <1>2, <5>1
          <6>2. before[i].day \in Int /\ (n + 1 < i => before[n + 1].day <= before[i].day)
            BY <1>2, <2>5, <6>1
          <6> QED
            BY <1>2, <2>4, <5>2, <6>1, <6>2
        <5>4. \A i \in n + 1 .. n : current[i].day > b
          BY <1>2
        <5> QED
          BY <1>2, <4>1, <4>5, <5>1, <5>3, <5>4
      <4>6. m = n \/ m < n \/ m > n
        BY <1>2
      <4> QED
        BY <4>3, <4>4, <4>5, <4>6
    <3> QED
      BY <3>1, <3>2
  <2>7. PICK k \in Nat : /\ k <= m /\ k <= n /\ \A i \in 1 .. k : before[i] = current[i]
                         /\ \A i \in k + 1 .. m : before[i].day > b
                         /\ \A i \in k + 1 .. n : current[i].day > b
    BY <2>6
  <2>8. Select(before, UpTo(b)) = Select(current, UpTo(b))
    <3>1. b \in Int
      BY <2>4
    <3> QED
      BY <2>7, <3>1, AgreeUpTo DEF m, n
  <2>9. b \in 0 .. TableDays
    BY <1>2, <2>4
  <2> QED
    BY <2>1, <2>8, <2>9 DEF b
<1> QED
  BY <1>4, <1>5

\* A new leaf is read whole.
LEMMA PublishedReads ==
  ASSUME NEW rows \in Seq(TableRows)
  PROVE  /\ Published(rows) \in Seq(CountedParts)
         /\ ReadReference(Published(rows)) = rows
<1> DEFINE p == Part(rows, Everything)
<1>1. p \in CountedParts /\ Taken[p] = Select(rows, Everything)
  BY EverythingKeeps, PartCounted DEF WholeFilters
<1>2. Select(rows, Everything) = rows
  BY EverythingKeeps, SelectAll
<1> HIDE DEF p
<1>3. Published(rows) = << p >>
  BY DEF Published, p
<1>4. << p >> = Append(<< >>, p) /\ << >> \in Seq(CountedParts) /\ << p >> \in Seq(CountedParts)
  BY <1>1
<1>5. ReadReference(<< p >>) = ReadReference(<< >>) \o Taken[p]
  BY <1>1, <1>4, ReadAppend
<1>6. << >> \o rows = rows
  OBVIOUS
<1> QED
  BY <1>1, <1>2, <1>3, <1>4, <1>5, <1>6, ReadEmpty

LEMMA AskedPart ==
  ASSUME NEW ref \in Seq(CountedParts), NEW f \in TableFilters
  PROVE  /\ [ref |-> ref, filter |-> f] \in AskedParts
         /\ << [ref |-> ref, filter |-> f] >> \in Seq(AskedParts)
         /\ Meant(<< [ref |-> ref, filter |-> f] >>) = Select(ReadReference(ref), f)
<1> DEFINE p == [ref |-> ref, filter |-> f]
<1>1. p \in AskedParts /\ p.ref = ref /\ p.filter = f
  BY DEF AskedParts
<1> HIDE DEF p
<1>2. Asked[p] = Select(ReadReference(ref), f) /\ Asked[p] \in Seq(TableRows)
  BY <1>1, AskedMaps DEF Maps
<1>3. << p >> = Append(<< >>, p) /\ << >> \in Seq(AskedParts) /\ << p >> \in Seq(AskedParts)
  BY <1>1
<1>4. Meant(<< p >>) = Meant(<< >>) \o Asked[p]
  BY <1>1, <1>3, MeantAppend
<1>5. << >> \o Asked[p] = Asked[p]
  BY <1>2
<1> QED
  BY <1>1, <1>2, <1>3, <1>4, <1>5, MeantEmpty DEF p

\* A new leaf as a part of a composition.
LEMMA AskedLeaf ==
  ASSUME NEW rows \in Seq(TableRows)
  PROVE  /\ << [ref |-> Published(rows), filter |-> Everything] >> \in Seq(AskedParts)
         /\ Meant(<< [ref |-> Published(rows), filter |-> Everything] >>) = rows
<1>1. Everything \in TableFilters
  BY EverythingKeeps DEF WholeFilters
<1>2. Select(rows, Everything) = rows
  BY EverythingKeeps, SelectAll
<1> QED
  BY <1>1, <1>2, PublishedReads, AskedPart

\* The parts of a group are asked for the group's rows of the frame.
LEMMA GroupReads ==
  ASSUME table \in Seq(TableRows), reference \in Seq(CountedParts),
         ReadReference(reference) = table,
         NEW frame \in Seq(TableRows), NEW f \in WholeFilters, NEW kept \in BOOLEAN
  PROVE  /\ GroupParts(frame, f, kept) \in Seq(AskedParts)
         /\ Meant(GroupParts(frame, f, kept)) = Select(frame, f)
<1> DEFINE current == Select(frame, f)
           before == Select(table, f)
           b == EqualPrefix(before, current)
           tail == Select(current, After(b))
           retained == << [ref |-> reference, filter |-> [f EXCEPT !.to = b]] >>
           written == << [ref |-> Published(tail), filter |-> Everything] >>
           P == IF b > 0 THEN retained ELSE << >>
           Q == IF tail # << >> \/ (b = 0 /\ ~kept) THEN written ELSE << >>
<1>1. GroupParts(frame, f, kept) = P \o Q
  BY Zenon DEF GroupParts, After
<1>2. current \in Seq(TableRows) /\ before \in Seq(TableRows)
  BY SelectType
<1>3. /\ b \in 0 .. TableDays
      /\ b > 0 => SortedByDay(current) /\ Select(before, UpTo(b)) = Select(current, UpTo(b))
  <2> HIDE DEF before, current
  <2> QED
    BY <1>2, EqualPrefixAgrees
<1> HIDE DEF b, current, before
<1>4. tail \in Seq(TableRows)
  BY <1>2, SelectType
<1>5. b \in Int /\ b <= TableDays
  BY <1>3, CompositionAssumption
<1> DEFINE g == [f EXCEPT !.to = b]
<1>6. retained \in Seq(AskedParts) /\ Meant(retained) = Select(before, UpTo(b))
  <2>1. /\ g \in TableFilters
        /\ \A x \in TableRows : Keeps(g, x) <=> Keeps(f, x) /\ Keeps(UpTo(b), x)
    BY <1>5, WholeUpTo
  <2> HIDE DEF g
  <2>2. Select(Select(table, f), UpTo(b)) = Select(table, g)
    BY <2>1, SelectSelect
  <2>3. retained = << [ref |-> reference, filter |-> g] >>
    BY DEF g
  <2> HIDE DEF retained
  <2>4. retained \in Seq(AskedParts) /\ Meant(retained) = Select(table, g)
    BY <2>1, <2>3, AskedPart
  <2> QED
    BY <2>2, <2>4 DEF before
<1>7. written \in Seq(AskedParts) /\ Meant(written) = tail
  <2> HIDE DEF tail
  <2> QED
    BY <1>4, AskedLeaf
<1>8. tail \o << >> = tail /\ << >> \o tail = tail /\ << >> \in Seq(AskedParts)
  BY <1>4
<1> DEFINE kept2 == Select(current, UpTo(b))
<1>9. kept2 \in Seq(TableRows) /\ kept2 \o << >> = kept2
  <2>1. kept2 \in Seq(TableRows)
    BY <1>2, SelectType
  <2> QED
    BY <2>1
<1> HIDE DEF tail, retained, written, kept2
<1>10. Q \in Seq(AskedParts) /\ Meant(Q) = tail
  <2>1. CASE tail # << >> \/ (b = 0 /\ ~kept)
    BY <1>7, <2>1
  <2>2. CASE ~ (tail # << >> \/ (b = 0 /\ ~kept))
    BY <1>8, <2>2, MeantEmpty
  <2> QED
    BY <2>1, <2>2
<1>11. CASE b > 0
  <2>1. P = retained /\ P \in Seq(AskedParts) /\ Meant(P) = kept2
    BY <1>3, <1>6, <1>11 DEF kept2
  <2>2. kept2 \o tail = current
    BY <1>2, <1>3, <1>5, <1>11, SortedSplit DEF kept2, tail
  <2> HIDE DEF P, Q
  <2>3. Meant(P \o Q) = Meant(P) \o Meant(Q) /\ P \o Q \in Seq(AskedParts)
    <3>1. P \in Seq(AskedParts) /\ Q \in Seq(AskedParts)
      BY <1>10, <2>1
    <3>2. P \o Q \in Seq(AskedParts)
      BY <3>1
    <3> QED
      BY <3>1, <3>2, MeantJoin
  <2> QED
    BY <1>1, <1>10, <2>1, <2>2, <2>3 DEF current
<1>12. CASE b = 0
  <2>1. P = << >>
    BY <1>12
  <2>2. tail = current
    <3>1. \A x \in TableRows : Keeps(After(b), x)
      BY <1>5, <1>12, AfterKeeps, RowDays
    <3> QED
      BY <1>2, <3>1, SelectAll DEF tail
  <2> HIDE DEF P, Q
  <2>3. P \o Q = Q
    BY <1>10, <2>1
  <2> QED
    BY <1>1, <1>10, <2>2, <2>3 DEF current
<1> QED
  BY <1>3, <1>11, <1>12, CompositionAssumption

-----------------------------------------------------------------------------
LEMMA GroupOrderType ==
  ASSUME NEW rows \in Seq(TableRows)
  PROVE  GroupOrder(rows) \in Seq(Groups)
<1> DEFINE n == Len(rows)
           Y == Seq(Groups)
           E(i) == IF \A j \in 1 .. (i - 1) : rows[j].group # rows[i].group
                   THEN << rows[i].group >> ELSE << >>
<1>1. n \in Nat /\ DOMAIN rows = 1 .. n /\ \A i \in 1 .. n : rows[i] \in TableRows
  OBVIOUS
<1>2. \A i \in 1 .. n : E(i) \in Y
  <2>1. \A x \in Groups : << x >> \in Y
    OBVIOUS
  <2>2. << >> \in Y
    OBVIOUS
  <2> HIDE DEF Y
  <2> QED
    BY <1>1, <2>1, <2>2, RowDays
<1> HIDE DEF E, Y, n
<1>3. [i \in 1 .. n |-> E(i)] \in Seq(Y)
  BY <1>1, <1>2
<1>4. FlattenSeq([i \in 1 .. n |-> E(i)]) \in Seq(Groups)
  BY <1>3, FlatType DEF Y
<1> QED
  BY <1>1, <1>4 DEF GroupOrder, E

\* The rows of a frame that some filters select, one after the other.
Sifted(frame, fs) == FlattenSeq([i \in DOMAIN fs |-> Select(frame, fs[i])])

LEMMA GroupingSifts ==
  ASSUME NEW frame \in Seq(TableRows)
  PROVE  /\ Grouping(frame) \in Seq(WholeFilters)
         /\ Sifted(frame, Grouping(frame)) = frame
<1> DEFINE order == GroupOrder(frame)
           split == [i \in DOMAIN order |-> OneGroup(order[i])]
           all == << Everything >>
           whole == frame # << >> /\ Sifted(frame, split) = frame
<1>1. Grouping(frame) = IF whole THEN split ELSE all
  BY Zenon DEF Grouping, Sifted
<1>2. split \in Seq(WholeFilters)
  <2>1. order \in Seq(Groups)
    BY GroupOrderType
  <2>2. \A x \in Groups : OneGroup(x) \in WholeFilters
    BY OneGroupWhole
  <2> DEFINE n == Len(order)
  <2> HIDE DEF order
  <2>3. n \in Nat /\ DOMAIN order = 1 .. n /\ \A i \in 1 .. n : order[i] \in Groups
    BY <2>1
  <2> HIDE DEF n
  <2>4. [i \in 1 .. n |-> OneGroup(order[i])] \in Seq(WholeFilters)
    BY <2>2, <2>3
  <2> QED
    BY <2>3, <2>4
<1>3. all \in Seq(WholeFilters)
  BY EverythingKeeps
<1>4. Sifted(frame, all) = frame
  <2>1. Select(frame, Everything) = frame
    BY EverythingKeeps, SelectAll
  <2>2. [i \in DOMAIN all |-> Select(frame, all[i])] = << frame >>
    BY <2>1
  <2> HIDE DEF all
  <2> QED
    BY <2>2, FlatOne DEF Sifted
<1> HIDE DEF split, all
<1>5. CASE whole
  BY <1>1, <1>2, <1>5
<1>6. CASE ~ whole
  <2> HIDE DEF whole
  <2> QED
    BY <1>1, <1>3, <1>4, <1>6
<1> QED
  BY <1>5, <1>6

\* The parts of every group of a frame, together.
GroupsOf(frame, fs) == [i \in DOMAIN fs |-> GroupParts(frame, fs[i], i > 1)]

LEMMA FrameReads ==
  ASSUME table \in Seq(TableRows), reference \in Seq(CountedParts),
         ReadReference(reference) = table, NEW frame \in Seq(TableRows)
  PROVE  /\ ContinueFrame(frame) \in Seq(AskedParts)
         /\ Meant(ContinueFrame(frame)) = frame
<1> DEFINE Y == Seq(AskedParts)
           F == WholeFilters
           R == Seq(TableRows)
           sift == [f \in F |-> Select(frame, f)]
<1>0. \A f \in F, kept \in BOOLEAN : /\ GroupParts(frame, f, kept) \in Y
                                     /\ Meant(GroupParts(frame, f, kept)) = Select(frame, f)
  BY GroupReads
<1>1. \A fs \in Seq(F) : /\ GroupsOf(frame, fs) \in Seq(Y) /\ Len(GroupsOf(frame, fs)) = Len(fs)
                         /\ \A i \in 1 .. Len(fs) :
                              GroupsOf(frame, fs)[i] = GroupParts(frame, fs[i], i > 1)
  <2> SUFFICES ASSUME NEW fs \in Seq(F)
               PROVE  /\ GroupsOf(frame, fs) \in Seq(Y) /\ Len(GroupsOf(frame, fs)) = Len(fs)
                      /\ \A i \in 1 .. Len(fs) :
                           GroupsOf(frame, fs)[i] = GroupParts(frame, fs[i], i > 1)
    OBVIOUS
  <2> DEFINE n == Len(fs)
             E(i) == GroupParts(frame, fs[i], i > 1)
  <2> HIDE DEF F, Y
  <2>1. n \in Nat /\ DOMAIN fs = 1 .. n /\ \A i \in 1 .. n : fs[i] \in F
    OBVIOUS
  <2>2. \A i \in 1 .. n : E(i) \in Y
    <3> SUFFICES ASSUME NEW i \in 1 .. n PROVE E(i) \in Y
      OBVIOUS
    <3>1. (i > 1) \in BOOLEAN /\ fs[i] \in F
      BY <2>1
    <3> DEFINE k == i > 1
    <3> HIDE DEF k
    <3>2. GroupParts(frame, fs[i], k) \in Y
      BY <1>0, <3>1, Zenon DEF k
    <3> QED
      BY <3>2 DEF k
  <2> HIDE DEF E, n
  <2>3. [i \in 1 .. n |-> E(i)] \in Seq(Y) /\ Len([i \in 1 .. n |-> E(i)]) = n
        /\ \A i \in 1 .. n : [j \in 1 .. n |-> E(j)][i] = E(i)
    BY <2>1, <2>2
  <2>4. GroupsOf(frame, fs) = [i \in 1 .. n |-> E(i)]
    BY <2>1, Zenon DEF GroupsOf, E
  <2> QED
    BY <2>3, <2>4 DEF E, n
<1>2. \A fs \in Seq(F) : /\ Sifted(frame, fs) = FlattenSeq(Map(sift, fs))
                         /\ Map(sift, fs) \in Seq(R)
  <2> SUFFICES ASSUME NEW fs \in Seq(F)
               PROVE  Sifted(frame, fs) = FlattenSeq(Map(sift, fs)) /\ Map(sift, fs) \in Seq(R)
    OBVIOUS
  <2>1. \A f \in F : Select(frame, f) \in R
    BY SelectType
  <2> HIDE DEF F, R
  <2>2. Maps(sift, F, R) /\ \A f \in F : sift[f] = Select(frame, f)
    BY <2>1 DEF Maps
  <2>3. \A i \in DOMAIN fs : fs[i] \in F
    OBVIOUS
  <2> HIDE DEF sift
  <2>4. Map(sift, fs) \in Seq(R)
    BY <2>2, MapType
  <2>5. Map(sift, fs) = [i \in DOMAIN fs |-> Select(frame, fs[i])]
    BY <2>2, <2>3 DEF Map
  <2> QED
    BY <2>4, <2>5 DEF Sifted
<1> DEFINE All(fs) == FlattenSeq(GroupsOf(frame, fs))
           S == {fs \in Seq(F) : Meant(All(fs)) = Sifted(frame, fs)}
<1>3. \A fs \in Seq(F) : All(fs) \in Y
  BY <1>1, FlatType
<1>4. << >> \in S
  <2>1. << >> \in Seq(F) /\ GroupsOf(frame, << >>) = << >> /\ Map(sift, << >>) = << >>
    BY DEF GroupsOf, Map
  <2> HIDE DEF F, sift
  <2> QED
    BY <1>2, <2>1, FlatEmpty, MeantEmpty
<1>5. \A fs \in Seq(F), f \in F : fs \in S => Append(fs, f) \in S
  <2> SUFFICES ASSUME NEW fs \in Seq(F), NEW f \in F, Meant(All(fs)) = Sifted(frame, fs)
               PROVE  /\ Append(fs, f) \in Seq(F)
                      /\ Meant(All(Append(fs, f))) = Sifted(frame, Append(fs, f))
    OBVIOUS
  <2> DEFINE n == Len(fs)
             gs == Append(fs, f)
             a == GroupsOf(frame, gs)
             b == GroupsOf(frame, fs)
             k == n + 1 > 1
             e == GroupParts(frame, f, k)
             cut == Select(frame, f)
  <2> HIDE DEF F, Y, sift, R
  <2>1. /\ n \in Nat /\ gs \in Seq(F) /\ Len(gs) = n + 1 /\ gs[n + 1] = f
        /\ \A i \in 1 .. n : gs[i] = fs[i]
    OBVIOUS
  <2>2. /\ a \in Seq(Y) /\ Len(a) = n + 1
        /\ \A i \in 1 .. n + 1 : a[i] = GroupParts(frame, gs[i], i > 1)
    <3> HIDE DEF gs
    <3> QED
      BY <1>1, <2>1
  <2>3. /\ b \in Seq(Y) /\ Len(b) = n
        /\ \A i \in 1 .. n : b[i] = GroupParts(frame, fs[i], i > 1)
    BY <1>1
  <2>4. a[n + 1] = e
    <3> HIDE DEF gs, n, a
    <3>1. n + 1 \in 1 .. n + 1
      BY <2>1
    <3>2. a[n + 1] = GroupParts(frame, gs[n + 1], n + 1 > 1)
      BY <2>2, <3>1, Zenon
    <3> QED
      BY <2>1, <3>2, Zenon
  <2>5. \A i \in 1 .. n : a[i] = b[i]
    <3> HIDE DEF gs, n, a, b
    <3> SUFFICES ASSUME NEW i \in 1 .. n PROVE a[i] = b[i]
      OBVIOUS
    <3>1. i \in 1 .. n + 1
      BY <2>1
    <3>2. a[i] = GroupParts(frame, gs[i], i > 1)
      BY <2>2, <3>1, Zenon
    <3>3. b[i] = GroupParts(frame, fs[i], i > 1)
      BY <2>3, Zenon
    <3> QED
      BY <2>1, <3>2, <3>3, Zenon
  <2>6. e \in Y /\ Meant(e) = cut /\ cut \in R
    <3>1. k \in BOOLEAN
      OBVIOUS
    <3> HIDE DEF k
    <3>2. cut \in R
      BY SelectType DEF R
    <3> QED
      BY <1>0, <3>1, <3>2, Zenon
  <2> HIDE DEF a, b, e, k, n
  <2>7. a = Append(b, e)
    BY <2>2, <2>3, <2>4, <2>5, AppendOf
  <2>8. FlattenSeq(Append(b, e)) = FlattenSeq(b) \o e
    BY <2>3, <2>6, FlatAppend DEF Y
  <2>9. FlattenSeq(b) \in Y
    BY <1>3 DEF b
  <2>10. Meant(FlattenSeq(b) \o e) = Meant(FlattenSeq(b)) \o cut
    <3> DEFINE c == FlattenSeq(b)
    <3> HIDE DEF c, cut
    <3>1. c \in Y
      BY <2>9 DEF c
    <3>2. Meant(c \o e) = Meant(c) \o Meant(e)
      BY <2>6, <3>1, MeantJoin DEF Y
    <3> QED
      BY <2>6, <3>2 DEF c
  <2>11. Map(sift, gs) = Append(Map(sift, fs), cut)
    <3>1. /\ Maps(sift, F, R) /\ sift[f] = cut
      <4>1. \A x \in F : Select(frame, x) \in R
        BY SelectType DEF R
      <4> QED
        BY <4>1 DEF Maps, sift
    <3>2. Map(sift, Append(fs, f)) = Append(Map(sift, fs), sift[f])
      BY <3>1, MapAppend
    <3> QED
      BY <3>1, <3>2
  <2>12. FlattenSeq(Append(Map(sift, fs), cut)) = FlattenSeq(Map(sift, fs)) \o cut
    <3> HIDE DEF cut
    <3> QED
      BY <1>2, <2>6, FlatAppend DEF R
  <2>13. Sifted(frame, gs) = Sifted(frame, fs) \o cut
    <3> HIDE DEF gs, cut
    <3> QED
      BY <1>2, <2>1, <2>11, <2>12
  <2>14. Meant(FlattenSeq(b)) = Sifted(frame, fs)
    BY DEF b
  <2>15. Meant(FlattenSeq(a)) = Sifted(frame, gs)
    <3> HIDE DEF gs, cut
    <3> QED
      BY <2>7, <2>8, <2>10, <2>13, <2>14
  <2> QED
    BY <2>1, <2>15 DEF a
<1>6. \A fs \in Seq(F) : fs \in S
  <2> HIDE DEF S, F
  <2> QED
    BY <1>4, <1>5, SeqInduction
<1>7. ContinueFrame(frame) = All(Grouping(frame))
  BY Zenon DEF ContinueFrame, GroupsOf
<1> HIDE DEF All
<1> QED
  BY <1>3, <1>6, <1>7, GroupingSifts

\* A frame of cells of the axis is a list of rows.
LEMMA OrderPlaces ==
  ASSUME NEW order, order \in {GroupMajor, DayMajor}
  PROVE  \E n \in Nat : DOMAIN order = 1 .. n
<1>1. Cardinality(Groups) * TableDays \in Nat
  <2>1. Cardinality(Groups) \in Nat
    BY CompositionAssumption, FS_CardinalityType
  <2> QED
    BY <2>1, CompositionAssumption
<1>2. DOMAIN GroupMajor = Places /\ DOMAIN DayMajor = Places
  BY DEF GroupMajor, DayMajor
<1> QED
  BY <1>1, <1>2 DEF Places

LEMMA FrameType ==
  ASSUME NEW rows, rows \subseteq TableRows, NEW order, order \in {GroupMajor, DayMajor}
  PROVE  Frame(rows, order) \in Seq(TableRows)
<1> DEFINE InCell(n) == {row \in rows : << row.group, row.day >> = order[n]}
           E(n) == IF InCell(n) = {} THEN << >> ELSE << CHOOSE row \in InCell(n) : TRUE >>
           Y == Seq(TableRows)
<1>1. PICK m \in Nat : DOMAIN order = 1 .. m
  BY OrderPlaces
<1>2. ASSUME NEW n \in 1 .. m PROVE E(n) \in Y
  <2>1. InCell(n) \subseteq TableRows
    OBVIOUS
  <2> HIDE DEF InCell
  <2>2. InCell(n) # {} => (CHOOSE row \in InCell(n) : TRUE) \in TableRows
    BY <2>1
  <2>3. \A x \in TableRows : << x >> \in Y
    OBVIOUS
  <2>4. << >> \in Y
    OBVIOUS
  <2> HIDE DEF Y
  <2> QED
    BY <2>2, <2>3, <2>4
<1>3. Frame(rows, order) = FlattenSeq([n \in DOMAIN order |-> E(n)])
  BY Zenon DEF Frame
<1> HIDE DEF E, Y
<1>4. [n \in 1 .. m |-> E(n)] \in Seq(Y)
  BY <1>2
<1> QED
  BY <1>1, <1>3, <1>4, FlatType DEF Y

-----------------------------------------------------------------------------
\* What a reader relies on, and the parts a composition is made of.
CompositionInv ==
  /\ table \in Seq(TableRows)
  /\ reference \in Seq(CountedParts)
  /\ ReadReference(reference) = table
  /\ updates \in Nat

LEMMA CompositionInitInv ==
  CompositionInit => CompositionInv
<1> SUFFICES ASSUME CompositionInit PROVE CompositionInv
  OBVIOUS
<1>1. PICK days \in 1 .. TableDays :
        /\ \E order \in {GroupMajor, DayMajor} :
             table = Frame({Row(cell, 0) : cell \in Groups \X (1 .. days)}, order)
        /\ reference = Published(table) /\ updates = 0
  BY DEF CompositionInit
<1>2. PICK order \in {GroupMajor, DayMajor} :
        table = Frame({Row(cell, 0) : cell \in Groups \X (1 .. days)}, order)
  BY <1>1
<1>3. {Row(cell, 0) : cell \in Groups \X (1 .. days)} \subseteq TableRows
  BY CompositionAssumption DEF Row, TableRows, Axis
<1>4. table \in Seq(TableRows)
  BY <1>2, <1>3, FrameType
<1> QED
  BY <1>1, <1>4, PublishedReads DEF CompositionInv

\* A composition of parts that are asked for its content keeps the invariant.
LEMMA ComposeInv ==
  ASSUME CompositionInv, NEW parts \in Seq(AskedParts), NEW content,
         Meant(parts) = content, Compose(parts, content)
  PROVE  CompositionInv'
<1>1. table' = content /\ reference' = ComposeReference(parts) /\ updates' = updates + 1
  BY DEF Compose
<1>2. content \in Seq(TableRows)
  BY MeantType
<1>3. /\ ComposeReference(parts) \in Seq(CountedParts)
      /\ ReadReference(ComposeReference(parts)) = content
  BY ComposeReads
<1>4. ReadReference(reference') = table'
  BY <1>1, <1>3
<1>5. ReadReference(reference)' = table'
  BY <1>4 DEF ReadReference, Select, Keeps, FilterOf
<1>6. updates' \in Nat
  BY <1>1 DEF CompositionInv
<1> QED
  BY <1>1, <1>2, <1>3, <1>5, <1>6 DEF CompositionInv

LEMMA ContinueCompleteInv ==
  ASSUME CompositionInv, ContinueComplete
  PROVE  CompositionInv'
<1>1. PICK cell \in Cells, revision \in {-1, updates + 1}, order \in {GroupMajor, DayMajor} :
        LET old == {row \in Range(table) : <<row.group, row.day>> # cell}
            new == IF revision = -1 THEN old ELSE old \cup {Row(cell, revision)}
            frame == Frame(new, order)
        IN  /\ frame # table
            /\ Compose(ContinueFrame(frame), frame)
  BY DEF ContinueComplete
<1> DEFINE old == {row \in Range(table) : <<row.group, row.day>> # cell}
           new == IF revision = -1 THEN old ELSE old \cup {Row(cell, revision)}
           frame == Frame(new, order)
<1>2. Compose(ContinueFrame(frame), frame)
  BY <1>1
<1>3. new \subseteq TableRows
  <2>1. old \subseteq TableRows
    <3>1. \A i \in DOMAIN table : table[i] \in TableRows
      BY DEF CompositionInv
    <3> QED
      BY <3>1 DEF Range
  <2>2. Row(cell, revision) \in TableRows
    <3>1. revision \in Int
      BY DEF CompositionInv
    <3> QED
      BY <3>1 DEF Row, Cells, TableRows
  <2> HIDE DEF old
  <2> QED
    BY <2>1, <2>2
<1> HIDE DEF new
<1>4. frame \in Seq(TableRows)
  BY <1>3, FrameType
<1> HIDE DEF frame
<1>5. ContinueFrame(frame) \in Seq(AskedParts) /\ Meant(ContinueFrame(frame)) = frame
  BY <1>4, FrameReads DEF CompositionInv
<1> QED
  BY <1>2, <1>5, ComposeInv

LEMMA ContinueDeltaInv ==
  ASSUME CompositionInv, ContinueDelta
  PROVE  CompositionInv'
<1>1. PICK start \in Axis, end \in Axis \cup {TableDays + 1}, cells \in SUBSET Cells :
        LET before == [Everything EXCEPT !.to = start - 1]
            after == [Everything EXCEPT !.from = end + 1]
            frame == Frame({Row(c, updates + 1) : c \in cells}, GroupMajor)
            delta == IF frame = <<>> THEN <<>>
                     ELSE << [ref |-> Published(frame), filter |-> Everything] >>
            suffix == IF end > TableDays THEN <<>>
                      ELSE << [ref |-> reference, filter |-> after] >>
        IN  Compose(<< [ref |-> reference, filter |-> before] >> \o delta \o suffix,
                    Select(table, before) \o frame
                        \o (IF end > TableDays THEN <<>> ELSE Select(table, after)))
  BY Zenon DEF ContinueDelta
<1> DEFINE before == [Everything EXCEPT !.to = start - 1]
           after == [Everything EXCEPT !.from = end + 1]
           frame == Frame({Row(c, updates + 1) : c \in cells}, GroupMajor)
           delta == IF frame = <<>> THEN <<>>
                    ELSE << [ref |-> Published(frame), filter |-> Everything] >>
           suffix == IF end > TableDays THEN <<>>
                     ELSE << [ref |-> reference, filter |-> after] >>
           prefix == << [ref |-> reference, filter |-> before] >>
           head == Select(table, before)
           tail == IF end > TableDays THEN <<>> ELSE Select(table, after)
<1>2. Compose(prefix \o delta \o suffix, head \o frame \o tail)
  BY <1>1, Zenon
<1>3. start - 1 \in Int /\ end \in Int
  BY CompositionAssumption DEF Axis
<1>4. before \in TableFilters /\ after \in TableFilters
  <2>1. UpTo(start - 1) \in TableFilters /\ After(end) \in TableFilters
    BY <1>3, UpToKeeps, AfterKeeps
  <2> QED
    BY <2>1 DEF UpTo, After
<1>5. /\ reference \in Seq(CountedParts) /\ ReadReference(reference) = table
      /\ table \in Seq(TableRows)
  BY DEF CompositionInv
<1>6. frame \in Seq(TableRows)
  <2> DEFINE rows == {Row(c, updates + 1) : c \in cells}
  <2>1. updates + 1 \in Int
    BY DEF CompositionInv
  <2>2. rows \subseteq TableRows
    BY <2>1 DEF Row, Cells, TableRows
  <2> HIDE DEF rows
  <2>3. Frame(rows, GroupMajor) \in Seq(TableRows)
    BY <2>2, FrameType
  <2> QED
    BY <2>3 DEF rows
<1> HIDE DEF before, after, frame
<1>7. prefix \in Seq(AskedParts) /\ Meant(prefix) = head /\ head \in Seq(TableRows)
  BY <1>4, <1>5, AskedPart, SelectType
<1>8. << >> \in Seq(AskedParts) /\ << >> \in Seq(TableRows)
  OBVIOUS
<1>9. delta \in Seq(AskedParts) /\ Meant(delta) = frame
  BY <1>6, <1>8, AskedLeaf, MeantEmpty
<1>10. suffix \in Seq(AskedParts) /\ Meant(suffix) = tail /\ tail \in Seq(TableRows)
  <2>1. /\ << [ref |-> reference, filter |-> after] >> \in Seq(AskedParts)
        /\ Meant(<< [ref |-> reference, filter |-> after] >>) = Select(table, after)
        /\ Select(table, after) \in Seq(TableRows)
    BY <1>4, <1>5, AskedPart, SelectType
  <2> QED
    BY <1>8, <2>1, MeantEmpty
<1> HIDE DEF prefix, delta, suffix, head, tail
<1>11. prefix \o delta \in Seq(AskedParts) /\ Meant(prefix \o delta) = head \o frame
  <2>1. prefix \o delta \in Seq(AskedParts)
    BY <1>7, <1>9
  <2> QED
    BY <1>7, <1>9, <2>1, MeantJoin
<1> DEFINE parts == prefix \o delta
<1> HIDE DEF parts
<1>12. parts \o suffix \in Seq(AskedParts) /\ Meant(parts \o suffix) = (head \o frame) \o tail
  <2>1. parts \in Seq(AskedParts) /\ Meant(parts) = head \o frame
    BY <1>11 DEF parts
  <2>2. parts \o suffix \in Seq(AskedParts)
    BY <1>10, <2>1
  <2> QED
    BY <1>10, <2>1, <2>2, MeantJoin
<1>13. Compose(parts \o suffix, (head \o frame) \o tail)
  BY <1>2 DEF parts
<1> QED
  BY <1>12, <1>13, ComposeInv

\* After any updates the reference is made of parts that count their own rows
\* and reads back as the published table.
THEOREM CompositionInvariant == CompositionSpec => []CompositionInv
<1>1. CompositionInit => CompositionInv
  BY CompositionInitInv
<1>2. CompositionInv /\ [CompositionNext]_compositionVars => CompositionInv'
  <2> SUFFICES ASSUME CompositionInv, [CompositionNext]_compositionVars
               PROVE  CompositionInv'
    OBVIOUS
  <2>1. CASE ContinueComplete
    BY <2>1, ContinueCompleteInv
  <2>2. CASE ContinueDelta
    BY <2>2, ContinueDeltaInv
  <2>3. CASE UNCHANGED compositionVars
    BY <2>3 DEF CompositionInv, compositionVars, ReadReference
  <2> QED
    BY <2>1, <2>2, <2>3 DEF CompositionNext
<1> QED
  BY <1>1, <1>2, PTL DEF CompositionSpec

\* Hence every read of a continued table returns what was published, and the
\* row counts of its parts add up to it (compose_reference, read_reference).
THEOREM CompositionReads == CompositionSpec => []ReadsPublished
<1>1. CompositionInv => ReadsPublished
  BY RowsCounted DEF CompositionInv, ReadsPublished
<1> QED
  BY <1>1, CompositionInvariant, PTL

-----------------------------------------------------------------------------
(* What an update writes: sequences in order, and the order of a table.     *)

\* Every pair of a sequence, the earlier one first, is in a relation.
Follow(q, R) == \A i, j \in DOMAIN q : i < j => << q[i], q[j] >> \in R

LEMMA FollowAppend ==
  ASSUME NEW X, NEW q \in Seq(X), NEW x \in X, NEW R, Follow(q, R),
         \A y \in Range(q) : << y, x >> \in R
  PROVE  Follow(Append(q, x), R)
<1> DEFINE n == Len(q)
           r == Append(q, x)
<1>1. /\ n \in Nat /\ DOMAIN q = 1 .. n /\ DOMAIN r = 1 .. n + 1 /\ r[n + 1] = x
      /\ \A i \in 1 .. n : r[i] = q[i]
  OBVIOUS
<1>2. \A i \in 1 .. n : << q[i], x >> \in R
  BY <1>1 DEF Range
<1> HIDE DEF r, n
<1> SUFFICES ASSUME NEW i \in 1 .. n + 1, NEW j \in 1 .. n + 1, i < j
             PROVE  << r[i], r[j] >> \in R
  BY <1>1 DEF Follow, r
<1>3. i \in 1 .. n /\ (j \in 1 .. n \/ j = n + 1)
  BY <1>1
<1> QED
  BY <1>1, <1>2, <1>3 DEF Follow

LEMMA FollowJoin ==
  ASSUME NEW X, NEW p \in Seq(X), NEW q \in Seq(X), NEW R, Follow(p, R), Follow(q, R),
         \A x \in Range(p), y \in Range(q) : << x, y >> \in R
  PROVE  Follow(p \o q, R)
<1> DEFINE m == Len(p)
           n == Len(q)
           r == p \o q
<1>1. /\ m \in Nat /\ n \in Nat /\ DOMAIN p = 1 .. m /\ DOMAIN q = 1 .. n
      /\ DOMAIN r = 1 .. m + n /\ \A i \in 1 .. m : r[i] = p[i]
      /\ \A i \in m + 1 .. m + n : r[i] = q[i - m]
  OBVIOUS
<1>2. \A i \in 1 .. m, j \in 1 .. n : << p[i], q[j] >> \in R
  BY <1>1 DEF Range
<1> HIDE DEF r, n, m
<1> SUFFICES ASSUME NEW i \in 1 .. m + n, NEW j \in 1 .. m + n, i < j
             PROVE  << r[i], r[j] >> \in R
  BY <1>1 DEF Follow, r
<1>3. CASE j \in 1 .. m
  <2>1. i \in 1 .. m
    BY <1>1, <1>3
  <2> QED
    BY <1>1, <1>3, <2>1 DEF Follow
<1>4. CASE i \in 1 .. m /\ j \in m + 1 .. m + n
  <2>1. j - m \in 1 .. n
    BY <1>1, <1>4
  <2> QED
    BY <1>1, <1>2, <1>4, <2>1
<1>5. CASE i \in m + 1 .. m + n
  <2>1. i - m \in 1 .. n /\ j - m \in 1 .. n /\ i - m < j - m /\ j \in m + 1 .. m + n
    BY <1>1, <1>5
  <2> QED
    BY <1>1, <1>5, <2>1 DEF Follow
<1> QED
  BY <1>1, <1>3, <1>4, <1>5

LEMMA RangeJoin ==
  ASSUME NEW X, NEW p \in Seq(X), NEW q \in Seq(X), NEW x \in X
  PROVE  /\ Range(Append(q, x)) = Range(q) \cup {x}
         /\ Range(p \o q) = Range(p) \cup Range(q)
         /\ Range(q) \subseteq X
<1> DEFINE m == Len(p)
           n == Len(q)
           r == p \o q
           s == Append(q, x)
<1>1. /\ m \in Nat /\ n \in Nat /\ DOMAIN p = 1 .. m /\ DOMAIN q = 1 .. n
      /\ DOMAIN r = 1 .. m + n /\ \A i \in 1 .. m : r[i] = p[i]
      /\ \A i \in m + 1 .. m + n : r[i] = q[i - m]
      /\ \A i \in 1 .. n : q[i] \in X
  OBVIOUS
<1>2. DOMAIN s = 1 .. n + 1 /\ s[n + 1] = x /\ \A i \in 1 .. n : s[i] = q[i]
  OBVIOUS
<1> HIDE DEF m, n, r, s
<1>3. Range(s) = Range(q) \cup {x}
  <2>1. \A i \in 1 .. n + 1 : i \in 1 .. n \/ i = n + 1
    BY <1>1
  <2>2. \A i \in 1 .. n : i \in 1 .. n + 1
    BY <1>1
  <2>3. n + 1 \in 1 .. n + 1
    BY <1>1
  <2> QED
    BY <1>1, <1>2, <2>1, <2>2, <2>3 DEF Range
<1>4. Range(r) = Range(p) \cup Range(q)
  <2>1. \A i \in 1 .. m + n : i \in 1 .. m \/ (i \in m + 1 .. m + n /\ i - m \in 1 .. n)
    BY <1>1
  <2>2. \A i \in 1 .. m : i \in 1 .. m + n
    BY <1>1
  <2>3. \A i \in 1 .. n : m + i \in m + 1 .. m + n /\ m + i \in 1 .. m + n /\ (m + i) - m = i
    BY <1>1
  <2>4. \A i \in 1 .. n : r[m + i] = q[i]
    BY <1>1, <2>3
  <2>5. Range(r) \subseteq Range(p) \cup Range(q)
    BY <1>1, <2>1 DEF Range
  <2>6. Range(p) \subseteq Range(r)
    BY <1>1, <2>2 DEF Range
  <2>7. Range(q) \subseteq Range(r)
    <3>1. \A i \in 1 .. n : \E j \in 1 .. m + n : q[i] = r[j]
      BY <2>3, <2>4
    <3>2. DOMAIN q = 1 .. n /\ DOMAIN r = 1 .. m + n
      BY <1>1
    <3> QED
      BY <3>1, <3>2, Zenon DEF Range
  <2> QED
    BY <2>5, <2>6, <2>7
<1> QED
  BY <1>1, <1>3, <1>4 DEF r, s, Range

\* A selection has the rows that pass, in the order they had.
LEMMA SelectRange ==
  ASSUME NEW X, NEW f
  PROVE  \A q \in Seq(X) : Range(Select(q, f)) = {x \in Range(q) : Keeps(f, x)}
<1> DEFINE S == {q \in Seq(X) : Range(Select(q, f)) = {x \in Range(q) : Keeps(f, x)}}
<1>1. << >> \in S
  <2>1. << >> \in Seq(X) /\ Range(<< >>) = {}
    BY DEF Range
  <2> QED
    BY <2>1, SelectEmpty
<1>2. \A q \in Seq(X), x \in X : q \in S => Append(q, x) \in S
  <2> SUFFICES ASSUME NEW q \in Seq(X), NEW x \in X,
                      Range(Select(q, f)) = {y \in Range(q) : Keeps(f, y)}
               PROVE  /\ Append(q, x) \in Seq(X)
                      /\ Range(Select(Append(q, x), f))
                           = {y \in Range(Append(q, x)) : Keeps(f, y)}
    BY Zenon
  <2>1. Select(Append(q, x), f) = IF Keeps(f, x) THEN Append(Select(q, f), x)
                                  ELSE Select(q, f)
    BY SelectAppend
  <2>2. Select(q, f) \in Seq(X) /\ Append(q, x) \in Seq(X)
    BY SelectType
  <2>3. /\ Range(Append(q, x)) = Range(q) \cup {x}
        /\ Range(Append(Select(q, f), x)) = Range(Select(q, f)) \cup {x}
    BY <2>2, RangeJoin
  <2> QED
    BY <2>1, <2>2, <2>3
<1>3. \A q \in Seq(X) : q \in S
  <2> HIDE DEF S
  <2> QED
    BY <1>1, <1>2, SeqInduction
<1> QED
  BY <1>3

LEMMA SelectFollows ==
  ASSUME NEW X, NEW f, NEW R
  PROVE  \A q \in Seq(X) : Follow(q, R) => Follow(Select(q, f), R)
<1> DEFINE S == {q \in Seq(X) : Follow(q, R) => Follow(Select(q, f), R)}
<1>1. << >> \in S
  <2>1. << >> \in Seq(X) /\ Follow(<< >>, R)
    BY DEF Follow
  <2> QED
    BY <2>1, SelectEmpty
<1>2. \A q \in Seq(X), x \in X : q \in S => Append(q, x) \in S
  <2> SUFFICES ASSUME NEW q \in Seq(X), NEW x \in X,
                      Follow(q, R) => Follow(Select(q, f), R), Follow(Append(q, x), R)
               PROVE  Append(q, x) \in Seq(X) /\ Follow(Select(Append(q, x), f), R)
    <3>1. \A q \in Seq(X), x \in X : Append(q, x) \in Seq(X)
      OBVIOUS
    <3> QED
      BY <3>1, Zenon
  <2> DEFINE n == Len(q)
             r == Append(q, x)
             s == Select(q, f)
  <2>1. /\ n \in Nat /\ DOMAIN q = 1 .. n /\ DOMAIN r = 1 .. n + 1 /\ r[n + 1] = x
        /\ \A i \in 1 .. n : r[i] = q[i]
        /\ r \in Seq(X)
    OBVIOUS
  <2>2. Select(r, f) = IF Keeps(f, x) THEN Append(s, x) ELSE s
    BY SelectAppend
  <2>3. s \in Seq(X)
    BY SelectType
  <2>4. Range(s) \subseteq Range(q)
    BY SelectRange
  <2>0. Follow(r, R)
    OBVIOUS
  <2> HIDE DEF n, r, s
  <2>5. \A i \in 1 .. n : << q[i], x >> \in R
    <3>1. \A i \in 1 .. n : i \in 1 .. n + 1 /\ n + 1 \in 1 .. n + 1 /\ i < n + 1
      BY <2>1
    <3> QED
      BY <2>0, <2>1, <3>1 DEF Follow
  <2>6. Follow(q, R)
    <3>1. \A i \in 1 .. n : i \in 1 .. n + 1
      BY <2>1
    <3> QED
      BY <2>0, <2>1, <3>1 DEF Follow
  <2>7. Follow(s, R)
    BY <2>6 DEF s
  <2>8. \A y \in Range(s) : << y, x >> \in R
    BY <2>1, <2>4, <2>5 DEF Range
  <2>9. Follow(Append(s, x), R)
    BY <2>3, <2>7, <2>8, FollowAppend
  <2> QED
    BY <2>1, <2>2, <2>7, <2>9 DEF r
<1>3. \A q \in Seq(X) : q \in S
  <2> HIDE DEF S
  <2> QED
    BY <1>1, <1>2, SeqInduction
<1> QED
  BY <1>3

\* The row of a cell, and the order of rows that follows an order of cells.
CellOf(row) == << row.group, row.day >>
Cut(rows, c) ==
  LET found == {row \in rows : CellOf(row) = c}
  IN  IF found = {} THEN << >> ELSE << CHOOSE row \in found : TRUE >>

LEMMA CutType ==
  ASSUME NEW rows, NEW c
  PROVE  Cut(rows, c) \in Seq(rows) /\ \A x \in Range(Cut(rows, c)) : CellOf(x) = c
<1> DEFINE found == {row \in rows : CellOf(row) = c}
           r == CHOOSE row \in found : TRUE
<1>1. Cut(rows, c) = IF found = {} THEN << >> ELSE << r >>
  BY DEF Cut
<1>2. found # {} => r \in rows /\ CellOf(r) = c
  <2>1. found # {} => r \in found
    OBVIOUS
  <2> HIDE DEF r
  <2> QED
    BY <2>1
<1> HIDE DEF found, r
<1>3. << >> \in Seq(rows) /\ Range(<< >>) = {}
  BY DEF Range
<1>4. r \in rows => << r >> \in Seq(rows) /\ Range(<< r >>) = {r}
  <2> SUFFICES ASSUME r \in rows PROVE << r >> \in Seq(rows) /\ Range(<< r >>) = {r}
    OBVIOUS
  <2>1. << r >> = Append(<< >>, r) /\ << >> \in Seq(rows) /\ << r >> \in Seq(rows)
    OBVIOUS
  <2>2. Range(Append(<< >>, r)) = Range(<< >>) \cup {r}
    <3> DEFINE e == << >>
    <3>1. e \in Seq(rows)
      BY <2>1
    <3> HIDE DEF e
    <3>2. Range(Append(e, r)) = Range(e) \cup {r}
      BY <3>1, RangeJoin
    <3> QED
      BY <3>2 DEF e
  <2> QED
    BY <1>3, <2>1, <2>2
<1> QED
  BY <1>1, <1>2, <1>3, <1>4

LEMMA FrameCuts ==
  ASSUME NEW rows, NEW Z
  PROVE  /\ Maps([c \in Z |-> Cut(rows, c)], Z, Seq(rows))
         /\ \A q \in Seq(Z) : Frame(rows, q) = FlattenSeq(Map([c \in Z |-> Cut(rows, c)], q))
<1> DEFINE cut == [c \in Z |-> Cut(rows, c)]
<1>1. Maps(cut, Z, Seq(rows))
  BY CutType DEF Maps
<1>2. ASSUME NEW q \in Seq(Z) PROVE Frame(rows, q) = FlattenSeq(Map(cut, q))
  <2>1. \A i \in DOMAIN q : q[i] \in Z
    OBVIOUS
  <2>2. Map(cut, q) = [i \in DOMAIN q |-> Cut(rows, q[i])]
    BY <2>1 DEF Map
  <2> QED
    BY <2>2, Zenon DEF Frame, Cut, CellOf
<1> QED
  BY <1>1, <1>2

LEMMA FrameAppend ==
  ASSUME NEW rows, NEW Z, NEW q \in Seq(Z), NEW c \in Z
  PROVE  /\ Frame(rows, Append(q, c)) = Frame(rows, q) \o Cut(rows, c)
         /\ Frame(rows, q) \in Seq(rows)
<1> DEFINE cut == [x \in Z |-> Cut(rows, x)]
           Y == Seq(rows)
<1>1. cut[c] = Cut(rows, c) /\ Append(q, c) \in Seq(Z) /\ Cut(rows, c) \in Y
  BY CutType
<1>2. /\ Maps(cut, Z, Y) /\ Frame(rows, q) = FlattenSeq(Map(cut, q))
      /\ Frame(rows, Append(q, c)) = FlattenSeq(Map(cut, Append(q, c)))
  BY <1>1, FrameCuts
<1> HIDE DEF cut
<1>3. Map(cut, Append(q, c)) = Append(Map(cut, q), cut[c]) /\ Map(cut, q) \in Seq(Y)
  <2> HIDE DEF Y
  <2> QED
    BY <1>2, MapAppend, MapType
<1> QED
  BY <1>1, <1>2, <1>3, FlatAppend, FlatType

\* The rows of a frame are rows it was given, in the order of their cells.
LEMMA FrameOrder ==
  ASSUME NEW rows, NEW Z, NEW C, NEW R,
         \A x \in rows, y \in rows : << CellOf(x), CellOf(y) >> \in C => << x, y >> \in R
  PROVE  \A q \in Seq(Z) : /\ Frame(rows, q) \in Seq(rows)
                           /\ \A x \in Range(Frame(rows, q)) : CellOf(x) \in Range(q)
                           /\ Follow(q, C) => Follow(Frame(rows, q), R)
<1> DEFINE P(q) == /\ Frame(rows, q) \in Seq(rows)
                   /\ \A x \in Range(Frame(rows, q)) : CellOf(x) \in Range(q)
                   /\ Follow(q, C) => Follow(Frame(rows, q), R)
           S == {q \in Seq(Z) : P(q)}
<1>1. << >> \in S
  <2>1. << >> \in Seq(Z) /\ Range(<< >>) = {} /\ Follow(<< >>, R) /\ << >> \in Seq(rows)
    BY DEF Follow, Range
  <2>2. Frame(rows, << >>) = << >>
    <3>1. Frame(rows, << >>) = FlattenSeq(Map([c \in Z |-> Cut(rows, c)], << >>))
      BY <2>1, FrameCuts
    <3>2. Map([c \in Z |-> Cut(rows, c)], << >>) = << >>
      BY DEF Map
    <3> QED
      BY <3>1, <3>2, FlatEmpty
  <2> QED
    BY <2>1, <2>2
<1>2. \A q \in Seq(Z), c \in Z : q \in S => Append(q, c) \in S
  <2> SUFFICES ASSUME NEW q \in Seq(Z), NEW c \in Z, P(q)
               PROVE  Append(q, c) \in Seq(Z) /\ P(Append(q, c))
    <3> HIDE DEF P
    <3>1. \A q \in Seq(Z), c \in Z : Append(q, c) \in Seq(Z)
      OBVIOUS
    <3> QED
      BY <3>1, Zenon
  <2> DEFINE n == Len(q)
             p == Append(q, c)
             a == Frame(rows, q)
             s == Cut(rows, c)
  <2>1. /\ n \in Nat /\ DOMAIN q = 1 .. n /\ DOMAIN p = 1 .. n + 1 /\ p[n + 1] = c
        /\ \A i \in 1 .. n : p[i] = q[i]
        /\ p \in Seq(Z)
    OBVIOUS
  <2>2. Frame(rows, p) = a \o s /\ a \in Seq(rows)
    BY FrameAppend
  <2>3. s \in Seq(rows) /\ \A x \in Range(s) : CellOf(x) = c
    BY CutType
  <2>4. /\ \A x \in Range(a) : CellOf(x) \in Range(q)
        /\ Follow(q, C) => Follow(a, R)
    OBVIOUS
  <2>5. Range(p) = Range(q) \cup {c}
    BY RangeJoin
  <2>0. s = << >> \/ \E x \in rows : s = << x >>
    <3> DEFINE found == {row \in rows : CellOf(row) = c}
               x == CHOOSE row \in found : TRUE
    <3>1. s = IF found = {} THEN << >> ELSE << x >>
      BY DEF Cut
    <3>2. found # {} => x \in rows
      OBVIOUS
    <3> HIDE DEF x, found, s
    <3> QED
      BY <3>1, <3>2
  <2> HIDE DEF n, p, a, s
  <2>6. a \o s \in Seq(rows) /\ Range(a \o s) = Range(a) \cup Range(s)
        /\ Range(a) \subseteq rows /\ Range(s) \subseteq rows
    <3>1. CASE rows = {}
      <4>1. a = << >> /\ s = << >>
        BY <2>2, <2>3, <3>1
      <4>2. << >> \o << >> = << >>
        OBVIOUS
      <4> QED
        BY <2>2, <4>1, <4>2 DEF Range
    <3>2. ASSUME NEW x \in rows
          PROVE  Range(a \o s) = Range(a) \cup Range(s) /\ Range(a) \subseteq rows /\ Range(s) \subseteq rows
      BY <2>2, <2>3, RangeJoin
    <3> QED
      BY <2>2, <2>3, <3>1, <3>2
  <2>7. ASSUME Follow(p, C) PROVE Follow(a \o s, R)
    <3>1. Follow(q, C)
      <4>1. \A i \in 1 .. n : i \in 1 .. n + 1
        BY <2>1
      <4> QED
        BY <2>1, <2>7, <4>1 DEF Follow
    <3>2. \A y \in Range(q) : << y, c >> \in C
      <4>1. \A i \in 1 .. n : i \in 1 .. n + 1 /\ n + 1 \in 1 .. n + 1 /\ i < n + 1
        BY <2>1
      <4>2. \A i \in 1 .. n : << q[i], c >> \in C
        BY <2>1, <2>7, <4>1 DEF Follow
      <4> QED
        BY <2>1, <4>2 DEF Range
    <3>3. \A x \in Range(a), y \in Range(s) : << x, y >> \in R
      BY <2>3, <2>4, <2>6, <3>2
    <3>4. Follow(s, R)
      <4>1. Follow(<< >>, R)
        BY DEF Follow
      <4>2. ASSUME NEW x PROVE Follow(<< x >>, R)
        <5>1. DOMAIN << x >> = 1 .. 1
          OBVIOUS
        <5>2. \A i, j \in 1 .. 1 : ~ (i < j)
          OBVIOUS
        <5> QED
          BY <5>1, <5>2 DEF Follow
      <4> QED
        BY <2>0, <4>1, <4>2
    <3> QED
      BY <2>2, <2>3, <2>4, <3>1, <3>3, <3>4, FollowJoin
  <2>8. \A x \in Range(a \o s) : CellOf(x) \in Range(p)
    BY <2>3, <2>4, <2>5, <2>6
  <2>9. P(p)
    BY <2>2, <2>6, <2>7, <2>8
  <2> HIDE DEF P
  <2> QED
    BY <2>1, <2>9 DEF p
<1>3. \A q \in Seq(Z) : q \in S
  <2> HIDE DEF S
  <2> QED
    BY <1>1, <1>2, SeqInduction
<1> QED
  BY <1>3

-----------------------------------------------------------------------------
(* The order of the cells of a frame.                                       *)

LEMMA DivisionOf ==
  ASSUME NEW T \in Nat \ {0}, NEW K \in Nat, NEW a \in Nat, a < K * T
  PROVE  a \div T \in 0 .. (K - 1) /\ a % T \in 0 .. (T - 1)
<1> SUFFICES ASSUME NEW d, NEW r, d = a \div T, r = a % T
             PROVE  d \in 0 .. (K - 1) /\ r \in 0 .. (T - 1)
  OBVIOUS
<1>1. d \in Int /\ r \in 0 .. (T - 1) /\ a = T * d + r
  OBVIOUS
<1>2. d >= 0
  <2> SUFFICES ASSUME d <= -1 PROVE FALSE
    BY <1>1
  <2>1. T * d <= T * (-1)
    BY <1>1
  <2> QED
    BY <1>1, <2>1
<1>3. d <= K - 1
  <2> SUFFICES ASSUME d >= K PROVE FALSE
    BY <1>1
  <2>1. T * d >= T * K
    BY <1>1
  <2>2. T * K = K * T
    OBVIOUS
  <2> QED
    BY <1>1, <2>1, <2>2
<1> QED
  BY <1>1, <1>2, <1>3

LEMMA DivisionAscends ==
  ASSUME NEW T \in Nat \ {0}, NEW a \in Nat, NEW b \in Nat, a < b
  PROVE  a \div T < b \div T \/ (a \div T = b \div T /\ a % T < b % T)
<1> DEFINE d == a \div T
           r == a % T
           e == b \div T
           s == b % T
<1>1. /\ d \in Int /\ r \in 0 .. (T - 1) /\ a = T * d + r
      /\ e \in Int /\ s \in 0 .. (T - 1) /\ b = T * e + s
  OBVIOUS
<1> HIDE DEF d, r, e, s
<1>2. d <= e
  <2> SUFFICES ASSUME d >= e + 1 PROVE FALSE
    BY <1>1
  <2>1. T * d >= T * (e + 1) /\ T * (e + 1) = T * e + T
    BY <1>1
  <2> QED
    BY <1>1, <2>1
<1>3. d = e => r < s
  BY <1>1
<1> QED
  BY <1>1, <1>2, <1>3 DEF d, r, e, s

GroupsUpTo(g) == {h \in Groups : h <= g}

LEMMA NthGroupCounted ==
  ASSUME NEW n \in 1 .. Cardinality(Groups)
  PROVE  NthGroup(n) \in Groups /\ Cardinality(GroupsUpTo(NthGroup(n))) = n
<1> DEFINE K == Cardinality(Groups)
           ahead == [x \in Groups |-> {h \in Groups : h < x}]
<1>0. K \in Nat /\ \A x \in Groups : x \in Int
  BY CompositionAssumption, FS_CardinalityType
<1>1. /\ \A x \in Groups : ahead[x] \subseteq Groups /\ x \notin ahead[x]
      /\ \A x, y \in Groups : x = y \/ x \in ahead[y] \/ y \in ahead[x]
      /\ \A x, y \in Groups : x \in ahead[y] => ahead[x] \subseteq ahead[y]
  BY <1>0
<1>2. \A x \in Groups : GroupsUpTo(x) = ahead[x] \cup {x}
  BY <1>0 DEF GroupsUpTo
<1> HIDE DEF ahead
<1>3. [x \in Groups |-> Cardinality(ahead[x])] \in Bijection(Groups, 0 .. (K - 1))
  BY <1>1, RankBijection, CompositionAssumption
<1>4. \A r \in 0 .. (K - 1) : \E x \in Groups : Cardinality(ahead[x]) = r
  BY <1>3 DEF Bijection, Surjection
<1>5. n - 1 \in 0 .. (K - 1) /\ (n - 1) + 1 = n
  BY <1>0
<1>6. PICK x \in Groups : Cardinality(ahead[x]) = n - 1
  BY <1>4, <1>5
<1>7. Cardinality(GroupsUpTo(x)) = n
  <2>1. IsFiniteSet(ahead[x])
    BY <1>1, FS_Subset, CompositionAssumption
  <2>2. Cardinality(ahead[x] \cup {x}) = Cardinality(ahead[x]) + 1
    BY <1>1, <2>1, FS_AddElement
  <2> QED
    BY <1>2, <1>5, <1>6, <2>2
<1>8. NthGroup(n) = CHOOSE g \in Groups : Cardinality(GroupsUpTo(g)) = n
  BY DEF NthGroup, GroupsUpTo
<1> QED
  BY <1>7, <1>8

LEMMA NthGroupAscends ==
  ASSUME NEW m \in 1 .. Cardinality(Groups), NEW n \in 1 .. Cardinality(Groups), m < n
  PROVE  NthGroup(m) < NthGroup(n)
<1> DEFINE a == NthGroup(m)
           b == NthGroup(n)
<1>1. /\ a \in Groups /\ Cardinality(GroupsUpTo(a)) = m
      /\ b \in Groups /\ Cardinality(GroupsUpTo(b)) = n
  BY NthGroupCounted
<1> HIDE DEF a, b
<1>2. a \in Int /\ b \in Int /\ m \in Int /\ n \in Int
  <2>1. a \in Int /\ b \in Int
    BY <1>1, CompositionAssumption
  <2> QED
    BY <2>1
<1> SUFFICES ASSUME b <= a PROVE FALSE
  BY <1>2 DEF a, b
<1>3. GroupsUpTo(b) \subseteq GroupsUpTo(a)
  <2>1. \A h \in Groups : h \in Int
    BY CompositionAssumption
  <2> QED
    BY <1>2, <2>1 DEF GroupsUpTo
<1>4. IsFiniteSet(GroupsUpTo(a))
  <2>1. GroupsUpTo(a) \in SUBSET Groups
    BY DEF GroupsUpTo
  <2> QED
    BY <2>1, FS_Subset, CompositionAssumption
<1>5. Cardinality(GroupsUpTo(b)) <= Cardinality(GroupsUpTo(a))
  <2>1. GroupsUpTo(b) \in SUBSET GroupsUpTo(a)
    BY <1>3
  <2> QED
    BY <1>4, <2>1, FS_Subset
<1> QED
  BY <1>1, <1>2, <1>5

\* Cells group by group and day by day.
CellsByGroup ==
  {e \in Cells \X Cells : \/ e[1][1] < e[2][1]
                          \/ e[1][1] = e[2][1] /\ e[1][2] < e[2][2]}
CellsByDay ==
  {e \in Cells \X Cells : \/ e[1][2] < e[2][2]
                          \/ e[1][2] = e[2][2] /\ e[1][1] < e[2][1]}

LEMMA GroupMajorOrder ==
  GroupMajor \in Seq(Cells) /\ Follow(GroupMajor, CellsByGroup)
<1> DEFINE K == Cardinality(Groups)
           T == TableDays
           N == K * T
           d(n) == (n - 1) \div T
           r(n) == (n - 1) % T
<1>1. K \in Nat /\ T \in Nat \ {0} /\ N \in Nat
  BY CompositionAssumption, FS_CardinalityType
<1>2. GroupMajor = [n \in 1 .. N |-> << NthGroup(d(n) + 1), r(n) + 1 >>]
  BY DEF GroupMajor, Places
<1>3. ASSUME NEW n \in 1 .. N
      PROVE  d(n) + 1 \in 1 .. K /\ r(n) + 1 \in Axis /\ d(n) \in Int /\ r(n) \in Int
  <2> DEFINE a == n - 1
  <2>1. a \in Nat /\ a < K * T
    BY <1>1
  <2> HIDE DEF a, K, T
  <2>2. a \div T \in 0 .. (K - 1) /\ a % T \in 0 .. (T - 1)
    BY <1>1, <2>1, DivisionOf
  <2>3. \A x \in 0 .. (K - 1) : x + 1 \in 1 .. K /\ x \in Int
    BY <1>1
  <2>4. \A x \in 0 .. (T - 1) : x + 1 \in 1 .. T /\ x \in Int
    BY <1>1
  <2> QED
    BY <2>2, <2>3, <2>4 DEF a, T, Axis
<1>4. ASSUME NEW n \in 1 .. N PROVE << NthGroup(d(n) + 1), r(n) + 1 >> \in Cells
  BY <1>3, NthGroupCounted DEF Cells
<1>5. ASSUME NEW m \in 1 .. N, NEW n \in 1 .. N, m < n
      PROVE  \/ NthGroup(d(m) + 1) < NthGroup(d(n) + 1)
             \/ NthGroup(d(m) + 1) = NthGroup(d(n) + 1) /\ r(m) + 1 < r(n) + 1
  <2> DEFINE a == m - 1
             b == n - 1
  <2>1. a \in Nat /\ b \in Nat /\ a < b
    BY <1>1, <1>5
  <2> HIDE DEF a, b, T
  <2>2. a \div T < b \div T \/ (a \div T = b \div T /\ a % T < b % T)
    BY <1>1, <2>1, DivisionAscends
  <2>3. d(m) < d(n) \/ (d(m) = d(n) /\ r(m) < r(n))
    BY <2>2 DEF a, b
  <2>4. /\ d(m) + 1 \in 1 .. K /\ d(n) + 1 \in 1 .. K
        /\ d(m) \in Int /\ d(n) \in Int /\ r(m) \in Int /\ r(n) \in Int
    BY <1>3
  <2> HIDE DEF d, r
  <2>5. CASE d(m) < d(n)
    <3> DEFINE x == d(m) + 1
               y == d(n) + 1
    <3>1. x \in 1 .. K /\ y \in 1 .. K /\ x < y
      BY <2>4, <2>5
    <3> HIDE DEF x, y
    <3>2. NthGroup(x) < NthGroup(y)
      BY <3>1, NthGroupAscends
    <3> QED
      BY <3>2 DEF x, y
  <2>6. CASE d(m) = d(n) /\ r(m) < r(n)
    BY <2>4, <2>6
  <2> QED
    BY <2>3, <2>5, <2>6
<1> DEFINE c(n) == << NthGroup(d(n) + 1), r(n) + 1 >>
<1>6. \A m, n \in 1 .. N : m < n => << c(m), c(n) >> \in CellsByGroup
  <2> SUFFICES ASSUME NEW m \in 1 .. N, NEW n \in 1 .. N, m < n
               PROVE  << c(m), c(n) >> \in CellsByGroup
    OBVIOUS
  <2>1. c(m) \in Cells /\ c(n) \in Cells
    BY <1>4
  <2>2. c(m)[1] < c(n)[1] \/ (c(m)[1] = c(n)[1] /\ c(m)[2] < c(n)[2])
    <3> HIDE DEF d, r, N
    <3> QED
      BY <1>5
  <2> HIDE DEF c
  <2> QED
    BY <2>1, <2>2 DEF CellsByGroup
<1>7. \A n \in 1 .. N : c(n) \in Cells
  BY <1>4
<1>8. GroupMajor = [n \in 1 .. N |-> c(n)]
  BY <1>2
<1> HIDE DEF c, N
<1>9. [n \in 1 .. N |-> c(n)] \in Seq(Cells)
  BY <1>1, <1>7
<1>10. Follow([n \in 1 .. N |-> c(n)], CellsByGroup)
  BY <1>6 DEF Follow
<1> QED
  BY <1>8, <1>9, <1>10

LEMMA DayMajorOrder ==
  DayMajor \in Seq(Cells) /\ Follow(DayMajor, CellsByDay)
<1> DEFINE K == Cardinality(Groups)
           T == TableDays
           N == K * T
           d(n) == (n - 1) \div K
           r(n) == (n - 1) % K
<1>1. K \in Nat \ {0} /\ T \in Nat /\ N \in Nat /\ N = T * K
  <2>1. K \in Nat /\ K # 0
    BY CompositionAssumption, FS_CardinalityType, FS_EmptySet
  <2> HIDE DEF K
  <2> QED
    BY <2>1, CompositionAssumption
<1>2. DayMajor = [n \in 1 .. N |-> << NthGroup(r(n) + 1), d(n) + 1 >>]
  BY DEF DayMajor, Places
<1>3. ASSUME NEW n \in 1 .. N
      PROVE  r(n) + 1 \in 1 .. K /\ d(n) + 1 \in Axis /\ d(n) \in Int /\ r(n) \in Int
  <2> DEFINE a == n - 1
  <2>1. a \in Nat /\ a < T * K
    <3> HIDE DEF N
    <3> QED
      BY <1>1
  <2> HIDE DEF a, K, T
  <2>2. a \div K \in 0 .. (T - 1) /\ a % K \in 0 .. (K - 1)
    BY <1>1, <2>1, DivisionOf
  <2>3. \A x \in 0 .. (K - 1) : x + 1 \in 1 .. K /\ x \in Int
    BY <1>1
  <2>4. \A x \in 0 .. (T - 1) : x + 1 \in 1 .. T /\ x \in Int
    BY <1>1
  <2> QED
    BY <2>2, <2>3, <2>4 DEF a, T, Axis
<1>4. ASSUME NEW n \in 1 .. N PROVE << NthGroup(r(n) + 1), d(n) + 1 >> \in Cells
  BY <1>3, NthGroupCounted DEF Cells
<1>5. ASSUME NEW m \in 1 .. N, NEW n \in 1 .. N, m < n
      PROVE  \/ d(m) + 1 < d(n) + 1
             \/ d(m) + 1 = d(n) + 1 /\ NthGroup(r(m) + 1) < NthGroup(r(n) + 1)
  <2> DEFINE a == m - 1
             b == n - 1
  <2>1. a \in Nat /\ b \in Nat /\ a < b
    BY <1>1, <1>5
  <2> HIDE DEF a, b, K
  <2>2. a \div K < b \div K \/ (a \div K = b \div K /\ a % K < b % K)
    BY <1>1, <2>1, DivisionAscends
  <2>3. d(m) < d(n) \/ (d(m) = d(n) /\ r(m) < r(n))
    BY <2>2 DEF a, b
  <2>4. /\ r(m) + 1 \in 1 .. K /\ r(n) + 1 \in 1 .. K
        /\ d(m) \in Int /\ d(n) \in Int /\ r(m) \in Int /\ r(n) \in Int
    BY <1>3
  <2> HIDE DEF d, r
  <2>5. CASE d(m) < d(n)
    BY <2>4, <2>5
  <2>6. CASE d(m) = d(n) /\ r(m) < r(n)
    <3> DEFINE x == r(m) + 1
               y == r(n) + 1
    <3>1. x \in 1 .. K /\ y \in 1 .. K /\ x < y
      BY <2>4, <2>6
    <3> HIDE DEF x, y
    <3>2. NthGroup(x) < NthGroup(y)
      BY <3>1, NthGroupAscends DEF K
    <3> QED
      BY <2>6, <3>2 DEF x, y
  <2> QED
    BY <2>3, <2>5, <2>6
<1> DEFINE c(n) == << NthGroup(r(n) + 1), d(n) + 1 >>
<1>6. \A m, n \in 1 .. N : m < n => << c(m), c(n) >> \in CellsByDay
  <2> SUFFICES ASSUME NEW m \in 1 .. N, NEW n \in 1 .. N, m < n
               PROVE  << c(m), c(n) >> \in CellsByDay
    OBVIOUS
  <2>1. c(m) \in Cells /\ c(n) \in Cells
    BY <1>4
  <2>2. c(m)[2] < c(n)[2] \/ (c(m)[2] = c(n)[2] /\ c(m)[1] < c(n)[1])
    <3> HIDE DEF d, r, N
    <3> QED
      BY <1>5
  <2> HIDE DEF c
  <2> QED
    BY <2>1, <2>2 DEF CellsByDay
<1>7. \A n \in 1 .. N : c(n) \in Cells
  BY <1>4
<1>8. DayMajor = [n \in 1 .. N |-> c(n)]
  BY <1>2
<1> HIDE DEF c, N
<1>9. [n \in 1 .. N |-> c(n)] \in Seq(Cells)
  BY <1>1, <1>7
<1>10. Follow([n \in 1 .. N |-> c(n)], CellsByDay)
  BY <1>6 DEF Follow
<1> QED
  BY <1>8, <1>9, <1>10

-----------------------------------------------------------------------------
(* The order of rows, and the groups of a frame that is kept group by group. *)

RowsByGroup ==
  {e \in TableRows \X TableRows : \/ e[1].group < e[2].group
                                  \/ e[1].group = e[2].group /\ e[1].day < e[2].day}
RowsByDay ==
  {e \in TableRows \X TableRows : \/ e[1].day < e[2].day
                                  \/ e[1].day = e[2].day /\ e[1].group < e[2].group}
\* What both orders have in common: no cell twice, and days within a group
\* and groups within a day ascend.
RowsApart ==
  {e \in TableRows \X TableRows : /\ e[1].day = e[2].day => e[1].group < e[2].group
                                  /\ e[1].group = e[2].group => e[1].day < e[2].day}

LEMMA RowPairs ==
  ASSUME NEW x \in TableRows, NEW y \in TableRows
  PROVE  /\ << x, y >> \in RowsByGroup <=> \/ x.group < y.group
                                           \/ x.group = y.group /\ x.day < y.day
         /\ << x, y >> \in RowsByDay <=> \/ x.day < y.day
                                         \/ x.day = y.day /\ x.group < y.group
         /\ << x, y >> \in RowsApart <=> /\ x.day = y.day => x.group < y.group
                                         /\ x.group = y.group => x.day < y.day
         /\ x.group \in Int /\ y.group \in Int /\ x.day \in Int /\ y.day \in Int
<1>1. << x, y >> \in TableRows \X TableRows
  OBVIOUS
<1>2. x.group \in Int /\ y.group \in Int /\ x.day \in Int /\ y.day \in Int
  <2>1. /\ x.group \in Groups /\ x.day \in Int
        /\ y.group \in Groups /\ y.day \in Int
    BY RowDays
  <2>2. \A g \in Groups : g \in Int
    BY CompositionAssumption
  <2> QED
    BY <2>1, <2>2
<1>3. << x, y >>[1] = x /\ << x, y >>[2] = y
  OBVIOUS
<1> DEFINE e == << x, y >>
<1>4. e \in TableRows \X TableRows /\ e[1] = x /\ e[2] = y
  BY <1>1, <1>3
<1> HIDE DEF e
<1>5. /\ e \in RowsByGroup <=> \/ x.group < y.group
                               \/ x.group = y.group /\ x.day < y.day
      /\ e \in RowsByDay <=> \/ x.day < y.day
                             \/ x.day = y.day /\ x.group < y.group
      /\ e \in RowsApart <=> /\ x.day = y.day => x.group < y.group
                             /\ x.group = y.group => x.day < y.day
  BY <1>4 DEF RowsByGroup, RowsByDay, RowsApart
<1> QED
  BY <1>2, <1>5 DEF e

\* What a filter for one group leaves.
LEMMA OneGroupKeeps ==
  ASSUME NEW g \in Groups, NEW x \in TableRows
  PROVE  Keeps(OneGroup(g), x) <=> x.group = g
<1>1. OneGroup(g) = [groups |-> {g}, from |-> 0, to |-> TableDays + 1]
  BY DEF OneGroup, Everything
<1>2. x.day \in 0 .. TableDays + 1
  BY RowDays, CompositionAssumption
<1> QED
  BY <1>1, <1>2 DEF Keeps

\* The rows of some groups, one group after the other.
Regrouped(q, gs) == FlattenSeq([i \in DOMAIN gs |-> Select(q, OneGroup(gs[i]))])

LEMMA RegroupedAppend ==
  ASSUME NEW q \in Seq(TableRows), NEW gs \in Seq(Groups), NEW g \in Groups
  PROVE  /\ Regrouped(q, Append(gs, g)) = Regrouped(q, gs) \o Select(q, OneGroup(g))
         /\ Regrouped(q, gs) \in Seq(TableRows)
<1> DEFINE Y == Seq(TableRows)
           m == [h \in Groups |-> Select(q, OneGroup(h))]
<1>1. Maps(m, Groups, Y) /\ m[g] = Select(q, OneGroup(g)) /\ m[g] \in Y
  BY SelectType DEF Maps
<1>2. ASSUME NEW hs \in Seq(Groups) PROVE Regrouped(q, hs) = FlattenSeq(Map(m, hs))
  <2>1. \A i \in DOMAIN hs : hs[i] \in Groups
    OBVIOUS
  <2>2. Map(m, hs) = [i \in DOMAIN hs |-> Select(q, OneGroup(hs[i]))]
    BY <2>1 DEF Map
  <2> QED
    BY <2>2 DEF Regrouped
<1>3. Append(gs, g) \in Seq(Groups)
  OBVIOUS
<1> HIDE DEF m
<1>4. Map(m, Append(gs, g)) = Append(Map(m, gs), m[g]) /\ Map(m, gs) \in Seq(Y)
  <2> HIDE DEF Y
  <2> QED
    BY <1>1, MapAppend, MapType
<1> QED
  BY <1>1, <1>2, <1>3, <1>4, FlatAppend, FlatType

\* A row of another group changes nothing.
LEMMA RegroupedSame ==
  ASSUME NEW q \in Seq(TableRows), NEW gs \in Seq(Groups), NEW x \in TableRows,
         x.group \notin Range(gs)
  PROVE  Regrouped(Append(q, x), gs) = Regrouped(q, gs)
<1>1. ASSUME NEW i \in DOMAIN gs
      PROVE  Select(Append(q, x), OneGroup(gs[i])) = Select(q, OneGroup(gs[i]))
  <2>1. gs[i] \in Groups /\ gs[i] # x.group
    BY DEF Range
  <2>2. ~ Keeps(OneGroup(gs[i]), x)
    BY <2>1, OneGroupKeeps
  <2> QED
    BY <2>2, SelectAppend
<1>2. [i \in DOMAIN gs |-> Select(Append(q, x), OneGroup(gs[i]))]
        = [i \in DOMAIN gs |-> Select(q, OneGroup(gs[i]))]
  BY <1>1
<1> QED
  BY <1>2 DEF Regrouped

LEMMA GroupOrderAppend ==
  ASSUME NEW q \in Seq(TableRows), NEW x \in TableRows
  PROVE  GroupOrder(Append(q, x)) = IF \A j \in 1 .. Len(q) : q[j].group # x.group
                                    THEN Append(GroupOrder(q), x.group)
                                    ELSE GroupOrder(q)
<1> DEFINE n == Len(q)
           r == Append(q, x)
           Y == Seq(Groups)
           E(s, i) == IF \A j \in 1 .. (i - 1) : s[j].group # s[i].group
                      THEN << s[i].group >> ELSE << >>
           a == [i \in 1 .. n + 1 |-> E(r, i)]
           b == [i \in 1 .. n |-> E(q, i)]
<1>1. /\ n \in Nat /\ DOMAIN q = 1 .. n /\ DOMAIN r = 1 .. n + 1 /\ r[n + 1] = x
      /\ \A i \in 1 .. n : r[i] = q[i] /\ q[i] \in TableRows
      /\ \A i \in 1 .. n + 1 : r[i] \in TableRows
  OBVIOUS
<1>2. GroupOrder(r) = FlattenSeq(a) /\ GroupOrder(q) = FlattenSeq(b)
  BY <1>1 DEF GroupOrder
<1> HIDE DEF r, n
<1>3. ASSUME NEW i \in 1 .. n PROVE E(r, i) = E(q, i)
  <2>1. \A j \in 1 .. (i - 1) : j \in 1 .. n
    BY <1>1
  <2>2. \A j \in 1 .. (i - 1) : r[j] = q[j]
    BY <1>1, <2>1
  <2>3. r[i] = q[i]
    BY <1>1
  <2> QED
    BY <2>2, <2>3
<1>4. E(r, n + 1) = IF \A j \in 1 .. n : q[j].group # x.group THEN << x.group >> ELSE << >>
  <2>1. (n + 1) - 1 = n
    BY <1>1
  <2> QED
    BY <1>1, <2>1
<1>5. /\ \A g \in Groups : << g >> \in Y
      /\ << >> \in Y
  OBVIOUS
<1> HIDE DEF Y
<1>6. /\ \A i \in 1 .. n + 1 : E(r, i) \in Y
      /\ \A i \in 1 .. n : E(q, i) \in Y
  BY <1>1, <1>5, RowDays
<1> DEFINE last == E(r, n + 1)
<1> HIDE DEF E
<1>7. a \in Seq(Y) /\ b \in Seq(Y) /\ Len(a) = n + 1 /\ Len(b) = n
      /\ \A i \in 1 .. n : a[i] = b[i]
  <2>1. \A i \in 1 .. n : i \in 1 .. n + 1
    BY <1>1
  <2>2. a \in Seq(Y) /\ b \in Seq(Y) /\ Len(a) = n + 1 /\ Len(b) = n
    BY <1>1, <1>6
  <2> QED
    BY <1>3, <2>1, <2>2
<1>8. a[n + 1] = last /\ last \in Y
  <2>1. n + 1 \in 1 .. n + 1
    BY <1>1
  <2> QED
    BY <1>6, <2>1
<1> HIDE DEF a, b, last
<1>9. a = Append(b, last)
  BY <1>7, <1>8, AppendOf
<1>10. FlattenSeq(a) = FlattenSeq(b) \o last /\ FlattenSeq(b) \in Y
  BY <1>7, <1>8, <1>9, FlatAppend, FlatType DEF Y
<1>11. x.group \in Groups
  BY RowDays
<1>12. /\ FlattenSeq(b) \o << >> = FlattenSeq(b)
       /\ FlattenSeq(b) \o << x.group >> = Append(FlattenSeq(b), x.group)
  BY <1>10, <1>11 DEF Y
<1> QED
  BY <1>2, <1>4, <1>10, <1>12 DEF last, r, n

\* A frame that is kept group by group is the concatenation of its groups.
LEMMA GroupedSplits ==
  \A q \in Seq(TableRows) :
      Follow(q, RowsByGroup) => Regrouped(q, GroupOrder(q)) = q
<1> DEFINE P(q) == Follow(q, RowsByGroup) =>
                     /\ Regrouped(q, GroupOrder(q)) = q
                     /\ \A g \in Range(GroupOrder(q)) : \E y \in Range(q) : y.group = g
                     /\ q # << >> => \E H \in Seq(Groups) :
                          /\ GroupOrder(q) = Append(H, q[Len(q)].group)
                          /\ \A h \in Range(H) : h < q[Len(q)].group
           S == {q \in Seq(TableRows) : P(q)}
<1>1. << >> \in S
  <2>1. << >> \in Seq(TableRows) /\ Range(<< >>) = {}
    BY DEF Range
  <2>2. GroupOrder(<< >>) = << >>
    <3>1. GroupOrder(<< >>) = FlattenSeq(<< >>)
      BY DEF GroupOrder
    <3> QED
      BY <3>1, FlatEmpty
  <2>3. Regrouped(<< >>, << >>) = << >>
    <3>1. Regrouped(<< >>, << >>) = FlattenSeq(<< >>)
      BY DEF Regrouped
    <3> QED
      BY <3>1, FlatEmpty
  <2> QED
    BY <2>1, <2>2, <2>3
<1>2. \A q \in Seq(TableRows), x \in TableRows : q \in S => Append(q, x) \in S
  <2> SUFFICES ASSUME NEW q \in Seq(TableRows), NEW x \in TableRows, P(q),
                      Follow(Append(q, x), RowsByGroup)
               PROVE  LET r == Append(q, x)
                      IN  /\ r \in Seq(TableRows)
                          /\ Regrouped(r, GroupOrder(r)) = r
                          /\ \A g \in Range(GroupOrder(r)) : \E y \in Range(r) : y.group = g
                          /\ \E H \in Seq(Groups) :
                               /\ GroupOrder(r) = Append(H, r[Len(r)].group)
                               /\ \A h \in Range(H) : h < r[Len(r)].group
    <3>1. \A q \in Seq(TableRows), x \in TableRows : Append(q, x) \in Seq(TableRows)
      OBVIOUS
    <3> QED
      BY <3>1, Zenon
  <2> DEFINE n == Len(q)
             r == Append(q, x)
             g == x.group
             old == GroupOrder(q)
  <2>1. /\ n \in Nat /\ DOMAIN q = 1 .. n /\ DOMAIN r = 1 .. n + 1 /\ r[n + 1] = x
        /\ Len(r) = n + 1 /\ r \in Seq(TableRows)
        /\ \A i \in 1 .. n : r[i] = q[i] /\ q[i] \in TableRows
    OBVIOUS
  <2>2. Follow(r, RowsByGroup)
    OBVIOUS
  <2> HIDE DEF n, r
  <2>3. Follow(q, RowsByGroup)
    <3>1. \A i \in 1 .. n : i \in 1 .. n + 1
      BY <2>1
    <3> QED
      BY <2>1, <2>2, <3>1 DEF Follow
  <2>4. ASSUME NEW i \in 1 .. n PROVE q[i].group <= g /\ q[i].group \in Int /\ g \in Int
    <3>1. i \in 1 .. n + 1 /\ n + 1 \in 1 .. n + 1 /\ i < n + 1
      BY <2>1
    <3>2. << q[i], x >> \in RowsByGroup
      BY <2>1, <2>2, <3>1 DEF Follow
    <3>3. q[i] \in TableRows
      BY <2>1
    <3> QED
      BY <3>2, <3>3, RowPairs
  <2>5. /\ Regrouped(q, old) = q
        /\ \A h \in Range(old) : \E y \in Range(q) : y.group = h
        /\ q # << >> => \E H \in Seq(Groups) :
             old = Append(H, q[n].group) /\ \A h \in Range(H) : h < q[n].group
    BY <2>3 DEF n
  <2>6. old \in Seq(Groups) /\ g \in Groups /\ Range(r) = Range(q) \cup {x}
    BY GroupOrderType, RowDays, RangeJoin DEF r
  <2>7. GroupOrder(r) = IF \A j \in 1 .. n : q[j].group # g THEN Append(old, g) ELSE old
    BY GroupOrderAppend DEF r, n
  <2>8. Keeps(OneGroup(g), x)
    BY <2>6, OneGroupKeeps
  <2> DEFINE B == Select(q, OneGroup(g))
  <2>9. Select(r, OneGroup(g)) = Append(B, x) /\ B \in Seq(TableRows)
    BY <2>8, SelectAppend, SelectType DEF r
  <2>10. \A hs \in Seq(Groups) : Regrouped(q, hs) \in Seq(TableRows)
    BY <2>6, RegroupedAppend
  <2> HIDE DEF g, old, B, P
  <2>11. CASE \A j \in 1 .. n : q[j].group # g
    <3>1. \A y \in Range(q) : y.group # g /\ y.group < g
      <4>1. \A i \in 1 .. n : q[i].group # g /\ q[i].group < g
        BY <2>4, <2>11
      <4> QED
        BY <2>1, <4>1 DEF Range
    <3>2. \A h \in Range(old) : h < g /\ h # g
      BY <2>5, <3>1
    <3>3. B = << >>
      <4>1. Range(B) = {y \in Range(q) : Keeps(OneGroup(g), y)}
        BY SelectRange DEF B
      <4>2. \A y \in Range(q) : y \in TableRows
        BY <2>1 DEF Range
      <4>3. Range(B) = {}
        BY <2>6, <3>1, <4>1, <4>2, OneGroupKeeps
      <4>4. Len(B) = 0
        <5> SUFFICES ASSUME Len(B) # 0 PROVE FALSE
          OBVIOUS
        <5>1. 1 \in DOMAIN B
          BY <2>9
        <5> QED
          BY <4>3, <5>1 DEF Range
      <4> QED
        BY <2>9, <4>4
    <3>4. GroupOrder(r) = Append(old, g)
      BY <2>7, <2>11
    <3>5. Regrouped(r, Append(old, g)) = Regrouped(r, old) \o Select(r, OneGroup(g))
      BY <2>1, <2>6, RegroupedAppend
    <3>6. Regrouped(r, old) = Regrouped(q, old)
      BY <2>6, <3>2, RegroupedSame DEF r, g
    <3>7. Append(B, x) = << x >> /\ q \o << x >> = r
      <4>1. Append(<< >>, x) = << x >> /\ q \o << x >> = Append(q, x)
        OBVIOUS
      <4> QED
        BY <3>3, <4>1 DEF r
    <3>8. Regrouped(r, GroupOrder(r)) = r
      BY <2>5, <2>9, <3>4, <3>5, <3>6, <3>7
    <3>9. Range(Append(old, g)) = Range(old) \cup {g}
      BY <2>6, RangeJoin
    <3>10. \A h \in Range(GroupOrder(r)) : \E y \in Range(r) : y.group = h
      BY <2>5, <2>6, <3>4, <3>9 DEF g
    <3>11. r[Len(r)].group = g
      BY <2>1 DEF g
    <3> QED
      BY <2>1, <2>6, <3>2, <3>4, <3>8, <3>10, <3>11 DEF r
  <2>12. CASE ~ \A j \in 1 .. n : q[j].group # g
    <3>1. PICK j \in 1 .. n : q[j].group = g
      BY <2>12
    <3>2. n \in 1 .. n /\ q # << >>
      <4>1. n \in 1 .. n
        BY <2>1, <3>1
      <4>2. q # << >>
        BY <4>1 DEF n
      <4> QED
        BY <4>1, <4>2
    <3>3. q[n].group = g
      <4>1. j = n \/ j < n
        BY <2>1, <3>1
      <4>2. j < n => << q[j], q[n] >> \in RowsByGroup
        BY <2>1, <2>3, <3>1, <3>2 DEF Follow
      <4>3. q[j] \in TableRows /\ q[n] \in TableRows
        BY <2>1, <3>2
      <4>4. j < n => q[j].group <= q[n].group
        BY <4>2, <4>3, RowPairs
      <4>5. q[n].group <= g /\ q[n].group \in Int /\ g \in Int
        BY <2>4, <3>2
      <4> QED
        BY <3>1, <4>1, <4>4, <4>5
    <3>4. PICK H \in Seq(Groups) : old = Append(H, g) /\ \A h \in Range(H) : h < g
      BY <2>5, <3>2, <3>3
    <3>5. GroupOrder(r) = old
      BY <2>7, <2>12
    <3>6. /\ Regrouped(q, old) = Regrouped(q, H) \o B
          /\ Regrouped(r, old) = Regrouped(r, H) \o Append(B, x)
      <4>1. Regrouped(q, Append(H, g)) = Regrouped(q, H) \o B
        BY <2>6, RegroupedAppend DEF B
      <4>2. Regrouped(r, Append(H, g)) = Regrouped(r, H) \o Select(r, OneGroup(g))
        BY <2>1, <2>6, RegroupedAppend
      <4> QED
        BY <2>9, <3>4, <4>1, <4>2
    <3>7. Regrouped(r, H) = Regrouped(q, H)
      <4>1. g \notin Range(H)
        <5>1. g \in Int
          BY <2>4, <3>1
        <5>2. ~ (g < g)
          BY <5>1
        <5> QED
          BY <3>4, <5>2
      <4> QED
        BY <4>1, RegroupedSame DEF r, g
    <3> DEFINE A == Regrouped(q, H)
    <3>8. A \in Seq(TableRows)
      BY <2>10
    <3> HIDE DEF A
    <3>9. A \o Append(B, x) = Append(A \o B, x)
      BY <2>9, <3>8, AppendToJoin
    <3>10. Regrouped(r, GroupOrder(r)) = r
      BY <2>5, <3>5, <3>6, <3>7, <3>9 DEF A, r
    <3>11. \A h \in Range(GroupOrder(r)) : \E y \in Range(r) : y.group = h
      BY <2>5, <2>6, <3>5
    <3>12. r[Len(r)].group = g
      BY <2>1 DEF g
    <3> QED
      BY <2>1, <3>4, <3>5, <3>10, <3>11, <3>12 DEF r
  <2> QED
    BY <2>11, <2>12
<1>3. \A q \in Seq(TableRows) : q \in S
  <2> HIDE DEF S
  <2> QED
    BY <1>1, <1>2, SeqInduction
<1> QED
  BY <1>3

-----------------------------------------------------------------------------
(* What lies behind the equal prefix of two frames.                         *)

\* Two lists in order of days that have the same rows up to a day differ first
\* behind that day.
LEMMA DifferenceLater ==
  ASSUME NEW b \in Seq(TableRows), NEW c \in Seq(TableRows),
         Follow(b, RowsByDay), Follow(c, RowsByDay), NEW d \in Int,
         \A y \in Range(b) \cup Range(c) : y.day <= d => y \in Range(b) /\ y \in Range(c),
         NEW u \in 1 .. Len(b), \A i \in 1 .. u - 1 : i \in 1 .. Len(c) /\ b[i] = c[i],
         u \in 1 .. Len(c) => b[u] # c[u]
  PROVE  b[u].day > d
<1> DEFINE m == Len(b)
           n == Len(c)
           x == b[u]
           y == c[u]
<1>1. /\ m \in Nat /\ n \in Nat /\ DOMAIN b = 1 .. m /\ DOMAIN c = 1 .. n
      /\ \A i \in 1 .. m : b[i] \in TableRows
      /\ \A i \in 1 .. n : c[i] \in TableRows
      /\ u \in Nat /\ u \in 1 .. m
  OBVIOUS
<1> HIDE DEF m, n
<1>2. \A z \in TableRows : << z, z >> \notin RowsByDay
  BY RowPairs
<1>3. \A v, w \in TableRows : /\ << v, w >> \in RowsByDay => v.day <= w.day
                              /\ ~ (<< v, w >> \in RowsByDay /\ << w, v >> \in RowsByDay)
  <2> SUFFICES ASSUME NEW v \in TableRows, NEW w \in TableRows
               PROVE  /\ << v, w >> \in RowsByDay => v.day <= w.day
                      /\ ~ (<< v, w >> \in RowsByDay /\ << w, v >> \in RowsByDay)
    OBVIOUS
  <2>1. /\ << v, w >> \in RowsByDay <=> v.day < w.day \/ (v.day = w.day /\ v.group < w.group)
        /\ << w, v >> \in RowsByDay <=> w.day < v.day \/ (w.day = v.day /\ w.group < v.group)
        /\ v.group \in Int /\ w.group \in Int /\ v.day \in Int /\ w.day \in Int
    BY RowPairs
  <2> QED
    BY <2>1
<1>0. \A v \in TableRows : v.day \in Int
  BY RowDays
<1>4. /\ \A i, j \in 1 .. m : i < j => << b[i], b[j] >> \in RowsByDay
      /\ \A i, j \in 1 .. n : i < j => << c[i], c[j] >> \in RowsByDay
  BY <1>1 DEF Follow
<1>5. \A i \in 1 .. u - 1 : i \in 1 .. n /\ b[i] = c[i]
  BY DEF n
<1>6. u \in 1 .. n => x # y
  BY DEF n
<1>7. x \in TableRows
  BY <1>1
<1> SUFFICES ASSUME x.day <= d PROVE FALSE
  BY <1>0, <1>7
<1>8. PICK j \in 1 .. n : c[j] = x
  <2>1. x \in Range(b)
    BY <1>1 DEF Range
  <2>2. x \in Range(c)
    BY <2>1
  <2> QED
    BY <1>1, <2>2 DEF Range
<1>9. ~ (j < u)
  <2> SUFFICES ASSUME j < u PROVE FALSE
    OBVIOUS
  <2>1. j \in 1 .. u - 1 /\ j \in 1 .. m
    BY <1>1, <1>8
  <2>2. b[j] = x
    BY <1>5, <1>8, <2>1
  <2> HIDE DEF x
  <2>3. << b[j], b[u] >> \in RowsByDay
    BY <1>1, <1>4, <2>1
  <2> QED
    BY <1>2, <1>7, <2>2, <2>3 DEF x
<1>10. j # u
  BY <1>6, <1>8
<1>11. u < j /\ u \in 1 .. n
  BY <1>1, <1>8, <1>9, <1>10
<1>12. << y, x >> \in RowsByDay /\ y \in TableRows /\ y.day <= x.day
  BY <1>1, <1>3, <1>4, <1>7, <1>8, <1>11
<1>13. PICK i \in 1 .. m : b[i] = y
  <2>1. y.day <= d
    BY <1>0, <1>7, <1>12
  <2>2. y \in Range(c)
    BY <1>1, <1>11 DEF Range
  <2>3. y \in Range(b)
    BY <2>1, <2>2
  <2> QED
    BY <1>1, <2>3 DEF Range
<1>14. ~ (i < u)
  <2> SUFFICES ASSUME i < u PROVE FALSE
    OBVIOUS
  <2>1. i \in 1 .. u - 1 /\ i \in 1 .. n
    BY <1>1, <1>5, <1>13
  <2>2. c[i] = y
    BY <1>5, <1>13, <2>1
  <2> HIDE DEF y
  <2>3. << c[i], c[u] >> \in RowsByDay
    BY <1>4, <1>11, <2>1
  <2> QED
    BY <1>2, <1>12, <2>2, <2>3 DEF y
<1>15. i # u
  BY <1>6, <1>11, <1>13
<1>16. u < i
  BY <1>1, <1>13, <1>14, <1>15
<1>17. << x, y >> \in RowsByDay
  BY <1>1, <1>4, <1>13, <1>16
<1> QED
  BY <1>3, <1>7, <1>12, <1>17

\* Behind the prefix of two frames each row has a changed one on its day or
\* before.
LEMMA TailChanged ==
  ASSUME NEW before \in Seq(TableRows), NEW current \in Seq(TableRows),
         Follow(before, RowsByDay), Follow(current, RowsByDay),
         NEW row \in Range(current), row.day > EqualPrefix(before, current)
  PROVE  \E changed \in (Range(before) \ Range(current)) \cup (Range(current) \ Range(before)) :
            changed.day <= row.day
<1> DEFINE m == Len(before)
           n == Len(current)
           common == IF m < n THEN m ELSE n
           unequal == {i \in 1 .. common : before[i] # current[i]}
           longer == IF m > common THEN before ELSE current
           first == IF unequal # {}
                    THEN Min({before[Min(unequal)].day, current[Min(unequal)].day})
                    ELSE IF m = n THEN TableDays + 1
                    ELSE longer[common + 1].day
           days == {r.day : r \in Range(before)}
           early == {t \in days : t < first}
           p == EqualPrefix(before, current)
           none == before = << >> \/ ~SortedByDay(before) \/ ~SortedByDay(current)
                   \/ ~\E t \in days : t < first
           d == row.day
<1>1. p = IF none THEN 0 ELSE Max(early)
  BY Zenon DEF EqualPrefix
<1>2. /\ m \in Nat /\ n \in Nat /\ common \in Nat /\ common <= m /\ common <= n
      /\ DOMAIN before = 1 .. m /\ DOMAIN current = 1 .. n
      /\ \A i \in 1 .. m : before[i] \in TableRows /\ before[i].day \in Int
      /\ \A i \in 1 .. n : current[i] \in TableRows /\ current[i].day \in Int
      /\ TableDays \in Nat
  BY RowDays, CompositionAssumption
<1>3. d \in Int /\ d <= TableDays /\ d > p
  <2>1. row \in TableRows
    BY <1>2 DEF Range
  <2> QED
    BY <2>1, RowDays
<1>4. /\ \A y \in Range(before) : y.day \in Int
      /\ \A y \in Range(current) : y.day \in Int
  BY <1>2 DEF Range
<1> SUFFICES ASSUME \A y \in Range(before) \cup Range(current) :
                       y.day <= d => y \in Range(before) /\ y \in Range(current)
             PROVE FALSE
  <2> HIDE DEF p
  <2> QED
    BY <1>3, <1>4
<1>5. row \in Range(before) /\ d \in days
  BY <1>3
<1>6. before # << >>
  BY <1>5 DEF Range
<1>7. SortedByDay(before) /\ SortedByDay(current)
  <2>1. /\ \A i, j \in 1 .. m : i < j => << before[i], before[j] >> \in RowsByDay
        /\ \A i, j \in 1 .. n : i < j => << current[i], current[j] >> \in RowsByDay
    BY <1>2 DEF Follow
  <2>2. \A v, w \in TableRows : << v, w >> \in RowsByDay => v.day <= w.day
    BY RowPairs
  <2> HIDE DEF m, n
  <2>3. /\ \A i, j \in 1 .. m : i < j => before[i].day <= before[j].day
        /\ \A i, j \in 1 .. n : i < j => current[i].day <= current[j].day
    BY <1>2, <2>1, <2>2
  <2> QED
    BY <1>2, <2>3 DEF SortedByDay
<1> HIDE DEF m, n
<1>8. ASSUME NEW u \in Nat \ {0}, u - 1 <= m, u - 1 <= n,
             \A i \in 1 .. u - 1 : before[i] = current[i],
             u \in 1 .. m /\ u \in 1 .. n => before[u] # current[u]
      PROVE  /\ u \in 1 .. m => before[u].day > d
             /\ u \in 1 .. n => current[u].day > d
  <2>1. \A i \in 1 .. u - 1 : i \in 1 .. m /\ i \in 1 .. n /\ before[i] = current[i]
    BY <1>2, <1>8
  <2>2. ASSUME u \in 1 .. m PROVE before[u].day > d
    <3> HIDE DEF d
    <3> QED
      BY <1>3, <1>8, <2>1, <2>2, DifferenceLater DEF m, n
  <2>3. ASSUME u \in 1 .. n PROVE current[u].day > d
    <3>1. \A y \in Range(current) \cup Range(before) :
             y.day <= d => y \in Range(current) /\ y \in Range(before)
      OBVIOUS
    <3>2. \A i \in 1 .. u - 1 : i \in 1 .. m /\ current[i] = before[i]
      BY <2>1
    <3>3. u \in 1 .. m => current[u] # before[u]
      BY <1>8, <2>3
    <3> HIDE DEF d
    <3> QED
      BY <1>3, <2>3, <3>1, <3>2, <3>3, DifferenceLater DEF m, n
  <2> QED
    BY <2>2, <2>3
<1>9. d < first
  <2>1. CASE unequal # {}
    <3> DEFINE u == Min(unequal)
    <3>1. u \in unequal /\ \A i \in unequal : u <= i
      <4>1. unequal \in SUBSET (1 .. common) /\ unequal \subseteq Int
        BY <1>2
      <4> HIDE DEF unequal, common
      <4>2. IsFiniteSet(1 .. common)
        BY <1>2, FS_Interval
      <4>3. IsFiniteSet(unequal)
        BY <4>1, <4>2, FS_Subset
      <4> QED
        BY <2>1, <4>1, <4>3, MinMember
    <3> DEFINE x == before[u].day
               y == current[u].day
    <3>2. first = Min({x, y})
      <4> HIDE DEF u, unequal
      <4>1. first = Min({before[Min(unequal)].day, current[Min(unequal)].day})
        BY <2>1
      <4> QED
        BY <4>1 DEF u
    <3> HIDE DEF u
    <3>3. /\ u \in 1 .. m /\ u \in 1 .. n /\ u \in 1 .. common /\ u \in Nat \ {0}
          /\ u - 1 <= m /\ u - 1 <= n /\ before[u] # current[u]
      BY <1>2, <3>1
    <3>4. x \in Int /\ y \in Int
      BY <1>2, <3>3
    <3>5. \A i \in 1 .. u - 1 : before[i] = current[i]
      <4> SUFFICES ASSUME NEW i \in 1 .. u - 1 PROVE before[i] = current[i]
        OBVIOUS
      <4>1. i \in 1 .. common /\ i < u
        BY <1>2, <3>3
      <4>2. i \notin unequal
        BY <3>1, <3>3, <4>1
      <4> QED
        BY <4>1, <4>2
    <3>6. d < x /\ d < y
      BY <1>3, <1>8, <3>3, <3>4, <3>5
    <3> HIDE DEF x, y, first, d
    <3>7. Min({x, y}) \in {x, y}
      <4>1. {x, y} \subseteq Int /\ IsFiniteSet({x, y}) /\ {x, y} # {}
        BY <3>4, PairFinite
      <4> QED
        BY <4>1, MinMember
    <3> QED
      BY <3>2, <3>6, <3>7
  <2>2. CASE unequal = {}
    <3>1. \A i \in 1 .. common : before[i] = current[i]
      BY <2>2
    <3>2. first = IF m = n THEN TableDays + 1 ELSE longer[common + 1].day
      BY <2>2
    <3> HIDE DEF first, unequal
    <3>3. CASE m = n
      BY <1>2, <1>3, <3>2, <3>3
    <3>4. CASE m # n
      <4> DEFINE u == common + 1
      <4>1. /\ u \in Nat \ {0} /\ u - 1 = common /\ u - 1 <= m /\ u - 1 <= n
            /\ ~ (u \in 1 .. m /\ u \in 1 .. n)
            /\ (m > common /\ u \in 1 .. m) \/ (~ (m > common) /\ u \in 1 .. n)
        BY <1>2, <3>4
      <4> HIDE DEF u
      <4>2. \A i \in 1 .. u - 1 : before[i] = current[i]
        BY <3>1, <4>1
      <4>3. /\ u \in 1 .. m => before[u].day > d
            /\ u \in 1 .. n => current[u].day > d
        BY <1>8, <4>1, <4>2
      <4>4. first = longer[u].day
        BY <3>2, <3>4 DEF u
      <4>5. u \in 1 .. m => before[u].day \in Int
        BY <1>2
      <4>6. u \in 1 .. n => current[u].day \in Int
        BY <1>2
      <4> HIDE DEF common, d
      <4> QED
        BY <1>3, <4>1, <4>3, <4>4, <4>5, <4>6
    <3> QED
      BY <3>3, <3>4
  <2> QED
    BY <2>1, <2>2
<1>10. p = Max(early) /\ d \in early
  <2> HIDE DEF first, days, d
  <2> QED
    BY <1>1, <1>5, <1>6, <1>7, <1>9
<1>11. d <= Max(early)
  <2>1. early \in SUBSET Axis
    <3>1. \A r \in Range(before) : r \in TableRows
      BY <1>2 DEF Range
    <3> HIDE DEF first
    <3> QED
      BY <3>1, RowDays
  <2>2. IsFiniteSet(Axis) /\ Axis \subseteq Int
    BY <1>2, FS_Interval DEF Axis
  <2> HIDE DEF early, d
  <2>3. IsFiniteSet(early) /\ early \subseteq Int /\ early # {}
    BY <1>10, <2>1, <2>2, FS_Subset
  <2> QED
    BY <1>10, <2>3, MaxMember
<1>12. p \in Int
  BY EqualPrefixAgrees, <1>2
<1> HIDE DEF p, early, d
<1> QED
  BY <1>3, <1>10, <1>11, <1>12

-----------------------------------------------------------------------------
(* The leaves an update writes.                                             *)

\* The parts of a composition select from leaves its members were made of.
LEMMA ComposeLeaves ==
  ASSUME NEW ps \in Seq(AskedParts), NEW W, Written(ps) \subseteq W
  PROVE  \A i \in DOMAIN ComposeReference(ps) : ComposeReference(ps)[i].leaf \in W
<1> DEFINE X == {p \in CountedParts : p.leaf \in W}
           Y == Seq(X)
           ms == Members(ps)
           n == Len(ps)
<1>1. n \in Nat /\ DOMAIN ps = 1 .. n /\ \A i \in 1 .. n : ps[i] \in AskedParts
  OBVIOUS
<1> HIDE DEF n
<1>2. ASSUME NEW i \in 1 .. n PROVE Narrowed(ps[i]) \in Y
  <2> DEFINE part == ps[i]
             ref == part.ref
             E(j) == Part(ref[j].leaf, Conjoin(FilterOf(ref[j]), part.filter))
             k == Len(ref)
  <2>1. part \in AskedParts
    BY <1>1
  <2>2. ref \in Seq(CountedParts) /\ part.filter \in TableFilters
    BY <2>1 DEF AskedParts
  <2>3. k \in Nat /\ DOMAIN ref = 1 .. k
    BY <2>2
  <2>4. \A j \in 1 .. k : ref[j].leaf \in W
    BY <1>1, <2>3 DEF Written
  <2>5. Narrowed(part) \in Seq(CountedParts)
    BY <2>2, NarrowedReads
  <2> HIDE DEF k
  <2>6. Narrowed(part) = [j \in 1 .. k |-> E(j)]
    BY <2>3 DEF Narrowed
  <2>7. \A j \in 1 .. k : E(j).leaf = ref[j].leaf
    BY DEF Part
  <2> HIDE DEF E, ref
  <2>8. \A j \in 1 .. k : E(j) \in CountedParts
    <3>1. Len([j \in 1 .. k |-> E(j)]) = k /\ \A j \in 1 .. k : [m \in 1 .. k |-> E(m)][j] = E(j)
      BY <2>3, <2>5, <2>6
    <3>2. \A j \in 1 .. k : Narrowed(part)[j] \in CountedParts
      BY <2>3, <2>5, <2>6, <3>1
    <3> QED
      BY <2>6, <3>2
  <2>9. \A j \in 1 .. k : E(j) \in X
    BY <2>4, <2>7, <2>8
  <2> HIDE DEF X
  <2>10. [j \in 1 .. k |-> E(j)] \in Seq(X)
    BY <2>3, <2>9
  <2> QED
    BY <2>6, <2>10
<1> HIDE DEF X
<1>3. ms \in Seq(X)
  <2>1. [i \in 1 .. n |-> Narrowed(ps[i])] \in Seq(Y)
    <3> HIDE DEF Y
    <3> QED
      BY <1>1, <1>2
  <2> QED
    BY <1>1, <2>1, FlatType DEF Members
<1> HIDE DEF ms
<1>4. KeptMembers(ms) \in Seq(X)
  <2> DEFINE k == Len(ms)
             E(i) == IF i = 1 \/ ms[i].rows > 0 THEN << ms[i] >> ELSE << >>
  <2>1. k \in Nat /\ DOMAIN ms = 1 .. k /\ \A i \in 1 .. k : ms[i] \in X
    BY <1>3
  <2>2. \A i \in 1 .. k : E(i) \in Y
    <3>1. << >> \in Y /\ \A x \in X : << x >> \in Y
      OBVIOUS
    <3> QED
      BY <2>1, <3>1
  <2>3. PlacesKept(ms) = [i \in 1 .. k |-> E(i)]
    BY <2>1 DEF PlacesKept
  <2> HIDE DEF E, k, Y
  <2>4. [i \in 1 .. k |-> E(i)] \in Seq(Y)
    BY <2>1, <2>2
  <2> QED
    BY <2>3, <2>4, FlatType DEF KeptMembers, Y
<1>5. ComposeReference(ps) = KeptMembers(ms)
  BY DEF ComposeReference, KeptMembers, Members, PlacesKept, ms
<1>6. \A i \in DOMAIN KeptMembers(ms) : KeptMembers(ms)[i] \in X
  BY <1>4
<1> QED
  BY <1>5, <1>6 DEF X

\* Leaves come from the references of the parts.
LEMMA WrittenOf ==
  ASSUME NEW S, NEW Z, NEW W, \A ref \in S : \A j \in DOMAIN ref : ref[j].leaf \in W,
         NEW ps \in Seq([ref : S, filter : Z])
  PROVE  Written(ps) \subseteq W
<1> DEFINE X == [ref : S, filter : Z]
<1>0. ps \in Seq(X) /\ \A p \in X : p.ref \in S
  OBVIOUS
<1> HIDE DEF X
<1>1. \A i \in DOMAIN ps : ps[i] \in X
  BY <1>0
<1>2. \A i \in DOMAIN ps : ps[i].ref \in S
  BY <1>0, <1>1
<1> QED
  BY <1>2 DEF Written

LEMMA PublishedLeaf ==
  ASSUME NEW rows
  PROVE  \A j \in DOMAIN Published(rows) : Published(rows)[j].leaf = rows
<1>1. Part(rows, Everything).leaf = rows
  BY DEF Part
<1> QED
  BY <1>1 DEF Published

\* The rows of a group that a frame has behind the equal prefix.
TailOf(frame, f) ==
  Select(Select(frame, f), After(EqualPrefix(Select(table, f), Select(frame, f))))

LEMMA GroupWrites ==
  ASSUME table \in Seq(TableRows), NEW frame \in Seq(TableRows), NEW f \in WholeFilters,
         NEW kept \in BOOLEAN, NEW S, reference \in S, Published(TailOf(frame, f)) \in S
  PROVE  GroupParts(frame, f, kept) \in Seq([ref : S, filter : TableFilters])
<1> DEFINE current == Select(frame, f)
           before == Select(table, f)
           b == EqualPrefix(before, current)
           tail == Select(current, After(b))
           g == [f EXCEPT !.to = b]
           retained == << [ref |-> reference, filter |-> g] >>
           written == << [ref |-> Published(tail), filter |-> Everything] >>
           P == IF b > 0 THEN retained ELSE << >>
           Q == IF tail # << >> \/ (b = 0 /\ ~kept) THEN written ELSE << >>
           X == [ref : S, filter : TableFilters]
<1>1. GroupParts(frame, f, kept) = P \o Q
  BY Zenon DEF GroupParts, After
<1>2. current \in Seq(TableRows) /\ before \in Seq(TableRows)
  BY SelectType
<1>3. b \in 0 .. TableDays
  <2> HIDE DEF before, current
  <2> QED
    BY <1>2, EqualPrefixAgrees
<1>4. tail = TailOf(frame, f)
  BY DEF TailOf
<1> HIDE DEF b, current, before, tail
<1>5. b \in Int /\ b <= TableDays
  BY <1>3, CompositionAssumption
<1>6. g \in TableFilters
  BY <1>5, WholeUpTo
<1> HIDE DEF g
<1>7. Everything \in TableFilters
  BY EverythingKeeps DEF WholeFilters
<1>8. [ref |-> reference, filter |-> g] \in X /\ [ref |-> Published(tail), filter |-> Everything] \in X
  BY <1>4, <1>6, <1>7
<1> HIDE DEF X
<1>9. retained \in Seq(X) /\ written \in Seq(X) /\ << >> \in Seq(X)
  BY <1>8
<1> HIDE DEF retained, written
<1>10. P \in Seq(X) /\ Q \in Seq(X)
  BY <1>9
<1> HIDE DEF P, Q
<1>11. P \o Q \in Seq(X)
  BY <1>10
<1> QED
  BY <1>1, <1>11 DEF X

\* A complete frame writes nothing but the tails of its groups.
LEMMA FrameWrites ==
  ASSUME table \in Seq(TableRows), NEW frame \in Seq(TableRows),
         NEW W, \A j \in DOMAIN reference : reference[j].leaf \in W,
         \A k \in DOMAIN Grouping(frame) : TailOf(frame, Grouping(frame)[k]) \in W
  PROVE  Written(ContinueFrame(frame)) \subseteq W
<1> DEFINE fs == Grouping(frame)
           S == {reference} \cup {Published(TailOf(frame, fs[k])) : k \in DOMAIN fs}
           X == [ref : S, filter : TableFilters]
           Y == Seq(X)
           n == Len(fs)
           E(i) == GroupParts(frame, fs[i], i > 1)
<1>1. fs \in Seq(WholeFilters)
  BY GroupingSifts
<1> HIDE DEF fs
<1>2. n \in Nat /\ DOMAIN fs = 1 .. n /\ \A i \in 1 .. n : fs[i] \in WholeFilters
  BY <1>1
<1> HIDE DEF n
<1>3. ASSUME NEW i \in 1 .. n PROVE E(i) \in Y
  <2> DEFINE kept == i > 1
             f == fs[i]
  <2>1. kept \in BOOLEAN /\ f \in WholeFilters
    BY <1>2
  <2>2. reference \in S /\ Published(TailOf(frame, f)) \in S
    BY <1>2
  <2> HIDE DEF kept, f, S
  <2>3. GroupParts(frame, f, kept) \in Seq([ref : S, filter : TableFilters])
    BY <2>1, <2>2, GroupWrites
  <2> QED
    BY <2>3 DEF kept, f
<1> HIDE DEF Y, E, S
<1>4. [i \in 1 .. n |-> E(i)] \in Seq(Y)
  BY <1>2, <1>3
<1>5. ContinueFrame(frame) = FlattenSeq([i \in 1 .. n |-> E(i)])
  BY <1>2, Zenon DEF ContinueFrame, E, fs
<1>6. ContinueFrame(frame) \in Seq(X)
  BY <1>4, <1>5, FlatType DEF Y
<1>7. \A ref \in S : \A j \in DOMAIN ref : ref[j].leaf \in W
  <2>1. \A k \in DOMAIN fs : \A j \in DOMAIN Published(TailOf(frame, fs[k])) :
           Published(TailOf(frame, fs[k]))[j].leaf \in W
    <3>1. \A k \in DOMAIN fs : TailOf(frame, fs[k]) \in W
      BY DEF fs
    <3> QED
      BY <3>1, PublishedLeaf
  <2> QED
    BY <2>1 DEF S
<1> QED
  BY <1>6, <1>7, WrittenOf

LEMMA TailRows ==
  ASSUME table \in Seq(TableRows), NEW frame \in Seq(TableRows), NEW f,
         NEW row \in Range(TailOf(frame, f))
  PROVE  /\ row \in Range(Select(frame, f)) /\ row \in Range(frame) /\ Keeps(f, row)
         /\ row.day > EqualPrefix(Select(table, f), Select(frame, f))
<1> DEFINE current == Select(frame, f)
           b == EqualPrefix(Select(table, f), current)
<1>1. current \in Seq(TableRows) /\ Select(table, f) \in Seq(TableRows)
  BY SelectType
<1>2. Range(current) = {x \in Range(frame) : Keeps(f, x)}
  BY SelectRange
<1>3. row \in Range(Select(current, After(b)))
  BY DEF TailOf
<1> HIDE DEF current
<1>4. b \in Int
  <2>1. b \in 0 .. TableDays
    BY <1>1, EqualPrefixAgrees
  <2> HIDE DEF b
  <2> QED
    BY <2>1, CompositionAssumption
<1> HIDE DEF b
<1>5. row \in Range(current) /\ Keeps(After(b), row)
  BY <1>1, <1>3, SelectRange
<1>6. row \in TableRows
  BY <1>1, <1>5 DEF Range
<1>7. row.day > b
  BY <1>4, <1>5, <1>6, AfterKeeps
<1> QED
  BY <1>2, <1>5, <1>7 DEF b, current

LEMMA DaysSorted ==
  ASSUME NEW q \in Seq(TableRows)
  PROVE  /\ Follow(q, RowsByDay) => SortedByDay(q)
         /\ SortedByDay(q) /\ Follow(q, RowsApart) => Follow(q, RowsByDay)
<1>1. \A i \in DOMAIN q : q[i] \in TableRows
  OBVIOUS
<1>2. ASSUME Follow(q, RowsByDay) PROVE SortedByDay(q)
  <2> SUFFICES ASSUME NEW i \in DOMAIN q, NEW j \in DOMAIN q, i < j
               PROVE  q[i].day <= q[j].day
    BY DEF SortedByDay
  <2>1. << q[i], q[j] >> \in RowsByDay /\ q[i] \in TableRows /\ q[j] \in TableRows
    BY <1>1, <1>2 DEF Follow
  <2> QED
    BY <2>1, RowPairs
<1>3. ASSUME SortedByDay(q), Follow(q, RowsApart) PROVE Follow(q, RowsByDay)
  <2> SUFFICES ASSUME NEW i \in DOMAIN q, NEW j \in DOMAIN q, i < j
               PROVE  << q[i], q[j] >> \in RowsByDay
    BY DEF Follow
  <2>1. /\ << q[i], q[j] >> \in RowsApart /\ q[i].day <= q[j].day
        /\ q[i] \in TableRows /\ q[j] \in TableRows
    BY <1>1, <1>3 DEF Follow, SortedByDay
  <2> QED
    BY <2>1, RowPairs
<1> QED
  BY <1>2, <1>3

\* Rows of one group that are apart are in order of their days.
LEMMA GroupInOrder ==
  ASSUME NEW g \in Groups
  PROVE  \A q \in Seq(TableRows) :
            Follow(q, RowsApart) => Follow(Select(q, OneGroup(g)), RowsByDay)
<1> SUFFICES ASSUME NEW q \in Seq(TableRows), Follow(q, RowsApart)
             PROVE  Follow(Select(q, OneGroup(g)), RowsByDay)
  OBVIOUS
<1> DEFINE s == Select(q, OneGroup(g))
<1>1. s \in Seq(TableRows) /\ Follow(s, RowsApart)
  BY SelectType, SelectFollows
<1>2. Range(s) = {x \in Range(q) : Keeps(OneGroup(g), x)}
  BY SelectRange
<1> HIDE DEF s
<1>3. \A i \in DOMAIN s : s[i] \in TableRows /\ s[i] \in Range(s)
  BY <1>1 DEF Range
<1> SUFFICES ASSUME NEW i \in DOMAIN s, NEW j \in DOMAIN s, i < j
             PROVE  << s[i], s[j] >> \in RowsByDay
  BY DEF Follow, s
<1>4. /\ << s[i], s[j] >> \in RowsApart
      /\ s[i] \in TableRows /\ s[j] \in TableRows
      /\ Keeps(OneGroup(g), s[i]) /\ Keeps(OneGroup(g), s[j])
  BY <1>1, <1>2, <1>3 DEF Follow
<1>5. s[i].group = g /\ s[j].group = g
  BY <1>4, OneGroupKeeps
<1> QED
  BY <1>4, <1>5, RowPairs

\* A frame that is not split into its groups is in order of its days.
LEMMA GroupingShape ==
  ASSUME NEW frame \in Seq(TableRows), frame # << >>,
         Follow(frame, RowsByGroup) \/ Follow(frame, RowsByDay),
         NEW k \in DOMAIN Grouping(frame)
  PROVE  \/ \E g \in Groups : Grouping(frame)[k] = OneGroup(g)
         \/ Grouping(frame)[k] = Everything /\ Follow(frame, RowsByDay)
<1> DEFINE order == GroupOrder(frame)
           split == [i \in DOMAIN order |-> OneGroup(order[i])]
           all == << Everything >>
           whole == FlattenSeq([i \in DOMAIN split |-> Select(frame, split[i])]) = frame
<1>1. Grouping(frame) = IF frame # << >> /\ whole THEN split ELSE all
  BY Zenon DEF Grouping
<1>2. order \in Seq(Groups)
  BY GroupOrderType
<1>3. whole <=> Regrouped(frame, order) = frame
  <2> HIDE DEF order
  <2>1. [i \in DOMAIN split |-> Select(frame, split[i])]
          = [i \in DOMAIN order |-> Select(frame, OneGroup(order[i]))]
    OBVIOUS
  <2> QED
    BY <2>1 DEF Regrouped
<1>4. CASE whole
  <2> HIDE DEF order
  <2>1. Grouping(frame) = split
    <3> HIDE DEF split, whole
    <3> QED
      BY <1>1, <1>4
  <2>2. \A i \in DOMAIN order : order[i] \in Groups
    BY <1>2
  <2> QED
    BY <2>1, <2>2
<1>5. CASE ~ whole
  <2>1. Follow(frame, RowsByDay)
    <3> HIDE DEF whole
    <3> QED
      BY <1>3, <1>5, GroupedSplits
  <2>2. Grouping(frame) = all
    <3> HIDE DEF split, whole, all
    <3> QED
      BY <1>1, <1>5
  <2>3. all[k] = Everything
    BY <2>2
  <2> QED
    BY <2>1, <2>2, <2>3
<1> QED
  BY <1>4, <1>5

\* A selection has a row that another lacks only if its source does.
LEMMA ChangedSource ==
  ASSUME NEW p \in Seq(TableRows), NEW q \in Seq(TableRows), NEW f,
         NEW x \in (Range(Select(p, f)) \ Range(Select(q, f)))
                     \cup (Range(Select(q, f)) \ Range(Select(p, f)))
  PROVE  Keeps(f, x) /\ x \in (Range(p) \ Range(q)) \cup (Range(q) \ Range(p)) /\ x \in TableRows
<1>1. /\ Range(Select(p, f)) = {y \in Range(p) : Keeps(f, y)}
      /\ Range(Select(q, f)) = {y \in Range(q) : Keeps(f, y)}
  BY SelectRange
<1>2. Range(p) \subseteq TableRows /\ Range(q) \subseteq TableRows
  <2>1. /\ \A i \in DOMAIN p : p[i] \in TableRows
        /\ \A i \in DOMAIN q : q[i] \in TableRows
    OBVIOUS
  <2> QED
    BY <2>1 DEF Range
<1> QED
  BY <1>1, <1>2

\* Every row of a written tail has a changed row on its day or before.
LEMMA FrameTailChanged ==
  ASSUME table \in Seq(TableRows), Follow(table, RowsApart),
         NEW frame \in Seq(TableRows), Follow(frame, RowsApart),
         Follow(frame, RowsByGroup) \/ Follow(frame, RowsByDay),
         SortedByDay(frame) => SortedByDay(table),
         NEW k \in DOMAIN Grouping(frame), NEW row \in Range(TailOf(frame, Grouping(frame)[k]))
  PROVE  \E changed \in (Range(table) \ Range(frame)) \cup (Range(frame) \ Range(table)) :
            /\ changed.day <= row.day
            /\ changed.group = row.group \/ SortedByDay(frame)
<1> DEFINE f == Grouping(frame)[k]
           b == Select(table, f)
           c == Select(frame, f)
<1>1. /\ row \in Range(c) /\ row \in Range(frame) /\ Keeps(f, row)
      /\ row.day > EqualPrefix(b, c)
  BY TailRows
<1>2. frame # << >>
  BY <1>1 DEF Range
<1>3. \/ \E g \in Groups : f = OneGroup(g)
      \/ f = Everything /\ Follow(frame, RowsByDay)
  BY <1>2, GroupingShape
<1>4. b \in Seq(TableRows) /\ c \in Seq(TableRows)
  BY SelectType
<1> HIDE DEF f
<1>5. row \in TableRows
  <2> HIDE DEF c
  <2> QED
    BY <1>1, <1>4 DEF Range
<1>6. CASE \E g \in Groups : f = OneGroup(g)
  <2>1. PICK g \in Groups : f = OneGroup(g)
    BY <1>6
  <2>2. Follow(b, RowsByDay) /\ Follow(c, RowsByDay)
    BY <2>1, GroupInOrder
  <2>3. PICK x \in (Range(b) \ Range(c)) \cup (Range(c) \ Range(b)) : x.day <= row.day
    <3> HIDE DEF b, c
    <3> QED
      BY <1>1, <1>4, <2>2, TailChanged
  <2>4. /\ Keeps(f, x) /\ x \in TableRows
        /\ x \in (Range(table) \ Range(frame)) \cup (Range(frame) \ Range(table))
    BY ChangedSource
  <2>5. x.group = g /\ row.group = g
    BY <1>1, <1>5, <2>1, <2>4, OneGroupKeeps
  <2> QED
    BY <2>3, <2>4, <2>5
<1>7. CASE f = Everything /\ Follow(frame, RowsByDay)
  <2>1. SortedByDay(frame) /\ SortedByDay(table)
    BY <1>7, DaysSorted
  <2>2. Follow(table, RowsByDay)
    BY <2>1, DaysSorted
  <2>3. Follow(b, RowsByDay) /\ Follow(c, RowsByDay)
    BY <1>7, <2>2, SelectFollows
  <2>4. PICK x \in (Range(b) \ Range(c)) \cup (Range(c) \ Range(b)) : x.day <= row.day
    <3> HIDE DEF b, c
    <3> QED
      BY <1>1, <1>4, <2>3, TailChanged
  <2>5. x \in (Range(table) \ Range(frame)) \cup (Range(frame) \ Range(table))
    BY ChangedSource
  <2> QED
    BY <2>1, <2>4, <2>5
<1> QED
  BY <1>3, <1>6, <1>7

-----------------------------------------------------------------------------
\* The order of the published rows, their age and where they are stored.
RowsInv ==
  /\ CompositionInv
  /\ Follow(table, RowsApart)
  /\ \A row \in Range(table) : row.revision <= updates
  /\ \A j \in DOMAIN reference : reference[j].leaf \in leaves

\* The frames the callers publish.
LEMMA FrameRows ==
  ASSUME NEW rows, rows \subseteq TableRows, NEW order \in {GroupMajor, DayMajor}
  PROVE  /\ Frame(rows, order) \in Seq(TableRows) /\ Range(Frame(rows, order)) \subseteq rows
         /\ Follow(Frame(rows, order), RowsApart)
         /\ Follow(Frame(rows, order), RowsByGroup) \/ Follow(Frame(rows, order), RowsByDay)
         /\ \A x \in Range(Frame(rows, order)) : CellOf(x) \in Range(order)
<1> DEFINE F == Frame(rows, order)
<1>1. F \in Seq(TableRows)
  BY FrameType
<1>2. order \in Seq(Cells)
  BY GroupMajorOrder, DayMajorOrder
<1>3. \A x \in TableRows, y \in TableRows :
         /\ << CellOf(x), CellOf(y) >> \in CellsByGroup => << x, y >> \in RowsByGroup
         /\ << CellOf(x), CellOf(y) >> \in CellsByDay => << x, y >> \in RowsByDay
         /\ << x, y >> \in RowsByGroup => << x, y >> \in RowsApart
         /\ << x, y >> \in RowsByDay => << x, y >> \in RowsApart
  <2> SUFFICES ASSUME NEW x \in TableRows, NEW y \in TableRows
               PROVE  /\ << CellOf(x), CellOf(y) >> \in CellsByGroup => << x, y >> \in RowsByGroup
                      /\ << CellOf(x), CellOf(y) >> \in CellsByDay => << x, y >> \in RowsByDay
                      /\ << x, y >> \in RowsByGroup => << x, y >> \in RowsApart
                      /\ << x, y >> \in RowsByDay => << x, y >> \in RowsApart
    OBVIOUS
  <2>1. /\ CellOf(x)[1] = x.group /\ CellOf(x)[2] = x.day
        /\ CellOf(y)[1] = y.group /\ CellOf(y)[2] = y.day
    BY DEF CellOf
  <2> DEFINE e == << CellOf(x), CellOf(y) >>
  <2>2. e[1] = CellOf(x) /\ e[2] = CellOf(y)
    OBVIOUS
  <2> HIDE DEF e
  <2>3. /\ e \in CellsByGroup => x.group < y.group \/ (x.group = y.group /\ x.day < y.day)
        /\ e \in CellsByDay => x.day < y.day \/ (x.day = y.day /\ x.group < y.group)
    BY <2>1, <2>2 DEF CellsByGroup, CellsByDay
  <2>4. /\ << x, y >> \in RowsByGroup <=> x.group < y.group \/ (x.group = y.group /\ x.day < y.day)
        /\ << x, y >> \in RowsByDay <=> x.day < y.day \/ (x.day = y.day /\ x.group < y.group)
        /\ << x, y >> \in RowsApart <=> /\ x.day = y.day => x.group < y.group
                                        /\ x.group = y.group => x.day < y.day
        /\ x.group \in Int /\ y.group \in Int /\ x.day \in Int /\ y.day \in Int
    BY RowPairs
  <2>5. /\ << x, y >> \in RowsByGroup => << x, y >> \in RowsApart
        /\ << x, y >> \in RowsByDay => << x, y >> \in RowsApart
    BY <2>4
  <2> QED
    BY <2>3, <2>4, <2>5 DEF e
<1>4. /\ F \in Seq(rows)
      /\ \A x \in Range(F) : CellOf(x) \in Range(order)
      /\ Follow(order, CellsByGroup) => Follow(F, RowsByGroup)
  BY <1>2, <1>3, FrameOrder
<1>5. Follow(order, CellsByDay) => Follow(F, RowsByDay)
  BY <1>2, <1>3, FrameOrder
<1>6. Follow(F, RowsByGroup) \/ Follow(F, RowsByDay)
  <2>1. CASE order = GroupMajor
    BY <1>4, <2>1, GroupMajorOrder
  <2>2. CASE order = DayMajor
    BY <1>5, <2>2, DayMajorOrder
  <2> HIDE DEF F
  <2> QED
    BY <2>1, <2>2
<1> HIDE DEF F
<1>7. \A i \in DOMAIN F : F[i] \in rows /\ F[i] \in TableRows
  BY <1>1, <1>4
<1>8. Range(F) \subseteq rows
  BY <1>7 DEF Range
<1>9. Follow(F, RowsApart)
  BY <1>3, <1>6, <1>7 DEF Follow
<1> QED
  BY <1>1, <1>4, <1>6, <1>8, <1>9 DEF F

LEMMA ComposeStores ==
  ASSUME NEW ps \in Seq(AskedParts), NEW content, Compose(ps, content)
  PROVE  \A j \in DOMAIN reference' : reference'[j].leaf \in leaves'
<1>1. leaves' = leaves \cup Written(ps) /\ reference' = ComposeReference(ps)
  BY DEF Compose
<1>2. Written(ps) \subseteq leaves'
  BY <1>1
<1> QED
  BY <1>1, <1>2, ComposeLeaves

LEMMA RowsInit ==
  CompositionInit => RowsInv
<1> SUFFICES ASSUME CompositionInit PROVE RowsInv
  OBVIOUS
<1>1. CompositionInv
  BY CompositionInitInv
<1>2. PICK days \in 1 .. TableDays :
        /\ \E order \in {GroupMajor, DayMajor} :
             table = Frame({Row(cell, 0) : cell \in Groups \X (1 .. days)}, order)
        /\ reference = Published(table) /\ leaves = {table} /\ updates = 0
  BY DEF CompositionInit
<1>3. PICK order \in {GroupMajor, DayMajor} :
        table = Frame({Row(cell, 0) : cell \in Groups \X (1 .. days)}, order)
  BY <1>2
<1> DEFINE rows == {Row(cell, 0) : cell \in Groups \X (1 .. days)}
<1>4. rows \subseteq TableRows
  BY CompositionAssumption DEF Row, TableRows, Axis
<1>5. \A x \in rows : x.revision = 0
  BY DEF Row
<1> HIDE DEF rows
<1>6. Follow(table, RowsApart) /\ Range(table) \subseteq rows
  BY <1>3, <1>4, FrameRows DEF rows
<1>7. \A row \in Range(table) : row.revision <= updates
  BY <1>2, <1>5, <1>6
<1>8. \A j \in DOMAIN reference : reference[j].leaf \in leaves
  BY <1>2, PublishedLeaf
<1> QED
  BY <1>1, <1>6, <1>7, <1>8 DEF RowsInv

\* What an update may write: WritesOnlyTails of one step.
TailsOnly ==
  (SortedByDay(table') => SortedByDay(table)) =>
    \A leaf \in leaves' \ leaves : \A row \in Range(leaf) :
       \E changed \in (Range(table) \ Range(table')) \cup (Range(table') \ Range(table)) :
          /\ changed.day <= row.day
          /\ changed.group = row.group \/ SortedByDay(table')

LEMMA CompleteRows ==
  ASSUME RowsInv, ContinueComplete
  PROVE  RowsInv' /\ TailsOnly
<1>1. PICK cell \in Cells, revision \in {-1, updates + 1}, order \in {GroupMajor, DayMajor} :
        LET old == {row \in Range(table) : <<row.group, row.day>> # cell}
            new == IF revision = -1 THEN old ELSE old \cup {Row(cell, revision)}
            frame == Frame(new, order)
        IN  /\ frame # table
            /\ Compose(ContinueFrame(frame), frame)
  BY DEF ContinueComplete
<1> DEFINE old == {row \in Range(table) : <<row.group, row.day>> # cell}
           new == IF revision = -1 THEN old ELSE old \cup {Row(cell, revision)}
           frame == Frame(new, order)
<1>2. Compose(ContinueFrame(frame), frame)
  BY <1>1
<1>3. /\ CompositionInv /\ updates \in Nat /\ table \in Seq(TableRows)
      /\ reference \in Seq(CountedParts) /\ ReadReference(reference) = table
  BY DEF RowsInv, CompositionInv
<1>4. CompositionInv'
  BY <1>3, ContinueCompleteInv
<1>5. new \subseteq TableRows /\ \A row \in new : row.revision <= updates + 1
  <2>1. old \subseteq TableRows
    <3>1. \A i \in DOMAIN table : table[i] \in TableRows
      BY <1>3
    <3> QED
      BY <3>1 DEF Range
  <2>2. \A row \in old : row.revision <= updates + 1
    <3>1. \A row \in old : row.revision \in Int /\ row.revision <= updates
      BY <2>1 DEF RowsInv, TableRows
    <3> QED
      BY <1>3, <3>1
  <2>3. Row(cell, revision) \in TableRows /\ Row(cell, revision).revision <= updates + 1
    <3>1. revision \in Int /\ revision <= updates + 1
      BY <1>3
    <3> QED
      BY <3>1 DEF Row, Cells, TableRows
  <2> HIDE DEF old
  <2> QED
    BY <2>1, <2>2, <2>3
<1> HIDE DEF new
<1>6. /\ frame \in Seq(TableRows) /\ Range(frame) \subseteq new
      /\ Follow(frame, RowsApart)
      /\ Follow(frame, RowsByGroup) \/ Follow(frame, RowsByDay)
  BY <1>5, FrameRows
<1> HIDE DEF frame
<1>7. ContinueFrame(frame) \in Seq(AskedParts)
  BY <1>3, <1>6, FrameReads
<1>8. table' = frame /\ updates' = updates + 1 /\ leaves' = leaves \cup Written(ContinueFrame(frame))
  BY <1>2 DEF Compose
<1>9. \A j \in DOMAIN reference' : reference'[j].leaf \in leaves'
  BY <1>2, <1>7, ComposeStores
<1>10. RowsInv'
  <2>1. \A row \in Range(table') : row.revision <= updates'
    BY <1>5, <1>6, <1>8
  <2>2. Follow(table', RowsApart)
    BY <1>6, <1>8
  <2> QED
    BY <1>4, <1>9, <2>1, <2>2 DEF RowsInv, Follow, Range, RowsApart, TableRows
<1>11. TailsOnly
  <2> SUFFICES ASSUME SortedByDay(frame) => SortedByDay(table),
                      NEW leaf \in leaves' \ leaves, NEW row \in Range(leaf)
               PROVE  \E changed \in (Range(table) \ Range(frame)) \cup (Range(frame) \ Range(table)) :
                         /\ changed.day <= row.day
                         /\ changed.group = row.group \/ SortedByDay(frame)
    BY <1>8 DEF TailsOnly
  <2> DEFINE W == leaves \cup {TailOf(frame, Grouping(frame)[k]) : k \in DOMAIN Grouping(frame)}
  <2>1. Written(ContinueFrame(frame)) \subseteq W
    <3>1. \A j \in DOMAIN reference : reference[j].leaf \in W
      BY DEF RowsInv
    <3>2. \A k \in DOMAIN Grouping(frame) : TailOf(frame, Grouping(frame)[k]) \in W
      OBVIOUS
    <3> HIDE DEF W
    <3> QED
      BY <1>3, <1>6, <3>1, <3>2, FrameWrites
  <2>2. PICK k \in DOMAIN Grouping(frame) : leaf = TailOf(frame, Grouping(frame)[k])
    BY <1>8, <2>1
  <2>3. Follow(table, RowsApart)
    BY DEF RowsInv
  <2> QED
    BY <1>3, <1>6, <2>2, <2>3, FrameTailChanged
<1> QED
  BY <1>10, <1>11

LEMMA DeltaRows ==
  ASSUME RowsInv, ContinueDelta
  PROVE  RowsInv' /\ TailsOnly
<1>1. PICK start \in Axis, end \in Axis \cup {TableDays + 1}, cells \in SUBSET Cells :
        /\ end >= start
        /\ \A cell \in cells : cell[2] \in start..end
        /\ Cardinality(cells) <= Cardinality(Groups)
        /\ LET before == [Everything EXCEPT !.to = start - 1]
               after == [Everything EXCEPT !.from = end + 1]
               frame == Frame({Row(c, updates + 1) : c \in cells}, GroupMajor)
               delta == IF frame = <<>> THEN <<>>
                        ELSE << [ref |-> Published(frame), filter |-> Everything] >>
               suffix == IF end > TableDays THEN <<>>
                         ELSE << [ref |-> reference, filter |-> after] >>
           IN  Compose(<< [ref |-> reference, filter |-> before] >> \o delta \o suffix,
                       Select(table, before) \o frame
                           \o (IF end > TableDays THEN <<>> ELSE Select(table, after)))
  BY Zenon DEF ContinueDelta
<1> DEFINE before == UpTo(start - 1)
           after == After(end)
           rows == {Row(c, updates + 1) : c \in cells}
           frame == Frame(rows, GroupMajor)
           delta == IF frame = <<>> THEN <<>>
                    ELSE << [ref |-> Published(frame), filter |-> Everything] >>
           suffix == IF end > TableDays THEN <<>>
                     ELSE << [ref |-> reference, filter |-> after] >>
           prefix == << [ref |-> reference, filter |-> before] >>
           head == Select(table, before)
           tail == IF end > TableDays THEN <<>> ELSE Select(table, after)
<1>2. Compose(prefix \o delta \o suffix, head \o frame \o tail)
  BY <1>1, Zenon DEF UpTo, After
<1>3. /\ CompositionInv /\ updates \in Nat /\ table \in Seq(TableRows)
      /\ reference \in Seq(CountedParts)
  BY DEF RowsInv, CompositionInv
<1>4. CompositionInv'
  BY <1>3, ContinueDeltaInv
<1>5. start \in Int /\ start - 1 \in Int /\ end \in Int /\ end >= start
  BY <1>1, CompositionAssumption DEF Axis
<1>6. /\ before \in TableFilters /\ \A x \in TableRows : Keeps(before, x) <=> x.day <= start - 1
      /\ after \in TableFilters /\ \A x \in TableRows : Keeps(after, x) <=> x.day > end
  BY <1>5, UpToKeeps, AfterKeeps
<1>7. /\ rows \subseteq TableRows
      /\ \A x \in rows : x.revision = updates + 1 /\ x.day >= start /\ x.day <= end
  <2>1. updates + 1 \in Int
    BY <1>3
  <2>2. rows \subseteq TableRows
    BY <2>1 DEF Row, Cells, TableRows
  <2>3. \A c \in cells : c[2] \in start .. end
    BY <1>1
  <2>4. \A c \in cells : /\ Row(c, updates + 1).revision = updates + 1
                         /\ Row(c, updates + 1).day >= start /\ Row(c, updates + 1).day <= end
    BY <1>5, <2>3 DEF Row
  <2> QED
    BY <2>2, <2>4
<1> HIDE DEF rows, before, after
<1>8. /\ frame \in Seq(TableRows) /\ Range(frame) \subseteq rows /\ Follow(frame, RowsApart)
  BY <1>7, FrameRows
<1> HIDE DEF frame
<1>9. /\ head \in Seq(TableRows) /\ Follow(head, RowsApart)
      /\ \A x \in Range(head) : x \in Range(table) /\ x \in TableRows /\ x.day < start
  <2>1. head \in Seq(TableRows) /\ Follow(head, RowsApart)
    BY <1>3, SelectType, SelectFollows DEF RowsInv
  <2>2. Range(head) = {x \in Range(table) : Keeps(before, x)}
    BY <1>3, SelectRange
  <2>3. Range(head) \subseteq TableRows
    <3> HIDE DEF head
    <3>1. \A i \in DOMAIN head : head[i] \in TableRows
      BY <2>1
    <3> QED
      BY <3>1 DEF Range
  <2>4. \A x \in Range(head) : x.day \in Int /\ x.day <= start - 1
    BY <1>6, <2>2, <2>3, RowDays
  <2> QED
    BY <1>5, <2>1, <2>2, <2>3, <2>4
<1>10. /\ tail \in Seq(TableRows) /\ Follow(tail, RowsApart)
       /\ \A x \in Range(tail) : x \in Range(table) /\ x \in TableRows /\ x.day > end
  <2> DEFINE s == Select(table, after)
  <2>1. s \in Seq(TableRows) /\ Follow(s, RowsApart)
    BY <1>3, SelectType, SelectFollows DEF RowsInv
  <2>2. Range(s) = {x \in Range(table) : Keeps(after, x)}
    BY <1>3, SelectRange
  <2> HIDE DEF s
  <2>3. Range(s) \subseteq TableRows
    <3>1. \A i \in DOMAIN s : s[i] \in TableRows
      BY <2>1
    <3> QED
      BY <3>1 DEF Range
  <2>4. \A x \in Range(s) : x \in Range(table) /\ x \in TableRows /\ x.day > end
    BY <1>6, <2>2, <2>3
  <2>5. << >> \in Seq(TableRows) /\ Follow(<< >>, RowsApart) /\ Range(<< >>) = {}
    BY DEF Follow, Range
  <2>6. tail = << >> \/ tail = s
    BY DEF s
  <2> HIDE DEF tail
  <2> QED
    BY <2>1, <2>4, <2>5, <2>6
<1> HIDE DEF head, tail
<1>11. \A x \in Range(frame) : x \in TableRows /\ x.revision = updates + 1
                                /\ start <= x.day /\ x.day <= end
  BY <1>7, <1>8
<1>12. /\ head \o frame \in Seq(TableRows) /\ Follow(head \o frame, RowsApart)
       /\ Range(head \o frame) = Range(head) \cup Range(frame)
  <2>1. \A x \in Range(head), y \in Range(frame) : << x, y >> \in RowsApart
    <3> SUFFICES ASSUME NEW x \in Range(head), NEW y \in Range(frame)
                 PROVE  << x, y >> \in RowsApart
      OBVIOUS
    <3>1. /\ x \in TableRows /\ y \in TableRows /\ x.day < start /\ start <= y.day
      BY <1>9, <1>11
    <3>2. x.day < y.day /\ x.day \in Int /\ y.day \in Int
      BY <1>5, <3>1, RowDays
    <3> QED
      BY <3>1, <3>2, RowPairs
  <2>2. Range(head \o frame) = Range(head) \cup Range(frame)
    <3>1. \A x \in TableRows : Range(head \o frame) = Range(head) \cup Range(frame)
      BY <1>8, <1>9, RangeJoin
    <3>2. CASE TableRows = {}
      <4>1. head = << >> /\ frame = << >>
        BY <1>8, <1>9, <3>2
      <4>2. << >> \o << >> = << >>
        OBVIOUS
      <4> QED
        BY <4>1, <4>2 DEF Range
    <3> QED
      BY <3>1, <3>2
  <2>3. head \o frame \in Seq(TableRows)
    BY <1>8, <1>9
  <2> QED
    BY <1>8, <1>9, <2>1, <2>2, <2>3, FollowJoin
<1> DEFINE front == head \o frame
<1> HIDE DEF front
<1>13. /\ Follow(front \o tail, RowsApart)
       /\ Range(front \o tail) = Range(front) \cup Range(tail)
  <2>0. front \in Seq(TableRows) /\ Follow(front, RowsApart)
    BY <1>12 DEF front
  <2>1. \A x \in Range(front), y \in Range(tail) : << x, y >> \in RowsApart
    <3> SUFFICES ASSUME NEW x \in Range(front), NEW y \in Range(tail)
                 PROVE  << x, y >> \in RowsApart
      OBVIOUS
    <3>1. x \in Range(head) \/ x \in Range(frame)
      BY <1>12 DEF front
    <3>2. /\ x \in TableRows /\ y \in TableRows /\ x.day <= end /\ end < y.day
      <4>1. y \in TableRows /\ y.day > end /\ y.day \in Int
        BY <1>10, RowDays
      <4>2. CASE x \in Range(head)
        <5>1. x \in TableRows /\ x.day < start /\ x.day \in Int
          BY <1>9, <4>2, RowDays
        <5> QED
          BY <1>5, <4>1, <5>1
      <4>3. CASE x \in Range(frame)
        BY <1>5, <1>11, <4>1, <4>3
      <4> QED
        BY <3>1, <4>2, <4>3
    <3>3. x.day < y.day /\ x.day \in Int /\ y.day \in Int
      BY <1>5, <3>2, RowDays
    <3> QED
      BY <3>2, <3>3, RowPairs
  <2>2. Range(front \o tail) = Range(front) \cup Range(tail)
    <3>1. \A x \in TableRows : Range(front \o tail) = Range(front) \cup Range(tail)
      BY <1>10, <2>0, RangeJoin
    <3>2. CASE TableRows = {}
      <4>1. front = << >> /\ tail = << >>
        BY <1>10, <2>0, <3>2
      <4>2. << >> \o << >> = << >>
        OBVIOUS
      <4> QED
        BY <4>1, <4>2 DEF Range
    <3> QED
      BY <3>1, <3>2
  <2> QED
    BY <1>10, <2>0, <2>1, <2>2, FollowJoin
<1> DEFINE S == {reference, Published(frame)}
           X == [ref : S, filter : TableFilters]
<1>14. prefix \o delta \o suffix \in Seq(X)
  <2>0. Everything \in TableFilters
    BY EverythingKeeps DEF WholeFilters
  <2>1. /\ [ref |-> reference, filter |-> before] \in X
        /\ [ref |-> reference, filter |-> after] \in X
        /\ [ref |-> Published(frame), filter |-> Everything] \in X
    BY <1>6, <2>0
  <2> HIDE DEF X
  <2>2. prefix \in Seq(X) /\ delta \in Seq(X) /\ suffix \in Seq(X)
    BY <2>1
  <2> HIDE DEF prefix, delta, suffix
  <2> QED
    BY <2>2
<1>15. prefix \o delta \o suffix \in Seq(AskedParts)
  <2>0. << >> \in Seq(AskedParts)
    OBVIOUS
  <2>1. /\ prefix \in Seq(AskedParts)
        /\ << [ref |-> reference, filter |-> after] >> \in Seq(AskedParts)
    BY <1>3, <1>6, AskedPart
  <2>2. << [ref |-> Published(frame), filter |-> Everything] >> \in Seq(AskedParts)
    BY <1>8, AskedLeaf
  <2>3. delta \in Seq(AskedParts) /\ suffix \in Seq(AskedParts)
    BY <2>0, <2>1, <2>2
  <2> HIDE DEF prefix, delta, suffix
  <2> QED
    BY <2>1, <2>3
<1> DEFINE parts == prefix \o delta \o suffix
           content == front \o tail
<1>16. Compose(parts, content)
  BY <1>2 DEF front
<1> HIDE DEF parts, content, X, prefix, delta, suffix
<1>17. table' = content /\ updates' = updates + 1 /\ leaves' = leaves \cup Written(parts)
  BY <1>16 DEF Compose
<1>18. Range(content) = Range(head) \cup Range(frame) \cup Range(tail) /\ Follow(content, RowsApart)
  BY <1>12, <1>13 DEF front, content
<1>19. \A j \in DOMAIN reference' : reference'[j].leaf \in leaves'
  BY <1>15, <1>16, ComposeStores DEF parts
<1>20. \A x \in Range(table) : x.revision \in Int /\ x.revision <= updates
  <2>1. \A i \in DOMAIN table : table[i] \in TableRows
    BY <1>3
  <2>2. \A x \in TableRows : x.revision \in Int
    BY DEF TableRows
  <2> QED
    BY <2>1, <2>2 DEF RowsInv, Range
<1>21. RowsInv'
  <2>1. \A row \in Range(table') : row.revision <= updates'
    <3> SUFFICES ASSUME NEW row \in Range(content) PROVE row.revision <= updates + 1
      BY <1>17
    <3>1. CASE row \in Range(frame)
      BY <1>3, <1>11, <3>1
    <3>2. CASE row \in Range(head) \/ row \in Range(tail)
      <4>1. row \in Range(table)
        BY <1>9, <1>10, <3>2
      <4> QED
        BY <1>3, <1>20, <4>1
    <3> QED
      BY <1>18, <3>1, <3>2
  <2>2. Follow(table', RowsApart)
    BY <1>17, <1>18
  <2> QED
    BY <1>4, <1>19, <2>1, <2>2 DEF RowsInv, Follow, Range, RowsApart, TableRows
<1>22. TailsOnly
  <2> SUFFICES ASSUME NEW leaf \in leaves' \ leaves, NEW row \in Range(leaf)
               PROVE  \E changed \in (Range(table) \ Range(content)) \cup (Range(content) \ Range(table)) :
                         changed.day <= row.day /\ changed.group = row.group
    BY <1>17 DEF TailsOnly
  <2>1. Written(parts) \subseteq leaves \cup {frame}
    <3> DEFINE W == leaves \cup {frame}
    <3>1. \A ref \in S : \A j \in DOMAIN ref : ref[j].leaf \in W
      BY PublishedLeaf DEF RowsInv
    <3>2. parts \in Seq([ref : S, filter : TableFilters])
      BY <1>14 DEF parts, X
    <3> HIDE DEF W, S
    <3>3. Written(parts) \subseteq W
      BY <3>1, <3>2, WrittenOf
    <3> QED
      BY <3>3 DEF W
  <2>2. leaf = frame
    BY <1>17, <2>1
  <2>3. row \in Range(content) /\ row \notin Range(table)
    <3>1. row.revision = updates + 1
      BY <1>11, <2>2
    <3>2. row \notin Range(table)
      BY <1>3, <1>20, <3>1
    <3> QED
      BY <1>18, <2>2, <3>2
  <2>4. row.day <= row.day
    BY <1>11, <2>2, RowDays
  <2> QED
    BY <2>3, <2>4
<1> QED
  BY <1>21, <1>22

\* After any updates the rows are apart and no newer than their update, and
\* every part of the reference selects from a stored leaf.
THEOREM RowsInvariant == CompositionSpec => []RowsInv
<1>1. RowsInv /\ [CompositionNext]_compositionVars => RowsInv'
  <2> SUFFICES ASSUME RowsInv, [CompositionNext]_compositionVars PROVE RowsInv'
    OBVIOUS
  <2>1. CASE ContinueComplete
    BY <2>1, CompleteRows
  <2>2. CASE ContinueDelta
    BY <2>2, DeltaRows
  <2>3. CASE UNCHANGED compositionVars
    BY <2>3 DEF RowsInv, CompositionInv, compositionVars, ReadReference
  <2> QED
    BY <2>1, <2>2, <2>3 DEF CompositionNext
<1> QED
  BY <1>1, RowsInit, PTL DEF CompositionSpec

\* Hence an update writes only tails: whatever is recomputed or delivered, a row
\* of a new leaf lies on or after a changed day, in its own group when the table
\* is kept group by group (_equal_ordered_prefix, publish_continuation).
THEOREM UpdatesWriteTails == CompositionSpec => WritesOnlyTails
<1>1. RowsInv /\ [CompositionNext]_compositionVars => TailsOnly \/ UNCHANGED compositionVars
  BY CompleteRows, DeltaRows DEF CompositionNext
<1> QED
  BY <1>1, RowsInvariant, PTL DEF CompositionSpec, WritesOnlyTails, TailsOnly
=============================================================================
