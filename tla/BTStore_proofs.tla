--------------------------- MODULE BTStore_proofs ---------------------------
(***************************************************************************)
(* Proofs about BTStore: the types, the inductive invariant behind         *)
(* NoDanglingReceipt, and the step simulation of ReceiptAuthority.         *)
(***************************************************************************)
EXTENDS BTStore, TLAPS

LEMMA NoFilesIsReferences == NoFiles \in References
<1>1. NoFiles \in [{} -> Encoding]
  BY DEF NoFiles
<1>2. QED
  BY <1>1 DEF References

(* What _save_table adds to the references gathered so far. *)
LEMMA ExtendReferences ==
  ASSUME NEW f \in References, NEW t \in Table, NEW r \in Encoding
  PROVE  [u \in DOMAIN f \union {t} |-> IF u = t THEN r ELSE f[u]] \in References
<1>1. PICK S \in SUBSET Table : f \in [S -> Encoding]
  BY DEF References
<1>2. [u \in DOMAIN f \union {t} |-> IF u = t THEN r ELSE f[u]] \in [S \union {t} -> Encoding]
  BY <1>1
<1>3. QED
  BY <1>2 DEF References

LEMMA ReferencesDomain ==
  ASSUME NEW f \in References
  PROVE  DOMAIN f \in SUBSET Table /\ \A t \in DOMAIN f : f[t] \in Encoding
  BY DEF References

(* A registered lookup finds a reference or nothing. *)
LEMMA RegisteredType ==
  ASSUME TypeOK, NEW t \in Table, NEW r \in Registered(t)
  PROVE  r \in Encoding \union {None}
<1>1. CASE index[t] # None
  BY <1>1 DEF Registered, TypeOK, StoreType
<1>2. CASE index[t] = None /\ r # None
  <2>1. PICK e \in Evaluation : chapters[e] # None /\ t \in DOMAIN chapters[e] /\ r = chapters[e][t]
    BY <1>2 DEF Registered, Originals
  <2>2. chapters[e] \in References
    BY <2>1 DEF TypeOK, StoreType
  <2>3. QED
    BY <2>1, <2>2, ReferencesDomain
<1>3. QED
  BY <1>1, <1>2

LEMMA TypeInitial == Init => TypeOK
<1> SUFFICES ASSUME Init
             PROVE  TypeOK
  OBVIOUS
<1>1. StoreType
  BY BTStoreAssumption DEF Init, StoreType
<1>2. ControlType
  BY DEF Init, ControlType, PublisherLabels
<1>3. PublisherType
  BY BTStoreAssumption, NoFilesIsReferences DEF Init, PublisherType, PublisherLabels, Process
<1>4. CleanerType
  BY DEF Init, CleanerType, CleanerLabels, Process
<1>5. ReleaserType
  BY DEF Init, ReleaserType, ReleaserLabels, Process
<1>6. QED
  BY <1>1, <1>2, <1>3, <1>4, <1>5 DEF TypeOK

(***************************************************************************)
(* Type correctness.  First what one process's move does to its own parts  *)
(* of the type invariant, then the parts it leaves alone, then the steps.  *)
(***************************************************************************)
LEMMA MoveControl ==
  ASSUME ControlType, NEW p \in Process, NEW x \in Table \union {None},
         NEW label \in PublisherLabels \union CleanerLabels \union ReleaserLabels,
         Goto(p, label), cur' = [cur EXCEPT ![p] = x],
         label \in {"recheck", "link", "hash", "register", "unlink", "journal"} => x \in Table
  PROVE  ControlType'
  BY DEF ControlType, Goto

LEMMA StayControl ==
  ASSUME ControlType, NEW p \in Process,
         NEW label \in PublisherLabels \union CleanerLabels \union ReleaserLabels,
         Goto(p, label), cur' = cur,
         label \in {"recheck", "link", "hash", "register", "unlink", "journal"} => cur[p] \in Table
  PROVE  ControlType'
  BY DEF ControlType, Goto

LEMMA ReturnType ==
  ASSUME TypeOK, NEW p \in Publisher, NEW label \in {"idle", "registered_missing"},
         Return(p), Goto(p, label)
  PROVE  ControlType' /\ PublisherType'
<1>1. ControlType'
  BY MoveControl DEF TypeOK, Return, Process, PublisherLabels
<1>2. PublisherType'
  BY NoFilesIsReferences, BTStoreAssumption
     DEF TypeOK, ControlType, PublisherType, Return, Goto, Process, PublisherLabels
<1>3. QED
  BY <1>1, <1>2

LEMMA SavedType ==
  ASSUME TypeOK, NEW p \in Publisher, NEW t \in Table, NEW r \in Encoding,
         pc[p] \notin {"idle", "registered_missing"}, Saved(p, t, r)
  PROVE  ControlType' /\ PublisherType'
<1>1. ControlType'
  BY MoveControl DEF TypeOK, Saved, Process, PublisherLabels
<1>2. files' \in [Publisher -> References]
  <2>1. files[p] \in References
    BY DEF TypeOK, PublisherType
  <2>2. [u \in DOMAIN files[p] \union {t} |-> IF u = t THEN r ELSE files[p][u]] \in References
    BY <2>1, ExtendReferences
  <2>3. QED
    BY <2>2 DEF TypeOK, PublisherType, Saved
<1>3. sum' \in [Publisher -> Encoding \union {None}]
  BY DEF TypeOK, PublisherType, Saved
<1>4. \A q \in Publisher :
        /\ pc'[q] \in PublisherLabels
        /\ pc'[q] = "register" => sum'[q] \in Encoding
        /\ pc'[q] \notin {"idle", "registered_missing"} => target'[q] \in Evaluation
  BY DEF TypeOK, ControlType, PublisherType, Saved, Goto, Process, PublisherLabels
<1>5. QED
  BY <1>1, <1>2, <1>3, <1>4 DEF TypeOK, PublisherType, Saved

LEMMA HitType ==
  ASSUME TypeOK, NEW p \in Publisher, NEW t \in Table, NEW r \in Encoding \union {None},
         pc[p] \notin {"idle", "registered_missing"}, RegisteredHit(p, t, r)
  PROVE  ControlType' /\ PublisherType'
<1>1. CASE file[t] # None
  BY <1>1, SavedType DEF RegisteredHit
<1>2. CASE file[t] = None
  BY <1>2, ReturnType DEF RegisteredHit
<1>3. QED
  BY <1>1, <1>2

(* Only a publisher's program counter concerns the publishers' locals. *)
LEMMA PublisherFrame ==
  ASSUME TypeOK, UNCHANGED publication, \A p \in Publisher : pc'[p] = pc[p]
  PROVE  PublisherType'
  BY DEF TypeOK, PublisherType, publication

LEMMA CleanerFrame ==
  ASSUME TypeOK, UNCHANGED cleaning, \A c \in Cleaner : pc'[c] = pc[c]
  PROVE  CleanerType'
  BY DEF TypeOK, CleanerType, cleaning

LEMMA ReleaserFrame ==
  ASSUME TypeOK, UNCHANGED releasing, \A r \in Releaser : pc'[r] = pc[r]
  PROVE  ReleaserType'
  BY DEF TypeOK, ReleaserType, releasing

LEMMA StoreFrame ==
  ASSUME TypeOK, UNCHANGED <<file, database, writer, bounds>>
  PROVE  StoreType'
  BY DEF TypeOK, StoreType, database, bounds

LEMMA PublisherTypeStep ==
  ASSUME TypeOK, NEW p \in Publisher, PublisherStep(p)
  PROVE  TypeOK'
<1> USE BTStoreAssumption
<1> p \in Process /\ cur \in [Process -> Table \union {None}]
  BY DEF Process, TypeOK, ControlType
<1> DEFINE Locals == ControlType' /\ PublisherType'
<1>1. ASSUME NEW t \in Table, Resolve(p, t)
      PROVE  StoreType' /\ Locals
  <2>1. PICK r \in IF known[p][t] # None THEN {known[p][t]} ELSE Registered(t) :
           \/ RegisteredHit(p, t, r)
           \/ /\ r = None
              /\ cur' = [cur EXCEPT ![p] = t]
              /\ Goto(p, IF file[t] = None THEN "link" ELSE "recheck")
              /\ UNCHANGED publication
    BY <1>1 DEF Resolve
  <2>2. r \in Encoding \union {None}
    BY <2>1, RegisteredType DEF TypeOK, PublisherType
  <2>3. pc[p] = "saving" /\ StoreType'
    BY <1>1, StoreFrame DEF Resolve
  <2>4. CASE RegisteredHit(p, t, r)
    BY <2>2, <2>3, <2>4, HitType
  <2>5. CASE cur' = [cur EXCEPT ![p] = t] /\ UNCHANGED publication
             /\ Goto(p, IF file[t] = None THEN "link" ELSE "recheck")
    <3>1. ControlType'
      BY <2>5, MoveControl DEF TypeOK, PublisherLabels
    <3>2. PublisherType'
      BY <2>3, <2>5 DEF TypeOK, ControlType, PublisherType, publication, Goto, PublisherLabels
    <3>3. QED
      BY <2>3, <3>1, <3>2
  <2>6. QED
    BY <2>1, <2>4, <2>5
<1>2. ASSUME Recheck(p)
      PROVE  StoreType' /\ Locals
  <2>1. pc[p] = "recheck" /\ cur[p] \in Table /\ StoreType'
    BY <1>2, StoreFrame DEF Recheck, TypeOK, ControlType
  <2>2. PICK r \in Registered(cur[p]) :
           \/ RegisteredHit(p, cur[p], r)
           \/ /\ r = None
              /\ Goto(p, IF file[cur[p]] = None THEN "link" ELSE "hash")
              /\ UNCHANGED <<cur, publication>>
    BY <1>2 DEF Recheck
  <2>3. CASE RegisteredHit(p, cur[p], r)
    BY <2>1, <2>2, <2>3, RegisteredType, HitType
  <2>4. CASE Goto(p, IF file[cur[p]] = None THEN "link" ELSE "hash") /\ UNCHANGED <<cur, publication>>
    <3>1. ControlType'
      BY <2>1, <2>4, StayControl DEF TypeOK, PublisherLabels
    <3>2. PublisherType'
      BY <2>1, <2>4 DEF TypeOK, ControlType, PublisherType, publication, Goto, PublisherLabels
    <3>3. QED
      BY <2>1, <3>1, <3>2
  <2>5. QED
    BY <2>2, <2>3, <2>4
<1>3. ASSUME Link(p)
      PROVE  StoreType' /\ Locals
  <2>1. pc[p] = "link" /\ cur[p] \in Table
    BY <1>3 DEF Link, TypeOK, ControlType
  <2>2. ControlType'
    BY <1>3, <2>1, StayControl DEF TypeOK, PublisherLabels, Link
  <2>3. PublisherType'
    BY <1>3, <2>1 DEF TypeOK, ControlType, PublisherType, publication, Link, Goto, PublisherLabels
  <2>4. StoreType'
    <3>1. PICK e \in Encoding : file' = [file EXCEPT ![cur[p]] = [enc |-> e, by |-> serial[p]]]
      BY <1>3 DEF Link
    <3>2. [enc |-> e, by |-> serial[p]] \in Artifact
      BY DEF Artifact, TypeOK, PublisherType
    <3>3. QED
      BY <1>3, <3>1, <3>2 DEF TypeOK, StoreType, Link, database, bounds
  <2>5. QED
    BY <2>2, <2>3, <2>4
<1>4. ASSUME LinkExists(p)
      PROVE  StoreType' /\ Locals
  <2>1. pc[p] = "link" /\ cur[p] \in Table /\ StoreType'
    BY <1>4, StoreFrame DEF LinkExists, TypeOK, ControlType
  <2>2. PICK r \in Registered(cur[p]) :
           \/ r # None /\ Saved(p, cur[p], r)
           \/ r = None /\ Goto(p, "hash") /\ UNCHANGED <<cur, publication>>
    BY <1>4 DEF LinkExists
  <2>3. CASE r # None /\ Saved(p, cur[p], r)
    BY <2>1, <2>2, <2>3, RegisteredType, SavedType
  <2>4. CASE Goto(p, "hash") /\ UNCHANGED <<cur, publication>>
    <3>1. ControlType'
      BY <2>1, <2>4, StayControl DEF TypeOK, PublisherLabels
    <3>2. PublisherType'
      BY <2>1, <2>4 DEF TypeOK, ControlType, PublisherType, publication, Goto, PublisherLabels
    <3>3. QED
      BY <2>1, <3>1, <3>2
  <2>5. QED
    BY <2>2, <2>3, <2>4
<1>5. ASSUME Hash(p)
      PROVE  StoreType' /\ Locals
  <2>1. pc[p] = "hash" /\ cur[p] \in Table
    BY <1>5 DEF Hash, TypeOK, ControlType
  <2>2. CASE file[cur[p]] # None
    <3>1. file[cur[p]].enc \in Encoding
      BY <2>1, <2>2 DEF TypeOK, StoreType, Artifact
    <3>2. ControlType'
      BY <1>5, <2>1, <2>2, StayControl DEF TypeOK, PublisherLabels, Hash
    <3>3. PublisherType'
      <4>1. /\ sum' = [sum EXCEPT ![p] = file[cur[p]].enc]
            /\ Goto(p, "register")
            /\ UNCHANGED <<target, request, known, files, serial>>
        BY <1>5, <2>2 DEF Hash
      <4>2. QED
        BY <2>1, <3>1, <4>1 DEF TypeOK, ControlType, PublisherType, Goto, PublisherLabels
    <3>4. QED
      BY <1>5, <3>2, <3>3, StoreFrame DEF Hash
  <2>3. CASE file[cur[p]] = None
    BY <1>5, <2>3, ReturnType, StoreFrame DEF Hash
  <2>4. QED
    BY <2>2, <2>3
<1>6. ASSUME Register(p)
      PROVE  StoreType' /\ Locals
  <2>1. pc[p] = "register" /\ cur[p] \in Table /\ sum[p] \in Encoding
    BY <1>6 DEF Register, TypeOK, ControlType, PublisherType
  <2>2. Locals
    BY <1>6, <2>1, SavedType DEF Register
  <2>3. StoreType'
    BY <1>6, <2>1 DEF Register, TypeOK, StoreType, bounds
  <2>4. QED
    BY <2>2, <2>3
<1>7. ASSUME Fence(p)
      PROVE  StoreType' /\ Locals
  <2>1. pc[p] = "saving"
    BY <1>7 DEF FilesPresent, Fence
  <2>2. CASE FilesPresent(p)
    <3>1. Goto(p, "insert") /\ UNCHANGED <<cur, publication>> /\ writer' = p
      BY <1>7, <2>2 DEF FilesPresent, Fence
    <3>2. ControlType'
      BY <3>1, StayControl DEF TypeOK, PublisherLabels
    <3>3. PublisherType'
      BY <2>1, <3>1 DEF TypeOK, ControlType, PublisherType, publication, Goto, PublisherLabels
    <3>4. StoreType'
      BY <1>7, <3>1 DEF FilesPresent, Fence, TypeOK, StoreType, database, bounds
    <3>5. QED
      BY <3>2, <3>3, <3>4
  <2>3. CASE ~ FilesPresent(p)
    BY <1>7, <2>3, ReturnType, StoreFrame DEF FilesPresent, Fence
  <2>4. QED
    BY <2>2, <2>3
<1>8. ASSUME Insert(p)
      PROVE  StoreType' /\ Locals
  <2>1. target[p] \in Evaluation /\ files[p] \in References
    BY <1>8 DEF Insert, TypeOK, PublisherType
  <2>2. StoreType'
    BY <1>8, <2>1 DEF Insert, TypeOK, StoreType, bounds
  <2>3. QED
    BY <1>8, <2>2, ReturnType DEF Insert
<1>9. ASSUME Acknowledge(p)
      PROVE  StoreType' /\ Locals
  <2>1. ControlType'
    BY <1>9, StayControl DEF Acknowledge, TypeOK, PublisherLabels
  <2>2. PublisherType'
    BY <1>9 DEF TypeOK, ControlType, PublisherType, publication, Acknowledge, Goto, PublisherLabels
  <2>3. QED
    BY <1>9, <2>1, <2>2, StoreFrame DEF Acknowledge
<1>10. StoreType' /\ Locals
  BY <1>1, <1>2, <1>3, <1>4, <1>5, <1>6, <1>7, <1>8, <1>9 DEF PublisherStep
<1>11. \A q \in Process \ {p} : pc'[q] = pc[q]
  BY DEF PublisherStep, TypeOK, ControlType, Resolve, RegisteredHit, Saved, Recheck, Link,
         LinkExists, Hash, Register, Fence, Insert, Acknowledge, Goto
<1>12. UNCHANGED <<cleaning, releasing>>
  BY DEF PublisherStep, Resolve, Recheck, Link, LinkExists, Hash, Register, Fence, Insert, Acknowledge
<1>13. CleanerType' /\ ReleaserType'
  BY <1>11, <1>12, CleanerFrame, ReleaserFrame DEF Process
<1>14. QED
  BY <1>10, <1>13 DEF TypeOK

LEMMA CleanerTypeStep ==
  ASSUME TypeOK, NEW c \in Cleaner,
         CleanerStep(c) \/ \E scope \in SUBSET Table : PlanCleanup(c, scope)
  PROVE  TypeOK'
<1> USE BTStoreAssumption
<1> c \in Process /\ cur \in [Process -> Table \union {None}]
  BY DEF Process, TypeOK, ControlType
<1> DEFINE Locals == ControlType' /\ CleanerType'
<1>1. ASSUME NEW scope \in SUBSET Table, PlanCleanup(c, scope)
      PROVE  StoreType' /\ Locals
  <2>1. CleanupPlan(scope) \in CleanupPlans
    <3> DEFINE orphans == (scope \intersect Present) \ Retained
    <3>1. orphans \in SUBSET Table /\ Retained \in SUBSET Table
      BY DEF Retained, Named
    <3>2. \A t \in orphans : file[t] \in Artifact
      BY DEF Present, TypeOK, StoreType
    <3>3. [t \in orphans |-> file[t]] \in [orphans -> Artifact]
      BY <3>2
    <3>4. QED
      BY <3>1, <3>3 DEF CleanupPlan, CleanupPlans
  <2>2. CleanerType'
    BY <1>1, <2>1 DEF PlanCleanup, TypeOK, CleanerType
  <2>3. ControlType'
    BY <1>1 DEF PlanCleanup, TypeOK, ControlType
  <2>4. QED
    BY <1>1, <2>2, <2>3, StoreFrame DEF PlanCleanup
<1>2. ASSUME AdmitCleanup(c)
      PROVE  StoreType' /\ Locals
  <2>1. StoreType' /\ pc[c] = "idle" /\ cleanup[c] # None
    BY <1>2, StoreFrame DEF AdmitCleanup
  <2>2. CASE done[c] = None /\ done' = [done EXCEPT ![c] = {}] /\ Goto(c, "cleaning") /\ UNCHANGED cleanup
    <3>1. ControlType'
      BY <1>2, <2>2, StayControl DEF AdmitCleanup, TypeOK, CleanerLabels
    <3>2. CleanerType'
      BY <2>1, <2>2 DEF TypeOK, ControlType, CleanerType, Goto, CleanerLabels
    <3>3. QED
      BY <2>1, <3>1, <3>2
  <2>3. CASE done[c] = None /\ cleanup' = [cleanup EXCEPT ![c] = None] /\ UNCHANGED <<pc, done>>
    BY <1>2, <2>1, <2>3 DEF AdmitCleanup, TypeOK, ControlType, CleanerType
  <2>4. CASE done[c] # None /\ Goto(c, "cleaning") /\ UNCHANGED cleaning
    <3>1. ControlType'
      BY <1>2, <2>4, StayControl DEF AdmitCleanup, TypeOK, CleanerLabels
    <3>2. CleanerType'
      BY <2>1, <2>4 DEF TypeOK, ControlType, CleanerType, Goto, CleanerLabels, cleaning
    <3>3. QED
      BY <2>1, <3>1, <3>2
  <2>5. QED
    BY <1>2, <2>2, <2>3, <2>4 DEF AdmitCleanup
<1>3. ASSUME NEW t \in Table, OpenCandidate(c, t)
      PROVE  StoreType' /\ Locals
  <2>1. pc[c] = "cleaning" /\ done[c] # None /\ cleanup[c] # None
    BY <1>3 DEF Unreferenced, SameFile, OpenCandidate, TypeOK, CleanerType
  <2>2. CASE /\ writer' = c
             /\ cur' = [cur EXCEPT ![c] = t]
             /\ Goto(c, IF file[t] = None THEN "journal" ELSE "unlink")
             /\ UNCHANGED cleaning
    <3>1. ControlType'
      BY <2>2, MoveControl DEF TypeOK, CleanerLabels
    <3>2. CleanerType'
      BY <2>1, <2>2 DEF TypeOK, ControlType, CleanerType, Goto, CleanerLabels, cleaning
    <3>3. StoreType'
      BY <1>3, <2>2 DEF Unreferenced, SameFile, OpenCandidate, TypeOK, StoreType, database, bounds
    <3>4. QED
      BY <3>1, <3>2, <3>3
  <2>3. CASE DropCleanup(c) /\ UNCHANGED <<writer, cur>>
    <3>1. ControlType'
      BY <2>3, StayControl DEF TypeOK, CleanerLabels, DropCleanup
    <3>2. CleanerType'
      BY <2>3 DEF TypeOK, ControlType, CleanerType, Goto, CleanerLabels, DropCleanup
    <3>3. QED
      BY <1>3, <2>3, <3>1, <3>2, StoreFrame DEF Unreferenced, SameFile, OpenCandidate
  <2>4. QED
    BY <1>3, <2>2, <2>3 DEF Unreferenced, SameFile, OpenCandidate
<1>4. ASSUME UnlinkCandidate(c)
      PROVE  StoreType' /\ Locals
  <2>1. ControlType'
    BY <1>4, StayControl DEF UnlinkCandidate, TypeOK, ControlType, CleanerLabels
  <2>2. CleanerType'
    BY <1>4 DEF UnlinkCandidate, TypeOK, ControlType, CleanerType, Goto, CleanerLabels, cleaning
  <2>3. StoreType'
    BY <1>4 DEF UnlinkCandidate, TypeOK, StoreType, database, bounds
  <2>4. QED
    BY <2>1, <2>2, <2>3
<1>5. ASSUME JournalCandidate(c)
      PROVE  StoreType' /\ Locals
  <2>1. cur[c] \in Table /\ done[c] \in SUBSET Table /\ cleanup[c] # None
    BY <1>5 DEF JournalCandidate, TypeOK, ControlType, CleanerType
  <2>2. ControlType'
    BY <1>5, MoveControl DEF JournalCandidate, TypeOK, CleanerLabels
  <2>3. CleanerType'
    BY <1>5, <2>1 DEF JournalCandidate, TypeOK, ControlType, CleanerType, Goto, CleanerLabels
  <2>4. StoreType'
    BY <1>5 DEF JournalCandidate, TypeOK, StoreType, bounds
  <2>5. QED
    BY <2>2, <2>3, <2>4
<1>6. ASSUME FinishCleanup(c)
      PROVE  StoreType' /\ Locals
  <2>1. ControlType'
    BY <1>6, StayControl DEF FinishCleanup, DropCleanup, TypeOK, CleanerLabels
  <2>2. CleanerType'
    BY <1>6 DEF FinishCleanup, TypeOK, ControlType, CleanerType, Goto, CleanerLabels, DropCleanup
  <2>3. QED
    BY <1>6, <2>1, <2>2, StoreFrame DEF FinishCleanup
<1>7. StoreType' /\ Locals
  BY <1>1, <1>2, <1>3, <1>4, <1>5, <1>6 DEF CleanerStep
<1>8. (\A q \in Process \ {c} : pc'[q] = pc[q]) /\ UNCHANGED <<publication, releasing>>
  BY DEF CleanerStep, TypeOK, ControlType, PlanCleanup, AdmitCleanup, Unreferenced, SameFile, OpenCandidate, DropCleanup,
         UnlinkCandidate, JournalCandidate, FinishCleanup, Goto
<1>9. PublisherType' /\ ReleaserType'
  BY <1>8, PublisherFrame, ReleaserFrame DEF Process
<1>10. QED
  BY <1>7, <1>9 DEF TypeOK

(* A release plan's references are those of committed chapters. *)
LEMMA ReleasePlanType ==
  ASSUME TypeOK, NEW es \in SUBSET Evaluation
  PROVE  ReleasePlan(es) \in ReleasePlans
<1> DEFINE tables == Named(es) \ Named(Evaluation \ es)
<1>1. ASSUME NEW t \in tables
      PROVE  RetiredReference(es, t) \in Encoding
  <2>1. PICK e \in es : chapters[e] # None /\ t \in DOMAIN chapters[e]
    BY DEF Named
  <2>2. chapters[e] \in References
    BY <2>1 DEF TypeOK, StoreType
  <2>3. chapters[e][t] \in Encoding
    BY <2>1, <2>2, ReferencesDomain
  <2>4. QED
    BY <2>1, <2>3 DEF RetiredReference
<1>2. tables \in SUBSET Table
  BY DEF Named
<1>3. [t \in tables \intersect Present |-> RetiredReference(es, t)] \in [tables \intersect Present -> Encoding]
  BY <1>1
<1>4. [t \in tables \intersect Present |-> RetiredReference(es, t)] \in References
  BY <1>2, <1>3 DEF References
<1>5. <<evals, chapters>> \in (SUBSET Evaluation) \X [Evaluation -> References \union {None}]
  BY DEF TypeOK, StoreType
<1>6. QED
  BY <1>2, <1>4, <1>5 DEF ReleasePlan, ReleasePlans

LEMMA ReleaserTypeStep ==
  ASSUME TypeOK, NEW r \in Releaser,
         ReleaserStep(r) \/ \E es \in SUBSET Evaluation : PlanRelease(r, es)
  PROVE  TypeOK'
<1> USE BTStoreAssumption
<1> r \in Process /\ cur \in [Process -> Table \union {None}]
  BY DEF Process, TypeOK, ControlType
<1> DEFINE Locals == ControlType' /\ ReleaserType'
<1>1. ASSUME NEW es \in SUBSET Evaluation, PlanRelease(r, es)
      PROVE  StoreType' /\ Locals
  <2>1. ReleasePlan(es) \in ReleasePlans
    BY ReleasePlanType
  <2>2. ReleaserType'
    BY <1>1, <2>1 DEF PlanRelease, TypeOK, ReleaserType
  <2>3. ControlType'
    BY <1>1 DEF PlanRelease, TypeOK, ControlType
  <2>4. QED
    BY <1>1, <2>2, <2>3, StoreFrame DEF PlanRelease
<1>2. ASSUME Retire(r)
      PROVE  StoreType' /\ Locals
  <2>1. release[r] \in ReleasePlans /\ ~ pending[r] /\ release[r] # None
    BY <1>2 DEF PlanCurrent, Retire, TypeOK, ReleaserType
  <2>2. CASE release[r] = ReleasePlan(release[r].evaluations)
    <3>1. /\ pending' = [pending EXCEPT ![r] = TRUE]
          /\ Goto(r, "release")
          /\ UNCHANGED <<release, keep, left, cur>>
      BY <1>2, <2>2 DEF PlanCurrent, Retire
    <3>2. ControlType'
      BY <3>1, StayControl DEF TypeOK, ReleaserLabels
    <3>3. ReleaserType'
      BY <2>1, <3>1 DEF TypeOK, ControlType, ReleaserType, Goto, ReleaserLabels
    <3>4. StoreType'
      <4>1. /\ evals' = evals \ release[r].evaluations
            /\ chapters' = [e \in Evaluation |->
                              IF e \in release[r].evaluations THEN None ELSE chapters[e]]
            /\ index' = [t \in Table |-> IF t \in release[r].tables THEN None ELSE index[t]]
            /\ UNCHANGED <<file, writer, bounds>>
        BY <1>2, <2>2 DEF PlanCurrent, Retire
      <4>2. chapters' \in [Evaluation -> References \union {None}]
        BY <4>1 DEF TypeOK, StoreType
      <4>3. index' \in [Table -> Encoding \union {None}] /\ evals' \in SUBSET Evaluation
        BY <4>1 DEF TypeOK, StoreType
      <4>4. QED
        BY <4>1, <4>2, <4>3 DEF TypeOK, StoreType, bounds
    <3>5. QED
      BY <3>2, <3>3, <3>4
  <2>3. CASE release[r] # ReleasePlan(release[r].evaluations)
    <3>1. release' = [release EXCEPT ![r] = None] /\ UNCHANGED <<pc, pending, database, keep, left, cur>>
      BY <1>2, <2>3 DEF PlanCurrent, Retire
    <3>2. ControlType' /\ ReleaserType'
      BY <1>2, <2>1, <3>1 DEF PlanCurrent, Retire, TypeOK, ControlType, ReleaserType
    <3>3. QED
      BY <1>2, <3>1, <3>2, StoreFrame DEF PlanCurrent, Retire
  <2>4. QED
    BY <2>2, <2>3
<1>3. ASSUME ResumeRelease(r)
      PROVE  StoreType' /\ Locals
  <2>1. ControlType'
    BY <1>3, StayControl DEF ResumeRelease, TypeOK, ReleaserLabels
  <2>2. ReleaserType'
    BY <1>3 DEF ResumeRelease, TypeOK, ControlType, ReleaserType, Goto, ReleaserLabels, releasing
  <2>3. QED
    BY <1>3, <2>1, <2>2, StoreFrame DEF ResumeRelease
<1>4. ASSUME OpenRelease(r)
      PROVE  StoreType' /\ Locals
  <2>1. pending[r] /\ release[r] \in ReleasePlans
    BY <1>4 DEF KeptTables, RegisteredTables, OpenRelease, TypeOK, ReleaserType
  <2>2. DOMAIN release[r].files \in SUBSET Table
    BY <2>1, ReferencesDomain DEF ReleasePlans
  <2>3. Retained \union {t \in Table : index[t] # None} \in SUBSET Table
    BY DEF Retained, Named
  <2>4. ControlType'
    BY <1>4, StayControl DEF KeptTables, RegisteredTables, OpenRelease, TypeOK, ReleaserLabels
  <2>5. ReleaserType'
    BY <1>4, <2>1, <2>2, <2>3 DEF KeptTables, RegisteredTables, OpenRelease, TypeOK, ControlType, ReleaserType, Goto, ReleaserLabels
  <2>6. StoreType'
    BY <1>4 DEF KeptTables, RegisteredTables, OpenRelease, TypeOK, StoreType, database, bounds
  <2>7. QED
    BY <2>4, <2>5, <2>6
<1>5. ASSUME NEW t \in Table, ReleaseFile(r, t)
      PROVE  StoreType' /\ Locals
  <2>1. ControlType'
    BY <1>5 DEF ReleaseFile, TypeOK, ControlType
  <2>2. ReleaserType'
    BY <1>5 DEF ReleaseFile, TypeOK, ReleaserType
  <2>3. file' = file \/ file' = [file EXCEPT ![t] = None]
    BY <1>5 DEF ReleaseFile
  <2>4. StoreType'
    BY <1>5, <2>3 DEF ReleaseFile, TypeOK, StoreType, database, bounds
  <2>5. QED
    BY <2>1, <2>2, <2>4
<1>6. ASSUME NEW t \in Table, RefuseFile(r, t)
      PROVE  StoreType' /\ Locals
  <2>1. ControlType'
    BY <1>6, StayControl DEF RefuseFile, TypeOK, ReleaserLabels
  <2>2. ReleaserType'
    BY <1>6 DEF RefuseFile, TypeOK, ControlType, ReleaserType, Goto, ReleaserLabels
  <2>3. StoreType'
    BY <1>6 DEF RefuseFile, TypeOK, StoreType, database, bounds
  <2>4. QED
    BY <2>1, <2>2, <2>3
<1>7. ASSUME CommitRelease(r)
      PROVE  StoreType' /\ Locals
  <2>1. ControlType'
    BY <1>7, StayControl DEF CommitRelease, TypeOK, ReleaserLabels
  <2>2. ReleaserType'
    BY <1>7 DEF CommitRelease, TypeOK, ControlType, ReleaserType, Goto, ReleaserLabels
  <2>3. StoreType'
    BY <1>7 DEF CommitRelease, TypeOK, StoreType, database, bounds
  <2>4. QED
    BY <2>1, <2>2, <2>3
<1>8. ASSUME CompleteRelease(r)
      PROVE  StoreType' /\ Locals
  <2>1. ControlType'
    BY <1>8, StayControl DEF CompleteRelease, TypeOK, ReleaserLabels
  <2>2. ReleaserType'
    BY <1>8 DEF CompleteRelease, TypeOK, ControlType, ReleaserType, Goto, ReleaserLabels
  <2>3. QED
    BY <1>8, <2>1, <2>2, StoreFrame DEF CompleteRelease
<1>9. StoreType' /\ Locals
  BY <1>1, <1>2, <1>3, <1>4, <1>5, <1>6, <1>7, <1>8 DEF ReleaserStep
<1>10. (\A q \in Process \ {r} : pc'[q] = pc[q]) /\ UNCHANGED <<publication, cleaning>>
  BY DEF ReleaserStep, TypeOK, ControlType, PlanRelease, Retire, ResumeRelease, OpenRelease,
         ReleaseFile, RefuseFile, CommitRelease, CompleteRelease, Goto
<1>11. PublisherType' /\ CleanerType'
  BY <1>10, PublisherFrame, CleanerFrame DEF Process
<1>12. QED
  BY <1>9, <1>11 DEF TypeOK

LEMMA InterruptTypeStep ==
  ASSUME TypeOK, NEW p \in Process, Interrupt(p)
  PROVE  TypeOK'
<1> USE BTStoreAssumption
<1>1. StoreType'
  BY DEF Interrupt, TypeOK, StoreType, database
<1>2. CASE p \in Publisher
  <2>1. ControlType' /\ PublisherType'
    BY <1>2, ReturnType DEF Interrupt
  <2>2. UNCHANGED <<cleaning, releasing>> /\ \A q \in Process \ {p} : pc'[q] = pc[q]
    BY <1>2 DEF Interrupt, cleaning, releasing, Goto, TypeOK, ControlType
  <2>3. QED
    BY <1>1, <1>2, <2>1, <2>2, CleanerFrame, ReleaserFrame DEF TypeOK, Process
<1>3. CASE p \in Cleaner
  <2>1. Goto(p, "idle") /\ cur' = [cur EXCEPT ![p] = None]
        /\ UNCHANGED <<publication, cleaning, releasing>>
    BY <1>3 DEF Interrupt, cleaning, releasing
  <2>2. ControlType'
    BY <2>1, MoveControl DEF TypeOK, CleanerLabels
  <2>3. CleanerType'
    BY <2>1 DEF TypeOK, ControlType, CleanerType, Goto, CleanerLabels, cleaning
  <2>4. \A q \in Process \ {p} : pc'[q] = pc[q]
    BY <2>1 DEF Goto, TypeOK, ControlType
  <2>5. QED
    BY <1>1, <1>3, <2>1, <2>2, <2>3, <2>4, PublisherFrame, ReleaserFrame DEF TypeOK, Process
<1>4. CASE p \in Releaser
  <2>1. /\ Goto(p, "idle") /\ cur' = [cur EXCEPT ![p] = None]
        /\ keep' = [keep EXCEPT ![p] = {}] /\ left' = [left EXCEPT ![p] = {}]
        /\ UNCHANGED <<publication, cleaning, release, pending>>
    BY <1>4 DEF Interrupt, cleaning
  <2>2. ControlType'
    BY <2>1, MoveControl DEF TypeOK, ReleaserLabels
  <2>3. ReleaserType'
    BY <1>4, <2>1 DEF TypeOK, ControlType, ReleaserType, Goto, ReleaserLabels
  <2>4. \A q \in Process \ {p} : pc'[q] = pc[q]
    BY <2>1 DEF Goto, TypeOK, ControlType
  <2>5. QED
    BY <1>1, <1>4, <2>1, <2>2, <2>3, <2>4, PublisherFrame, CleanerFrame DEF TypeOK, Process
<1>5. QED
  BY <1>2, <1>3, <1>4 DEF Process

LEMMA StartTypeStep ==
  ASSUME TypeOK, NEW p \in Publisher, NEW e \in Evaluation, NEW tables \in SUBSET Table,
         StartPublication(p, e, tables)
  PROVE  TypeOK'
<1> USE BTStoreAssumption
<1> p \in Process
  BY DEF Process
<1>1. ControlType'
  BY StayControl DEF StartPublication, TypeOK, PublisherLabels
<1>2. started + 1 \in 0..MaxPublications
  BY DEF StartPublication, TypeOK, StoreType
<1>3. PICK found \in [Table -> Encoding \union {None}] : known' = [known EXCEPT ![p] = found]
  BY DEF StartPublication
<1>4. PublisherType'
  BY <1>2, <1>3 DEF StartPublication, TypeOK, ControlType, PublisherType, Goto, PublisherLabels
<1>5. StoreType'
  BY <1>2 DEF StartPublication, TypeOK, StoreType, database
<1>6. UNCHANGED <<cleaning, releasing>> /\ \A q \in Process \ {p} : pc'[q] = pc[q]
  BY DEF StartPublication, Goto, TypeOK, ControlType
<1>7. QED
  BY <1>1, <1>4, <1>5, <1>6, CleanerFrame, ReleaserFrame DEF TypeOK, Process

LEMMA TypeStep == TypeOK /\ [Next]_vars => TypeOK'
<1> SUFFICES ASSUME TypeOK, [Next]_vars
             PROVE  TypeOK'
  OBVIOUS
<1>1. ASSUME NEW e \in Evaluation, Begin(e)
      PROVE  TypeOK'
  <2>1. StoreType' /\ ControlType'
    BY <1>1 DEF Begin, TypeOK, StoreType, ControlType, bounds
  <2>2. QED
    BY <1>1, <2>1, PublisherFrame, CleanerFrame, ReleaserFrame DEF Begin, TypeOK
<1>2. CASE UNCHANGED vars
  <2>1. ControlType'
    BY <1>2 DEF vars, TypeOK, ControlType
  <2>2. QED
    BY <1>2, <2>1, StoreFrame, PublisherFrame, CleanerFrame, ReleaserFrame DEF vars, TypeOK, database
<1>3. QED
  BY <1>1, <1>2, StartTypeStep, PublisherTypeStep, CleanerTypeStep, ReleaserTypeStep, InterruptTypeStep
     DEF Next

(* Every variable keeps its type, and a process has the locals that its    *)
(* place in publish_chapter, cleanup or apply_release relies on.           *)
THEOREM TypeCorrect == Spec => []TypeOK
  BY TypeInitial, TypeStep, PTL DEF Spec

(***************************************************************************)
(* No dangling receipt.  While a process holds the writer lock between its *)
(* test and its write, no other process can commit a chapter or remove a   *)
(* file, so what it tested still holds when it writes.                     *)
(***************************************************************************)
LEMMA InvInitial == Init => IInv
<1>1. ASSUME Init
      PROVE  NoDanglingReceipt
  BY <1>1 DEF Init, NoDanglingReceipt
<1>2. ASSUME Init, NEW p \in Process
      PROVE  pc[p] = "idle"
  BY <1>2 DEF Init
<1>3. QED
  BY <1>1, <1>2 DEF IInv, FencedInsert, FencedUnlink, FencedRelease, Process

(* A step of p that touches no file and no chapter, takes no lock away     *)
(* from another process and does not enter a fenced place.                 *)
LEMMA QuietStep ==
  ASSUME IInv, NEW p \in Process,
         UNCHANGED <<file, chapters>>,
         pc'[p] \notin {"insert", "unlink", "releasing"},
         pc'[p] = "journal" => writer' = p,
         \A q \in Process \ {p} : pc'[q] = pc[q] /\ cur'[q] = cur[q] /\ (writer = q => writer' = q),
         \A q \in Publisher \ {p} : files'[q] = files[q],
         \A q \in Releaser \ {p} : keep'[q] = keep[q]
  PROVE  IInv'
<1> Present' = Present /\ Retained' = Retained
  BY DEF Present, Retained, Named
<1>1. NoDanglingReceipt'
  BY DEF IInv, NoDanglingReceipt
<1>2. FencedInsert'
  BY DEF IInv, FencedInsert, Process
<1>3. FencedUnlink'
  BY DEF IInv, FencedUnlink, Process
<1>4. FencedRelease'
  BY DEF IInv, FencedRelease, Process
<1>5. QED
  BY <1>1, <1>2, <1>3, <1>4 DEF IInv

LEMMA PublisherInvStep ==
  ASSUME TypeOK, IInv, NEW p \in Publisher, PublisherStep(p)
  PROVE  IInv'
<1> USE BTStoreAssumption
<1> p \in Process /\ p \notin Cleaner /\ p \notin Releaser
  BY DEF Process
<1>1. ASSUME NEW t \in Table, Resolve(p, t)
      PROVE  IInv'
  <2>1. UNCHANGED <<file, chapters, writer, keep>>
    BY <1>1 DEF Resolve, database, releasing
  <2>2. pc'[p] \notin {"insert", "unlink", "releasing", "journal"}
    BY <1>1 DEF Resolve, RegisteredHit, Saved, Return, Goto, TypeOK, ControlType
  <2>3. \A q \in Process \ {p} : pc'[q] = pc[q] /\ cur'[q] = cur[q]
    BY <1>1 DEF Resolve, RegisteredHit, Saved, Return, Goto, TypeOK, ControlType
  <2>4. \A q \in Publisher \ {p} : files'[q] = files[q]
    BY <1>1 DEF Resolve, RegisteredHit, Saved, Return, publication, TypeOK, PublisherType
  <2>5. QED
    BY <2>1, <2>2, <2>3, <2>4, QuietStep
<1>2. ASSUME Recheck(p)
      PROVE  IInv'
  <2>1. UNCHANGED <<file, chapters, writer, keep>>
    BY <1>2 DEF Recheck, database, releasing
  <2>2. pc'[p] \notin {"insert", "unlink", "releasing", "journal"}
    BY <1>2 DEF Recheck, RegisteredHit, Saved, Return, Goto, TypeOK, ControlType
  <2>3. \A q \in Process \ {p} : pc'[q] = pc[q] /\ cur'[q] = cur[q]
    BY <1>2 DEF Recheck, RegisteredHit, Saved, Return, Goto, TypeOK, ControlType
  <2>4. \A q \in Publisher \ {p} : files'[q] = files[q]
    BY <1>2 DEF Recheck, RegisteredHit, Saved, Return, publication, TypeOK, PublisherType
  <2>5. QED
    BY <2>1, <2>2, <2>3, <2>4, QuietStep
<1>3. ASSUME Link(p)
      PROVE  IInv'
  <2>1. Present \subseteq Present'
    BY <1>3 DEF Link, Present, TypeOK, StoreType
  <2>2. Retained' = Retained
    BY <1>3 DEF Link, Retained, Named, database
  <2>3. NoDanglingReceipt'
    BY <1>3, <2>1 DEF Link, IInv, NoDanglingReceipt, database
  <2>4. FencedInsert'
    BY <1>3, <2>1 DEF Link, IInv, FencedInsert, Goto, TypeOK, ControlType, publication
  <2>5. FencedUnlink' /\ FencedRelease'
    BY <1>3, <2>2 DEF Link, IInv, FencedUnlink, FencedRelease, Goto, TypeOK, ControlType, releasing, Process
  <2>6. QED
    BY <2>3, <2>4, <2>5 DEF IInv
<1>4. ASSUME LinkExists(p)
      PROVE  IInv'
  BY <1>4, QuietStep DEF LinkExists, Saved, Goto, TypeOK, ControlType, PublisherType,
     database, releasing, publication
<1>5. ASSUME Hash(p)
      PROVE  IInv'
  BY <1>5, QuietStep DEF Hash, Return, Goto, TypeOK, ControlType, PublisherType, database, releasing
<1>6. ASSUME Register(p)
      PROVE  IInv'
  BY <1>6, QuietStep DEF Register, Saved, Goto, TypeOK, ControlType, PublisherType, releasing
<1>7. ASSUME Fence(p)
      PROVE  IInv'
  <2>1. CASE FilesPresent(p)
    <3>1. /\ writer = None /\ writer' = p /\ DOMAIN files[p] \subseteq Present
          /\ Goto(p, "insert")
          /\ UNCHANGED <<file, chapters, cur, files, keep>>
      BY <1>7, <2>1 DEF FilesPresent, Fence, Unlocked, publication, database, releasing
    <3>2. Present' = Present /\ Retained' = Retained
      BY <3>1 DEF Present, Retained, Named
    <3>3. \A q \in Process \ {p} :
            /\ pc'[q] = pc[q]
            /\ q \in Publisher => pc[q] # "insert"
            /\ q \in Cleaner => pc[q] \notin {"unlink", "journal"}
            /\ q \in Releaser => pc[q] # "releasing"
      BY <3>1 DEF IInv, FencedInsert, FencedUnlink, FencedRelease, Goto, TypeOK, ControlType
    <3>4. NoDanglingReceipt'
      BY <3>1, <3>2 DEF IInv, NoDanglingReceipt
    <3>5. FencedInsert'
      BY <3>1, <3>2, <3>3 DEF FencedInsert, Process
    <3>6. FencedUnlink' /\ FencedRelease'
      BY <3>3 DEF FencedUnlink, FencedRelease, Process
    <3>7. QED
      BY <3>4, <3>5, <3>6 DEF IInv
  <2>2. CASE ~ FilesPresent(p)
    <3>1. Return(p) /\ Goto(p, "idle") /\ UNCHANGED <<file, chapters, writer, keep>>
      BY <1>7, <2>2 DEF FilesPresent, Fence, database, releasing
    <3>2. QED
      BY <3>1, QuietStep DEF Return, Goto, TypeOK, ControlType, PublisherType
  <2>3. QED
    BY <2>1, <2>2
<1>8. ASSUME Insert(p)
      PROVE  IInv'
  <2>1. /\ pc[p] = "insert" /\ writer = p /\ DOMAIN files[p] \subseteq Present
        /\ writer' = None /\ Goto(p, "idle")
        /\ chapters' = [chapters EXCEPT ![target[p]] = IF @ = None THEN files[p] ELSE @]
        /\ file' = file
    BY <1>8 DEF Insert, IInv, FencedInsert
  <2>2. \A q \in Process \ {p} :
          /\ pc'[q] = pc[q]
          /\ q \in Publisher => pc[q] # "insert"
          /\ q \in Cleaner => pc[q] \notin {"unlink", "journal"}
          /\ q \in Releaser => pc[q] # "releasing"
    BY <2>1 DEF IInv, FencedInsert, FencedUnlink, FencedRelease, Goto, TypeOK, ControlType
  <2>3. pc'[p] = "idle"
    BY <2>1 DEF Goto, TypeOK, ControlType
  <2>4. FencedInsert' /\ FencedUnlink' /\ FencedRelease'
    BY <2>2, <2>3 DEF FencedInsert, FencedUnlink, FencedRelease, Process
  <2>5. NoDanglingReceipt'
    BY <2>1 DEF IInv, NoDanglingReceipt, Present, TypeOK, StoreType
  <2>6. QED
    BY <2>4, <2>5 DEF IInv
<1>9. ASSUME Acknowledge(p)
      PROVE  IInv'
  BY <1>9, QuietStep DEF Acknowledge, Goto, TypeOK, ControlType, PublisherType, database, releasing, publication
<1>10. QED
  BY <1>1, <1>2, <1>3, <1>4, <1>5, <1>6, <1>7, <1>8, <1>9 DEF PublisherStep

LEMMA CleanerInvStep ==
  ASSUME TypeOK, IInv, NEW c \in Cleaner,
         CleanerStep(c) \/ \E scope \in SUBSET Table : PlanCleanup(c, scope)
  PROVE  IInv'
<1> USE BTStoreAssumption
<1> c \in Process /\ c \notin Publisher /\ c \notin Releaser /\ pc[c] \in CleanerLabels
  BY DEF Process, TypeOK, CleanerType
<1>1. ASSUME NEW scope \in SUBSET Table, PlanCleanup(c, scope)
      PROVE  IInv'
  BY <1>1, QuietStep DEF PlanCleanup, TypeOK, ControlType, CleanerType, database, releasing, publication
<1>2. ASSUME AdmitCleanup(c)
      PROVE  IInv'
  BY <1>2, QuietStep DEF AdmitCleanup, Goto, TypeOK, ControlType, database, releasing, publication
<1>3. ASSUME NEW t \in Table, OpenCandidate(c, t)
      PROVE  IInv'
  <2>1. CASE /\ t \notin Retained
             /\ writer' = c
             /\ cur' = [cur EXCEPT ![c] = t]
             /\ Goto(c, IF file[t] = None THEN "journal" ELSE "unlink")
    <3>1. writer = None /\ UNCHANGED <<file, chapters, files, keep>>
      BY <1>3 DEF Unreferenced, SameFile, OpenCandidate, Unlocked, database, publication, releasing
    <3>2. Present' = Present /\ Retained' = Retained
      BY <3>1 DEF Present, Retained, Named
    <3>3. \A q \in Process \ {c} :
            /\ pc'[q] = pc[q]
            /\ q \in Publisher => pc[q] # "insert"
            /\ q \in Cleaner => pc[q] \notin {"unlink", "journal"}
            /\ q \in Releaser => pc[q] # "releasing"
      BY <2>1, <3>1 DEF IInv, FencedInsert, FencedUnlink, FencedRelease, Goto, TypeOK, ControlType
    <3>4. NoDanglingReceipt' /\ FencedInsert' /\ FencedRelease'
      BY <3>1, <3>2, <3>3 DEF IInv, NoDanglingReceipt, FencedInsert, FencedRelease, Process
    <3>5. FencedUnlink'
      BY <2>1, <3>2, <3>3 DEF FencedUnlink, Process, TypeOK, ControlType
    <3>6. QED
      BY <3>4, <3>5 DEF IInv
  <2>2. CASE DropCleanup(c) /\ UNCHANGED <<writer, cur>>
    BY <1>3, <2>2, QuietStep DEF Unreferenced, SameFile, OpenCandidate, DropCleanup, Goto, TypeOK, ControlType, database, releasing, publication
  <2>3. QED
    BY <1>3, <2>1, <2>2 DEF Unreferenced, SameFile, OpenCandidate
<1>4. ASSUME UnlinkCandidate(c)
      PROVE  IInv'
  <2>1. /\ writer = c /\ writer' = c /\ cur[c] \notin Retained
        /\ file' = [file EXCEPT ![cur[c]] = None] /\ Goto(c, "journal")
        /\ UNCHANGED <<chapters, cur, files, keep>>
    BY <1>4 DEF UnlinkCandidate, IInv, FencedUnlink, database, publication, releasing
  <2>2. Retained' = Retained
    BY <2>1 DEF Retained, Named
  <2>3. NoDanglingReceipt'
    <3>1. Present \ {cur[c]} \subseteq Present'
      BY <2>1 DEF Present, TypeOK, StoreType
    <3>2. \A e \in Evaluation : chapters[e] # None => cur[c] \notin DOMAIN chapters[e]
      BY <1>4, <2>1 DEF UnlinkCandidate, Retained, Named, TypeOK, ControlType
    <3>3. QED
      BY <2>1, <3>1, <3>2 DEF IInv, NoDanglingReceipt
  <2>4. \A q \in Process \ {c} :
          /\ pc'[q] = pc[q]
          /\ q \in Publisher => pc[q] # "insert"
          /\ q \in Cleaner => pc[q] \notin {"unlink", "journal"}
          /\ q \in Releaser => pc[q] # "releasing"
    BY <2>1 DEF IInv, FencedInsert, FencedUnlink, FencedRelease, Goto, TypeOK, ControlType
  <2>5. pc'[c] = "journal"
    BY <2>1 DEF Goto, TypeOK, ControlType
  <2>6. FencedInsert' /\ FencedUnlink' /\ FencedRelease'
    BY <2>1, <2>4, <2>5 DEF FencedInsert, FencedUnlink, FencedRelease, Process
  <2>7. QED
    BY <2>3, <2>6 DEF IInv
<1>5. ASSUME JournalCandidate(c)
      PROVE  IInv'
  <2>1. writer = c
    BY <1>5 DEF JournalCandidate, IInv, FencedUnlink
  <2>2. QED
    BY <1>5, <2>1, QuietStep DEF JournalCandidate, Goto, TypeOK, ControlType, publication, releasing
<1>6. ASSUME FinishCleanup(c)
      PROVE  IInv'
  BY <1>6, QuietStep DEF FinishCleanup, DropCleanup, Goto, TypeOK, ControlType, database, publication, releasing
<1>7. QED
  BY <1>1, <1>2, <1>3, <1>4, <1>5, <1>6 DEF CleanerStep

LEMMA ReleaserInvStep ==
  ASSUME TypeOK, IInv, NEW r \in Releaser,
         ReleaserStep(r) \/ \E es \in SUBSET Evaluation : PlanRelease(r, es)
  PROVE  IInv'
<1> USE BTStoreAssumption
<1> r \in Process /\ r \notin Publisher /\ r \notin Cleaner
  BY DEF Process
<1>1. ASSUME NEW es \in SUBSET Evaluation, PlanRelease(r, es)
      PROVE  IInv'
  BY <1>1, QuietStep DEF PlanRelease, database, publication
<1>2. ASSUME Retire(r)
      PROVE  IInv'
  <2>1. CASE release[r] = ReleasePlan(release[r].evaluations)
    <3>1. /\ writer = None /\ writer' = None /\ Goto(r, "release")
          /\ UNCHANGED <<file, files, cur, keep>>
          /\ chapters' = [e \in Evaluation |->
                            IF e \in release[r].evaluations THEN None ELSE chapters[e]]
      BY <1>2, <2>1 DEF PlanCurrent, Retire, Unlocked, publication
    <3>2. \A q \in Process :
            /\ q \in Publisher => pc'[q] # "insert"
            /\ q \in Cleaner => pc'[q] \notin {"unlink", "journal"}
            /\ q \in Releaser => pc'[q] # "releasing"
      BY <3>1 DEF IInv, FencedInsert, FencedUnlink, FencedRelease, Goto, TypeOK, ControlType
    <3>3. FencedInsert' /\ FencedUnlink' /\ FencedRelease'
      BY <3>2 DEF FencedInsert, FencedUnlink, FencedRelease, Process
    <3>4. NoDanglingReceipt'
      BY <3>1 DEF IInv, NoDanglingReceipt, Present
    <3>5. QED
      BY <3>3, <3>4 DEF IInv
  <2>2. CASE release[r] # ReleasePlan(release[r].evaluations)
    BY <1>2, <2>2, QuietStep DEF PlanCurrent, Retire, database, publication
  <2>3. QED
    BY <2>1, <2>2
<1>3. ASSUME ResumeRelease(r)
      PROVE  IInv'
  BY <1>3, QuietStep DEF ResumeRelease, Goto, TypeOK, ControlType, database, publication, releasing
<1>4. ASSUME OpenRelease(r)
      PROVE  IInv'
  <2>1. /\ writer = None /\ writer' = r /\ Goto(r, "releasing")
        /\ keep' = [keep EXCEPT ![r] = Retained \union {t \in Table : index[t] # None}]
        /\ UNCHANGED <<file, chapters, files, cur>>
    BY <1>4 DEF KeptTables, RegisteredTables, OpenRelease, Unlocked, database, publication
  <2>2. Present' = Present /\ Retained' = Retained
    BY <2>1 DEF Present, Retained, Named
  <2>3. \A q \in Process \ {r} :
          /\ pc'[q] = pc[q]
          /\ q \in Publisher => pc[q] # "insert"
          /\ q \in Cleaner => pc[q] \notin {"unlink", "journal"}
          /\ q \in Releaser => pc[q] # "releasing"
    BY <2>1 DEF IInv, FencedInsert, FencedUnlink, FencedRelease, Goto, TypeOK, ControlType
  <2>4. NoDanglingReceipt' /\ FencedInsert' /\ FencedUnlink'
    BY <2>1, <2>2, <2>3 DEF IInv, NoDanglingReceipt, FencedInsert, FencedUnlink, Process
  <2>5. Retained' \subseteq keep'[r]
    BY <2>1, <2>2 DEF TypeOK, ReleaserType
  <2>6. FencedRelease'
    BY <2>1, <2>3, <2>5 DEF FencedRelease, Process
  <2>7. QED
    BY <2>4, <2>6 DEF IInv
<1>5. ASSUME NEW t \in Table, ReleaseFile(r, t)
      PROVE  IInv'
  <2>1. /\ writer = r /\ Retained \subseteq keep[r] /\ pc[r] = "releasing"
        /\ UNCHANGED <<writer, pc, cur, chapters, files, keep>>
    BY <1>5 DEF ReleaseFile, IInv, FencedRelease, database, publication
  <2>2. file' = file \/ (t \notin Retained /\ file' = [file EXCEPT ![t] = None])
    BY <1>5, <2>1 DEF ReleaseFile
  <2>3. Retained' = Retained
    BY <2>1 DEF Retained, Named
  <2>4. NoDanglingReceipt'
    <3>1. Present \ {t} \subseteq Present' /\ (t \in Retained => Present' = Present)
      BY <2>2 DEF Present, TypeOK, StoreType
    <3>2. \A e \in Evaluation : chapters[e] # None /\ t \in DOMAIN chapters[e] => t \in Retained
      BY DEF Retained, Named
    <3>3. QED
      BY <2>1, <3>1, <3>2 DEF IInv, NoDanglingReceipt
  <2>5. FencedInsert' /\ FencedUnlink' /\ FencedRelease'
    BY <2>1, <2>3 DEF IInv, FencedInsert, FencedUnlink, FencedRelease, Process
  <2>6. QED
    BY <2>4, <2>5 DEF IInv
<1>6. ASSUME NEW t \in Table, RefuseFile(r, t)
      PROVE  IInv'
  <2>1. writer = r
    BY <1>6 DEF RefuseFile, IInv, FencedRelease
  <2>2. QED
    BY <1>6, <2>1, QuietStep DEF RefuseFile, Goto, TypeOK, ControlType, ReleaserType, database, publication
<1>7. ASSUME CommitRelease(r)
      PROVE  IInv'
  <2>1. writer = r
    BY <1>7 DEF CommitRelease, IInv, FencedRelease
  <2>2. QED
    BY <1>7, <2>1, QuietStep DEF CommitRelease, Goto, TypeOK, ControlType, ReleaserType, database, publication
<1>8. ASSUME CompleteRelease(r)
      PROVE  IInv'
  BY <1>8, QuietStep DEF CompleteRelease, Goto, TypeOK, ControlType, database, publication
<1>9. QED
  BY <1>1, <1>2, <1>3, <1>4, <1>5, <1>6, <1>7, <1>8 DEF ReleaserStep

LEMMA InterruptInvStep ==
  ASSUME TypeOK, IInv, NEW p \in Process, Interrupt(p)
  PROVE  IInv'
<1>1. UNCHANGED <<file, chapters>> /\ pc'[p] = "idle"
  BY DEF Interrupt, Goto, TypeOK, ControlType, database
<1>2. \A q \in Process \ {p} : pc'[q] = pc[q] /\ cur'[q] = cur[q] /\ (writer = q => writer' = q)
  BY DEF Interrupt, Goto, Return, TypeOK, ControlType
<1>3. \A q \in Publisher \ {p} : files'[q] = files[q]
  BY DEF Interrupt, Return, TypeOK, PublisherType, publication
<1>4. \A q \in Releaser \ {p} : keep'[q] = keep[q]
  BY DEF Interrupt, TypeOK, ReleaserType
<1>5. QED
  BY <1>1, <1>2, <1>3, <1>4, QuietStep

LEMMA InvStep == TypeOK /\ IInv /\ [Next]_vars => IInv'
<1> SUFFICES ASSUME TypeOK, IInv, [Next]_vars
             PROVE  IInv'
  OBVIOUS
<1>1. ASSUME NEW e \in Evaluation, Begin(e)
      PROVE  IInv'
  BY <1>1 DEF Begin, publication, releasing, IInv, NoDanglingReceipt, FencedInsert, FencedUnlink,
     FencedRelease, Present, Retained, Named
<1>2. ASSUME NEW p \in Publisher, NEW e \in Evaluation, NEW tables \in SUBSET Table,
             StartPublication(p, e, tables)
      PROVE  IInv'
  <2>1. p \in Process /\ pc'[p] = "saving"
    BY <1>2 DEF StartPublication, Goto, TypeOK, ControlType, Process
  <2>2. QED
    BY <1>2, <2>1, QuietStep DEF StartPublication, Goto, TypeOK, ControlType, database, releasing
<1>3. CASE UNCHANGED vars
  BY <1>3 DEF vars, publication, releasing, IInv, NoDanglingReceipt, FencedInsert, FencedUnlink,
     FencedRelease, Present, Retained, Named
<1>4. QED
  BY <1>1, <1>2, <1>3, PublisherInvStep, CleanerInvStep, ReleaserInvStep, InterruptInvStep DEF Next

(* The strengthened invariant: NoDanglingReceipt and what each lock holder *)
(* has tested.                                                             *)
THEOREM InductiveInvariant == Spec => []IInv
  BY TypeCorrect, InvInitial, InvStep, PTL DEF Spec

(* No committed chapter ever names a table whose file is gone, for any     *)
(* number of publishers, cleaners and releasers, any encodings and any     *)
(* number of crashes.                                                      *)
THEOREM ReceiptsNeverDangle == Spec => []NoDanglingReceipt
<1>1. IInv => NoDanglingReceipt
  BY DEF IInv
<1>2. QED
  BY <1>1, InductiveInvariant, PTL

(***************************************************************************)
(* Committed chapters change only by the release that lists them.          *)
(***************************************************************************)
LEMMA RetiredStep == TypeOK /\ IInv /\ [Next]_vars => OnlyPlannedRetired
<1> SUFFICES ASSUME TypeOK, IInv, [Next]_vars,
                    \E e \in Evaluation : chapters[e] # None /\ chapters'[e] # chapters[e]
             PROVE  \E r \in Releaser :
                      /\ pending'[r] /\ ~ pending[r]
                      /\ release[r].registry = <<evals, chapters>>
                      /\ \A e \in Evaluation :
                           chapters'[e] = IF e \in release[r].evaluations THEN None ELSE chapters[e]
  BY DEF OnlyPlannedRetired
<1>1. ASSUME NEW p \in Publisher, Insert(p)
      PROVE  FALSE
  <2>1. \A e \in Evaluation : chapters'[e] = chapters[e] \/ chapters[e] = None
    BY <1>1 DEF Insert, TypeOK, StoreType
  <2>2. QED
    BY <2>1
<1>2. \E r \in Releaser : Retire(r)
  <2>1. ASSUME NEW p \in Publisher, PublisherStep(p)
        PROVE  FALSE
    BY <1>1, <2>1 DEF PublisherStep, Resolve, Recheck, Link, LinkExists, Hash, Register, Fence,
       Acknowledge, database
  <2>2. ASSUME NEW c \in Cleaner, CleanerStep(c) \/ \E scope \in SUBSET Table : PlanCleanup(c, scope)
        PROVE  FALSE
    BY <2>2 DEF CleanerStep, PlanCleanup, AdmitCleanup, OpenCandidate, UnlinkCandidate,
       JournalCandidate, FinishCleanup, database
  <2>3. ASSUME NEW r \in Releaser, ReleaserStep(r) \/ \E es \in SUBSET Evaluation : PlanRelease(r, es)
        PROVE  Retire(r)
    BY <2>3 DEF ReleaserStep, PlanRelease, ResumeRelease, OpenRelease, ReleaseFile, RefuseFile,
       CommitRelease, CompleteRelease, database
  <2>4. ~ \/ \E e \in Evaluation : Begin(e)
          \/ \E p \in Publisher, e \in Evaluation, tables \in SUBSET Table : StartPublication(p, e, tables)
          \/ \E p \in Process : Interrupt(p)
          \/ UNCHANGED vars
    BY DEF Begin, StartPublication, Interrupt, database, vars
  <2>5. QED
    BY <2>1, <2>2, <2>3, <2>4 DEF Next
<1>3. PICK r \in Releaser : Retire(r)
  BY <1>2
<1>4. PlanCurrent(r)
  BY <1>3 DEF Retire, database
<1>5. release[r].registry = <<evals, chapters>>
  BY <1>4 DEF PlanCurrent, ReleasePlan
<1>6. pending'[r] /\ ~ pending[r]
  BY <1>3, <1>4 DEF Retire, TypeOK, ReleaserType
<1>7. \A e \in Evaluation :
        chapters'[e] = IF e \in release[r].evaluations THEN None ELSE chapters[e]
  BY <1>3, <1>4 DEF Retire
<1>8. QED
  BY <1>5, <1>6, <1>7

(* A committed chapter is removed only by the transaction of a release     *)
(* whose reviewed plan still is the registry, with every evaluation that   *)
(* plan lists and no other; it is never rewritten.                         *)
THEOREM ReceiptsRetiredByPlan == Spec => ChaptersRetiredOnlyByPlan
  BY RetiredStep, TypeCorrect, InductiveInvariant, PTL DEF Spec, ChaptersRetiredOnlyByPlan

(***************************************************************************)
(* Cleanup removes exactly its plan.  A file is known by its encoding and  *)
(* by the publication that linked it, and a publication links a table at   *)
(* most once: a file that is gone never comes back, and neither does the   *)
(* one a plan froze.                                                       *)
(***************************************************************************)
Frozen(c, t) == cleanup[c] # None /\ t \in DOMAIN cleanup[c].candidates

(* The files of t that the directory holds or a plan remembers. *)
Remembered(t) ==
  {a \in Artifact : file[t] = a \/ \E c \in Cleaner : Frozen(c, t) /\ cleanup[c].candidates[t] = a}

(* p may still link a file for t. *)
MayLink(p, t) ==
  /\ serial[p] # 0
  /\ t \notin DOMAIN files[p]
  /\ ~ (pc[p] \in {"hash", "register"} /\ cur[p] = t)

Serials ==
  \A p \in Publisher :
    /\ serial[p] <= started
    /\ pc[p] \notin {"idle", "registered_missing"} => serial[p] # 0
    /\ \A q \in Publisher \ {p} : serial[p] # 0 => serial[p] # serial[q]
    /\ pc[p] \in {"recheck", "link"} => cur[p] \notin DOMAIN files[p]

LinkedOnce ==
  \A t \in Table : \A a \in Remembered(t) :
    /\ a.by <= started
    /\ \A p \in Publisher : MayLink(p, t) => a.by # serial[p]

(* Where a cleanup is inside one candidate's transaction. *)
CandidateOpen ==
  \A c \in Cleaner :
    /\ done[c] # None => done[c] \subseteq DOMAIN cleanup[c].candidates
    /\ pc[c] \in {"unlink", "journal"} => cur[c] \in DOMAIN cleanup[c].candidates \ done[c]
    /\ pc[c] = "unlink" => file[cur[c]] = cleanup[c].candidates[cur[c]]
    /\ pc[c] = "journal" => file[cur[c]] # cleanup[c].candidates[cur[c]]

CleanupInv == Serials /\ LinkedOnce /\ CandidateOpen /\ CompletedCandidatesGone

LEMMA FrozenType ==
  ASSUME TypeOK, NEW c \in Cleaner
  PROVE  /\ pc[c] # "idle" => done[c] # None
         /\ done[c] # None => done[c] \in SUBSET Table /\ cleanup[c] # None
         /\ cleanup[c] # None =>
              /\ DOMAIN cleanup[c].candidates \in SUBSET Table
              /\ \A t \in DOMAIN cleanup[c].candidates :
                   cleanup[c].candidates[t] \in Artifact /\ cleanup[c].candidates[t] # None
<1>1. CASE cleanup[c] # None
  <2>1. cleanup[c] \in CleanupPlans
    BY <1>1 DEF TypeOK, CleanerType
  <2>2. cleanup[c].candidates \in UNION {[S -> Artifact] : S \in SUBSET Table}
    BY <2>1 DEF CleanupPlans
  <2>3. PICK S \in SUBSET Table : cleanup[c].candidates \in [S -> Artifact]
    BY <2>2
  <2>4. QED
    BY <1>1, <2>3, BTStoreAssumption DEF TypeOK, CleanerType
<1>2. CASE cleanup[c] = None
  BY <1>2 DEF TypeOK, CleanerType
<1>3. QED
  BY <1>1, <1>2

(* No new file and no new permission to link one. *)
LEMMA LinkedOnceKept ==
  ASSUME TypeOK, TypeOK', LinkedOnce, started' >= started,
         \A t \in Table : Remembered(t)' \subseteq Remembered(t),
         \A p \in Publisher, t \in Table :
           MayLink(p, t)' => MayLink(p, t) /\ serial'[p] = serial[p]
  PROVE  LinkedOnce'
<1> SUFFICES ASSUME NEW t \in Table, NEW a \in Remembered(t)'
             PROVE  /\ a.by <= started'
                    /\ \A p \in Publisher : MayLink(p, t)' => a.by # serial'[p]
  BY DEF LinkedOnce
<1>1. a \in Remembered(t) /\ a \in Artifact
  BY DEF Remembered
<1>2. a.by \in Int /\ started \in Int /\ started' \in Int
  BY <1>1, BTStoreAssumption DEF Artifact, TypeOK, StoreType
<1>3. QED
  BY <1>1, <1>2 DEF LinkedOnce

LEMMA QuietPublishers ==
  ASSUME TypeOK, TypeOK', Serials, LinkedOnce,
         UNCHANGED <<publication, started>>,
         \A p \in Publisher : pc'[p] = pc[p] /\ cur'[p] = cur[p],
         \A t \in Table : Remembered(t)' \subseteq Remembered(t)
  PROVE  Serials' /\ LinkedOnce'
<1>1. Serials'
  BY DEF Serials, publication
<1>2. \A p \in Publisher, t \in Table : MayLink(p, t)' => MayLink(p, t) /\ serial'[p] = serial[p]
  BY DEF MayLink, publication
<1>3. started' >= started
  BY BTStoreAssumption DEF TypeOK, StoreType
<1>4. QED
  BY <1>1, <1>2, <1>3, LinkedOnceKept

(* Plans and receipts stay, cleaners stay or stop, and no file a plan      *)
(* froze comes back or leaves the hands of the cleaner about to unlink it. *)
LEMMA QuietCleaners ==
  ASSUME TypeOK, CandidateOpen, CompletedCandidatesGone, UNCHANGED cleaning,
         \A c \in Cleaner : pc'[c] = "idle" \/ (pc'[c] = pc[c] /\ cur'[c] = cur[c]),
         \A c \in Cleaner, t \in Table :
           \/ file'[t] = file[t]
           \/ /\ ~ (pc[c] = "unlink" /\ cur[c] = t)
              /\ Frozen(c, t) => file'[t] # cleanup[c].candidates[t]
  PROVE  CandidateOpen' /\ CompletedCandidatesGone'
<1>1. \A c \in Cleaner : done'[c] = done[c] /\ cleanup'[c] = cleanup[c]
  BY DEF cleaning
<1>2. CompletedCandidatesGone'
  <2> SUFFICES ASSUME NEW c \in Cleaner, done[c] # None, NEW t \in done[c]
               PROVE  file'[t] # cleanup[c].candidates[t]
    BY <1>1 DEF CompletedCandidatesGone
  <2>1. t \in Table /\ Frozen(c, t) /\ file[t] # cleanup[c].candidates[t]
    BY FrozenType DEF CandidateOpen, CompletedCandidatesGone, Frozen
  <2>2. QED
    BY <2>1
<1>3. ASSUME NEW c \in Cleaner
      PROVE  /\ done'[c] # None => done'[c] \subseteq DOMAIN cleanup'[c].candidates
             /\ pc'[c] \in {"unlink", "journal"} => cur'[c] \in DOMAIN cleanup'[c].candidates \ done'[c]
             /\ pc'[c] = "unlink" => file'[cur'[c]] = cleanup'[c].candidates[cur'[c]]
             /\ pc'[c] = "journal" => file'[cur'[c]] # cleanup'[c].candidates[cur'[c]]
  <2>1. CASE pc'[c] \in {"unlink", "journal"}
    <3>1. pc'[c] = pc[c] /\ cur'[c] = cur[c]
      BY <2>1
    <3>2. Frozen(c, cur[c]) /\ cur[c] \in Table
      BY <2>1, <3>1, FrozenType DEF CandidateOpen, Frozen
    <3>3. QED
      BY <1>1, <2>1, <3>1, <3>2 DEF CandidateOpen
  <2>2. CASE pc'[c] \notin {"unlink", "journal"}
    BY <1>1, <2>2 DEF CandidateOpen
  <2>3. QED
    BY <2>1, <2>2
<1>4. QED
  BY <1>2, <1>3 DEF CandidateOpen

(* What is remembered changes only with the directory and the plans. *)
LEMMA RememberedKept ==
  ASSUME TypeOK, UNCHANGED cleanup,
         \A t \in Table : file'[t] = file[t] \/ file'[t] = None
  PROVE  \A t \in Table : Remembered(t)' \subseteq Remembered(t)
<1>1. \A t \in Table : Remembered(t) =
        {a \in Artifact : file[t] = a \/ \E c \in Cleaner : Frozen(c, t) /\ cleanup[c].candidates[t] = a}
  BY DEF Remembered
<1>2. \A t \in Table : Remembered(t)' =
        {a \in Artifact : file'[t] = a \/ \E c \in Cleaner : Frozen(c, t) /\ cleanup[c].candidates[t] = a}
  BY DEF Remembered, Frozen
<1>3. None \notin Artifact
  BY BTStoreAssumption
<1>4. QED
  BY <1>1, <1>2, <1>3

(* A publisher that links no file moves forward on its table or gives up.  *)
LEMMA PublisherMoves ==
  ASSUME TypeOK, TypeOK', Serials, LinkedOnce, NEW p \in Publisher, PublisherStep(p), ~ Link(p)
  PROVE  Serials' /\ LinkedOnce'
<1> p \in Process
  BY DEF Process
<1> USE BTStoreAssumption
<1>1. UNCHANGED <<file, cleaning, started>>
  BY DEF PublisherStep, Resolve, Recheck, LinkExists, Hash, Register, Fence, Insert, Acknowledge, bounds
<1>2. \A q \in Publisher \ {p} :
        pc'[q] = pc[q] /\ cur'[q] = cur[q] /\ serial'[q] = serial[q] /\ files'[q] = files[q]
  <2> DEFINE Own == \A q \in Publisher \ {p} :
        pc'[q] = pc[q] /\ cur'[q] = cur[q] /\ serial'[q] = serial[q] /\ files'[q] = files[q]
  <2> USE DEF TypeOK, ControlType, PublisherType, Goto, publication, Process
  <2>1. ASSUME NEW label, Return(p), Goto(p, label)
        PROVE  Own
    BY <2>1 DEF Return
  <2>2. ASSUME NEW t, NEW r, Saved(p, t, r)
        PROVE  Own
    BY <2>2 DEF Saved
  <2>3. ASSUME NEW t, NEW r, RegisteredHit(p, t, r)
        PROVE  Own
    BY <2>1, <2>2, <2>3 DEF RegisteredHit
  <2>4. ASSUME NEW t, NEW label, cur' = [cur EXCEPT ![p] = t] \/ UNCHANGED cur, Goto(p, label),
               UNCHANGED <<serial, files>>
        PROVE  Own
    BY <2>4
  <2> HIDE DEF Own, TypeOK, ControlType, PublisherType, Goto, Process
  <2>5. ASSUME NEW t \in Table, Resolve(p, t)
        PROVE  Own
    BY <2>3, <2>4, <2>5 DEF Resolve
  <2>6. ASSUME Recheck(p)
        PROVE  Own
    BY <2>3, <2>4, <2>6 DEF Recheck
  <2>7. ASSUME LinkExists(p)
        PROVE  Own
    BY <2>2, <2>4, <2>7 DEF LinkExists
  <2>8. ASSUME Hash(p) \/ Register(p) \/ Fence(p) \/ Insert(p) \/ Acknowledge(p)
        PROVE  Own
    BY <2>1, <2>2, <2>4, <2>8 DEF Hash, Register, Fence, Insert, Acknowledge
  <2>9. Own
    BY <2>5, <2>6, <2>7, <2>8 DEF PublisherStep
  <2>10. QED
    BY <2>9 DEF Own
<1> DEFINE
      Gone == serial'[p] = 0 /\ pc'[p] \in {"idle", "registered_missing"}
      Saves(t) == /\ serial'[p] = serial[p] /\ pc'[p] = "saving"
                  /\ DOMAIN files'[p] = DOMAIN files[p] \union {t}
      Stays == serial'[p] = serial[p] /\ files'[p] = files[p]
      Outcome ==
        \/ Gone
        \/ pc[p] = "saving" /\ \E t \in Table : Saves(t)
        \/ pc[p] \in {"recheck", "link", "register"} /\ Saves(cur[p])
        \/ pc[p] = "saving" /\ Stays /\ pc'[p] = "insert"
        \/ pc[p] = "saving" /\ Stays /\ pc'[p] \in {"recheck", "link"} /\ cur'[p] \notin DOMAIN files[p]
        \/ pc[p] = "recheck" /\ Stays /\ cur'[p] = cur[p] /\ pc'[p] \in {"link", "hash"}
        \/ pc[p] \in {"link", "hash"} /\ Stays /\ cur'[p] = cur[p] /\ pc'[p] \in {"hash", "register"}
        \/ pc[p] = "registered_missing" /\ Stays /\ pc'[p] = "idle"
<1>a. ASSUME NEW label \in {"idle", "registered_missing"}, Return(p), Goto(p, label)
      PROVE  Gone
  BY <1>a DEF Return, Goto, TypeOK, ControlType, PublisherType
<1>b. ASSUME NEW t, NEW r, Saved(p, t, r)
      PROVE  Saves(t)
  BY <1>b DEF Saved, Goto, TypeOK, ControlType, PublisherType
<1>c. ASSUME NEW t, NEW r, RegisteredHit(p, t, r)
      PROVE  Saves(t) \/ Gone
  BY <1>a, <1>b, <1>c DEF RegisteredHit
<1>3. Outcome
  <2>1. ASSUME NEW t \in Table, Resolve(p, t)
        PROVE  Outcome
    <3>1. PICK r : \/ RegisteredHit(p, t, r)
                   \/ /\ cur' = [cur EXCEPT ![p] = t]
                      /\ Goto(p, IF file[t] = None THEN "link" ELSE "recheck")
                      /\ UNCHANGED publication
      BY <2>1 DEF Resolve
    <3>2. pc[p] = "saving" /\ t \notin DOMAIN files[p]
      BY <2>1 DEF Resolve
    <3>3. CASE RegisteredHit(p, t, r)
      BY <1>c, <3>2, <3>3
    <3>4. CASE /\ cur' = [cur EXCEPT ![p] = t]
               /\ Goto(p, IF file[t] = None THEN "link" ELSE "recheck")
               /\ UNCHANGED publication
      <4>1. Stays /\ pc'[p] \in {"recheck", "link"} /\ cur'[p] = t
        BY <3>4 DEF Goto, TypeOK, ControlType, publication
      <4>2. QED
        BY <3>2, <4>1
    <3>5. QED
      BY <3>1, <3>3, <3>4
  <2>2. ASSUME Recheck(p)
        PROVE  Outcome
    <3>1. PICK r : \/ RegisteredHit(p, cur[p], r)
                   \/ /\ Goto(p, IF file[cur[p]] = None THEN "link" ELSE "hash")
                      /\ UNCHANGED <<cur, publication>>
      BY <2>2 DEF Recheck
    <3>2. pc[p] = "recheck"
      BY <2>2 DEF Recheck
    <3>3. CASE RegisteredHit(p, cur[p], r)
      BY <1>c, <3>2, <3>3
    <3>4. CASE /\ Goto(p, IF file[cur[p]] = None THEN "link" ELSE "hash")
               /\ UNCHANGED <<cur, publication>>
      <4>1. Stays /\ pc'[p] \in {"link", "hash"} /\ cur'[p] = cur[p]
        BY <3>4 DEF Goto, TypeOK, ControlType, publication
      <4>2. QED
        BY <3>2, <4>1
    <3>5. QED
      BY <3>1, <3>3, <3>4
  <2>3. ASSUME LinkExists(p)
        PROVE  Outcome
    <3>1. PICK r : \/ Saved(p, cur[p], r)
                   \/ Goto(p, "hash") /\ UNCHANGED <<cur, publication>>
      BY <2>3 DEF LinkExists
    <3>2. pc[p] = "link"
      BY <2>3 DEF LinkExists
    <3>3. CASE Saved(p, cur[p], r)
      BY <1>b, <3>2, <3>3
    <3>4. CASE Goto(p, "hash") /\ UNCHANGED <<cur, publication>>
      <4>1. Stays /\ pc'[p] = "hash" /\ cur'[p] = cur[p]
        BY <3>4 DEF Goto, TypeOK, ControlType, publication
      <4>2. QED
        BY <3>2, <4>1
    <3>5. QED
      BY <3>1, <3>3, <3>4
  <2>4. ASSUME Hash(p)
        PROVE  Outcome
    <3>1. CASE file[cur[p]] # None
      BY <2>4, <3>1 DEF Hash, Goto, TypeOK, ControlType
    <3>2. CASE file[cur[p]] = None
      BY <1>a, <2>4, <3>2 DEF Hash
    <3>3. QED
      BY <3>1, <3>2
  <2>5. ASSUME Register(p)
        PROVE  Outcome
    BY <1>b, <2>5 DEF Register
  <2>6. ASSUME Fence(p)
        PROVE  Outcome
    <3>1. CASE FilesPresent(p)
      BY <2>6, <3>1 DEF Fence, Goto, TypeOK, ControlType, publication
    <3>2. CASE ~ FilesPresent(p)
      BY <1>a, <2>6, <3>2 DEF Fence
    <3>3. QED
      BY <3>1, <3>2
  <2>7. ASSUME Insert(p)
        PROVE  Outcome
    BY <1>a, <2>7 DEF Insert
  <2>8. ASSUME Acknowledge(p)
        PROVE  Outcome
    BY <2>8 DEF Acknowledge, Goto, TypeOK, ControlType, publication
  <2>9. QED
    BY <2>1, <2>2, <2>3, <2>4, <2>5, <2>6, <2>7, <2>8 DEF PublisherStep
<1>4. serial'[p] \in {serial[p], 0} /\ serial[p] \in Nat /\ started \in Nat
  BY <1>3 DEF TypeOK, PublisherType, StoreType
<1>5. Serials'
  <2>1. ASSUME NEW q \in Publisher
        PROVE  serial'[q] <= started'
    BY <1>1, <1>2, <1>4 DEF Serials
  <2>2. ASSUME NEW q \in Publisher, pc'[q] \notin {"idle", "registered_missing"}
        PROVE  serial'[q] # 0
    <3>1. CASE q = p
      BY <1>3, <2>2, <3>1 DEF Serials
    <3>2. CASE q # p
      BY <1>2, <2>2, <3>2 DEF Serials
    <3>3. QED
      BY <3>1, <3>2
  <2>3. ASSUME NEW q \in Publisher, NEW o \in Publisher \ {q}, serial'[q] # 0
        PROVE  serial'[q] # serial'[o]
    <3>1. serial'[q] = serial[q] /\ serial'[o] \in {serial[o], 0}
      BY <1>2, <1>4, <2>3
    <3>2. QED
      BY <2>3, <3>1 DEF Serials
  <2>4. ASSUME NEW q \in Publisher, pc'[q] \in {"recheck", "link"}
        PROVE  cur'[q] \notin DOMAIN files'[q]
    <3>1. CASE q = p
      BY <1>3, <2>4, <3>1 DEF Serials
    <3>2. CASE q # p
      BY <1>2, <2>4, <3>2 DEF Serials
    <3>3. QED
      BY <3>1, <3>2
  <2>5. QED
    BY <2>1, <2>2, <2>3, <2>4 DEF Serials
<1>6. ASSUME NEW q \in Publisher, NEW t \in Table, MayLink(q, t)'
      PROVE  MayLink(q, t) /\ serial'[q] = serial[q]
  <2>1. /\ serial'[q] # 0
        /\ t \notin DOMAIN files'[q]
        /\ ~ (pc'[q] \in {"hash", "register"} /\ cur'[q] = t)
    BY <1>6 DEF MayLink
  <2>2. CASE q = p
    BY <1>3, <2>1, <2>2 DEF MayLink
  <2>3. CASE q # p
    BY <1>2, <2>1, <2>3 DEF MayLink
  <2>4. QED
    BY <2>2, <2>3
<1>7. \A t \in Table : Remembered(t)' \subseteq Remembered(t)
  BY <1>1, RememberedKept DEF cleaning
<1>8. started' >= started
  BY <1>1, <1>4
<1>9. QED
  BY <1>5, <1>6, <1>7, <1>8, LinkedOnceKept

(* The one step that makes a file: it carries a serial that no file of the *)
(* table, present or frozen, has.                                          *)
LEMMA LinkStep ==
  ASSUME TypeOK, TypeOK', CleanupInv, NEW p \in Publisher, Link(p)
  PROVE  CleanupInv'
<1> p \in Process
  BY DEF Process
<1> USE BTStoreAssumption DEF CleanupInv
<1>1. PICK e \in Encoding : file' = [file EXCEPT ![cur[p]] = [enc |-> e, by |-> serial[p]]]
  BY DEF Link
<1> DEFINE u == cur[p]
           new == [enc |-> e, by |-> serial[p]]
<1>2. /\ pc[p] = "link" /\ u \in Table /\ file[u] = None
      /\ UNCHANGED <<cur, publication, cleaning, started>>
      /\ pc'[p] = "hash" /\ \A q \in Process \ {p} : pc'[q] = pc[q]
  BY DEF Link, Goto, TypeOK, ControlType, bounds
<1>3. new \in Artifact /\ new # None /\ new.by = serial[p]
  BY DEF Artifact, TypeOK, PublisherType
<1>4. file'[u] = new /\ \A t \in Table \ {u} : file'[t] = file[t]
  BY <1>1, <1>2 DEF TypeOK, StoreType
<1>5. serial[p] # 0 /\ MayLink(p, u)
  BY <1>2 DEF Serials, MayLink
<1>6. ASSUME NEW c \in Cleaner, Frozen(c, u)
      PROVE  cleanup[c].candidates[u] # new
  <2>1. cleanup[c].candidates[u] \in Remembered(u)
    BY <1>6, FrozenType DEF Remembered, Frozen
  <2>2. QED
    BY <1>2, <1>3, <1>5, <2>1 DEF LinkedOnce
<1>7. Serials'
  BY <1>2 DEF Serials, publication, Process
<1>8. LinkedOnce'
  <2> SUFFICES ASSUME NEW t \in Table, NEW a \in Remembered(t)'
               PROVE  /\ a.by <= started'
                      /\ \A q \in Publisher : MayLink(q, t)' => a.by # serial'[q]
    BY DEF LinkedOnce
  <2>1. a \in Remembered(t) \/ (t = u /\ a = new)
    BY <1>2, <1>4 DEF Remembered, Frozen, cleaning
  <2>2. \A q \in Publisher : MayLink(q, t)' => MayLink(q, t) /\ serial'[q] = serial[q] /\ (q # p \/ t # u)
    BY <1>2 DEF MayLink, publication, Process
  <2>3. CASE a \in Remembered(t)
    BY <1>2, <2>2, <2>3 DEF LinkedOnce
  <2>4. CASE t = u /\ a = new
    BY <1>2, <1>3, <1>5, <2>2, <2>4 DEF Serials
  <2>5. QED
    BY <2>1, <2>3, <2>4
<1>9. CandidateOpen' /\ CompletedCandidatesGone'
  <2>1. ASSUME NEW c \in Cleaner
        PROVE  pc'[c] = pc[c] /\ cur'[c] = cur[c]
    BY <1>2 DEF Process
  <2>2. ASSUME NEW c \in Cleaner, NEW t \in Table, file'[t] # file[t]
        PROVE  /\ ~ (pc[c] = "unlink" /\ cur[c] = t)
               /\ Frozen(c, t) => file'[t] # cleanup[c].candidates[t]
    <3>1. t = u
      BY <1>4, <2>2
    <3>2. pc[c] = "unlink" => file[cur[c]] = cleanup[c].candidates[cur[c]] /\ Frozen(c, cur[c])
      BY FrozenType DEF CandidateOpen, Frozen
    <3>3. QED
      BY <1>2, <1>4, <1>6, <3>1, <3>2, FrozenType DEF Frozen
  <2>3. QED
    BY <1>2, <2>1, <2>2, QuietCleaners
<1>10. QED
  BY <1>7, <1>8, <1>9

(* A cleaner's own step: it leaves publishers and other cleaners alone.    *)
LEMMA CleanerOwn ==
  ASSUME TypeOK, NEW c \in Cleaner,
         CleanerStep(c) \/ \E scope \in SUBSET Table : PlanCleanup(c, scope)
  PROVE  /\ UNCHANGED <<publication, started>>
         /\ \A p \in Publisher : pc'[p] = pc[p] /\ cur'[p] = cur[p]
         /\ \A d \in Cleaner \ {c} :
              /\ pc'[d] = pc[d] /\ cur'[d] = cur[d]
              /\ cleanup'[d] = cleanup[d] /\ done'[d] = done[d]
<1>1. UNCHANGED <<publication, started>>
  BY DEF CleanerStep, PlanCleanup, AdmitCleanup, OpenCandidate, UnlinkCandidate, JournalCandidate,
     FinishCleanup, bounds
<1>2. /\ UNCHANGED pc \/ \E label : Goto(c, label)
      /\ UNCHANGED cur \/ \E t : cur' = [cur EXCEPT ![c] = t]
      /\ UNCHANGED cleanup \/ \E x : cleanup' = [cleanup EXCEPT ![c] = x]
      /\ UNCHANGED done \/ \E x : done' = [done EXCEPT ![c] = x]
  <2>1. CASE \E scope \in SUBSET Table : PlanCleanup(c, scope)
    BY <2>1 DEF PlanCleanup
  <2>2. CASE AdmitCleanup(c)
    BY <2>2 DEF AdmitCleanup, cleaning
  <2>3. CASE \E t \in Table : OpenCandidate(c, t)
    BY <2>3 DEF OpenCandidate, DropCleanup, cleaning
  <2>4. CASE UnlinkCandidate(c)
    BY <2>4 DEF UnlinkCandidate, cleaning
  <2>5. CASE JournalCandidate(c)
    <3>1. Goto(c, "cleaning") /\ cur' = [cur EXCEPT ![c] = None] /\ UNCHANGED cleanup
          /\ done' = [done EXCEPT ![c] = done[c] \union {cur[c]}]
      BY <2>5 DEF JournalCandidate
    <3>2. QED
      BY <3>1
  <2>6. CASE FinishCleanup(c)
    BY <2>6 DEF FinishCleanup, DropCleanup
  <2>7. QED
    BY <2>1, <2>2, <2>3, <2>4, <2>5, <2>6 DEF CleanerStep
<1>3. c \notin Publisher /\ c \in Process
  BY BTStoreAssumption DEF Process
<1>4. QED
  BY <1>1, <1>2, <1>3 DEF TypeOK, ControlType, CleanerType, Goto, Process

(* What one cleaner's part of the invariant is about. *)
Opened(c) ==
  /\ done[c] # None => done[c] \subseteq DOMAIN cleanup[c].candidates
  /\ pc[c] \in {"unlink", "journal"} => cur[c] \in DOMAIN cleanup[c].candidates \ done[c]
  /\ pc[c] = "unlink" => file[cur[c]] = cleanup[c].candidates[cur[c]]
  /\ pc[c] = "journal" => file[cur[c]] # cleanup[c].candidates[cur[c]]
  /\ done[c] # None => \A t \in done[c] : file[t] # cleanup[c].candidates[t]

LEMMA OpenedParts == CandidateOpen /\ CompletedCandidatesGone <=> \A c \in Cleaner : Opened(c)
  BY DEF Opened, CandidateOpen, CompletedCandidatesGone

LEMMA CleanerCleanupStep ==
  ASSUME TypeOK, TypeOK', IInv, CleanupInv, NEW c \in Cleaner,
         CleanerStep(c) \/ \E scope \in SUBSET Table : PlanCleanup(c, scope)
  PROVE  CleanupInv'
<1> USE BTStoreAssumption DEF CleanupInv
<1> c \in Process
  BY DEF Process
<1>1. /\ UNCHANGED <<publication, started>>
      /\ \A p \in Publisher : pc'[p] = pc[p] /\ cur'[p] = cur[p]
      /\ \A d \in Cleaner \ {c} :
           /\ pc'[d] = pc[d] /\ cur'[d] = cur[d]
           /\ cleanup'[d] = cleanup[d] /\ done'[d] = done[d]
  BY CleanerOwn
<1>2. \A d \in Cleaner : Opened(d)
  BY OpenedParts
<1>3. ASSUME NEW d \in Cleaner \ {c}, UNCHANGED file
      PROVE  Opened(d)'
  BY <1>1, <1>2, <1>3 DEF Opened
<1> DEFINE Frees == \A t \in Table : Remembered(t)' \subseteq Remembered(t)
<1>4. ASSUME UNCHANGED file, UNCHANGED cleanup \/ cleanup' = [cleanup EXCEPT ![c] = None]
      PROVE  Frees
  <2>1. \A d \in Cleaner, t \in Table : Frozen(d, t)' => Frozen(d, t) /\ cleanup'[d] = cleanup[d]
    BY <1>4 DEF Frozen, TypeOK, CleanerType
  <2>2. QED
    BY <1>4, <2>1 DEF Remembered
<1>5. ASSUME DropCleanup(c)
      PROVE  Opened(c)'
  BY <1>5 DEF DropCleanup, Goto, Opened, TypeOK, ControlType, CleanerType
<1>6. ASSUME NEW scope \in SUBSET Table, PlanCleanup(c, scope)
      PROVE  Frees /\ \A d \in Cleaner : Opened(d)'
  <2>1. done[c] = None /\ done'[c] = None /\ pc'[c] = "idle" /\ UNCHANGED file
    BY <1>6, FrozenType DEF PlanCleanup
  <2>2. Opened(c)'
    BY <2>1 DEF Opened
  <2>3. Frees
    <3>1. cleanup'[c] = CleanupPlan(scope)
      BY <1>6 DEF PlanCleanup, TypeOK, CleanerType
    <3>2. \A t \in DOMAIN cleanup'[c].candidates : cleanup'[c].candidates[t] = file[t]
      BY <3>1 DEF CleanupPlan
    <3>3. QED
      BY <1>1, <2>1, <3>2 DEF Remembered, Frozen
  <2>4. QED
    BY <1>3, <2>1, <2>2, <2>3
<1>7. ASSUME AdmitCleanup(c)
      PROVE  Frees /\ \A d \in Cleaner : Opened(d)'
  <2>1. UNCHANGED file /\ pc[c] = "idle"
    BY <1>7 DEF AdmitCleanup
  <2>2. CASE done' = [done EXCEPT ![c] = {}] /\ Goto(c, "cleaning") /\ UNCHANGED cleanup
    <3>1. done'[c] = {} /\ pc'[c] = "cleaning"
      BY <2>2 DEF Goto, TypeOK, ControlType, CleanerType
    <3>2. Opened(c)'
      BY <3>1 DEF Opened
    <3>3. QED
      BY <1>3, <1>4, <2>1, <2>2, <3>2
  <2>3. CASE done[c] = None /\ cleanup' = [cleanup EXCEPT ![c] = None] /\ UNCHANGED <<pc, done>>
    <3>1. Opened(c)'
      BY <2>1, <2>3 DEF Opened
    <3>2. QED
      BY <1>3, <1>4, <2>1, <2>3, <3>1
  <2>4. CASE Goto(c, "cleaning") /\ UNCHANGED cleaning
    <3>1. Opened(c)'
      BY <1>2, <2>1, <2>4 DEF Opened, Goto, TypeOK, ControlType, cleaning
    <3>2. QED
      BY <1>3, <1>4, <2>1, <2>4, <3>1 DEF cleaning
  <2>5. QED
    BY <1>7, <2>2, <2>3, <2>4 DEF AdmitCleanup
<1>8. ASSUME NEW t \in Table, OpenCandidate(c, t)
      PROVE  Frees /\ \A d \in Cleaner : Opened(d)'
  <2>1. UNCHANGED file /\ t \in DOMAIN cleanup[c].candidates \ done[c] /\ pc[c] = "cleaning"
    BY <1>8 DEF OpenCandidate
  <2>2. CASE /\ SameFile(c, t)
             /\ cur' = [cur EXCEPT ![c] = t]
             /\ Goto(c, IF file[t] = None THEN "journal" ELSE "unlink")
             /\ UNCHANGED cleaning
    <3>1. cur'[c] = t /\ cleanup'[c] = cleanup[c] /\ done'[c] = done[c]
          /\ pc'[c] = IF file[t] = None THEN "journal" ELSE "unlink"
      BY <2>2 DEF Goto, TypeOK, ControlType, cleaning
    <3>2. cleanup[c].candidates[t] # None
      BY <2>1, FrozenType
    <3>3. Opened(c)'
      BY <1>2, <2>1, <2>2, <3>1, <3>2 DEF Opened, SameFile
    <3>4. QED
      BY <1>3, <1>4, <2>1, <2>2, <3>3 DEF cleaning
  <2>3. CASE DropCleanup(c)
    BY <1>3, <1>4, <1>5, <2>1, <2>3 DEF DropCleanup
  <2>4. QED
    BY <1>8, <2>2, <2>3 DEF OpenCandidate
<1>9. ASSUME UnlinkCandidate(c)
      PROVE  Frees /\ \A d \in Cleaner : Opened(d)'
  <2> DEFINE t == cur[c]
  <2>1. /\ pc[c] = "unlink" /\ pc'[c] = "journal" /\ UNCHANGED <<cur, cleaning>>
        /\ t \in Table /\ file' = [file EXCEPT ![t] = None] /\ writer = c
    BY <1>9 DEF UnlinkCandidate, Goto, TypeOK, ControlType, IInv, FencedUnlink
  <2>2. file'[t] = None /\ \A u \in Table \ {t} : file'[u] = file[u]
    BY <2>1 DEF TypeOK, StoreType
  <2>3. Frees
    BY <2>1, <2>2, RememberedKept DEF cleaning
  <2>4. ASSUME NEW d \in Cleaner, NEW u \in DOMAIN cleanup[d].candidates, cleanup[d] # None
        PROVE  u \in Table /\ cleanup[d].candidates[u] # None
    BY <2>4, FrozenType
  <2>5. t \in DOMAIN cleanup[c].candidates \ done[c] /\ cleanup[c] # None
    BY <1>2, <2>1, FrozenType DEF Opened
  <2>6. ASSUME NEW d \in Cleaner
        PROVE  Opened(d)'
    <3>1. cleanup'[d] = cleanup[d] /\ done'[d] = done[d] /\ cur'[d] = cur[d]
      BY <2>1 DEF cleaning
    <3>2. ASSUME done[d] # None, NEW u \in done[d]
          PROVE  file'[u] # cleanup[d].candidates[u]
      <4>1. u \in DOMAIN cleanup[d].candidates /\ cleanup[d] # None
            /\ file[u] # cleanup[d].candidates[u]
        BY <1>2, <3>2, FrozenType DEF Opened
      <4>2. QED
        BY <2>2, <2>4, <4>1
    <3>3. pc'[d] # "unlink"
      BY <1>1, <2>1 DEF IInv, FencedUnlink
    <3>4. ASSUME pc'[d] = "journal"
          PROVE  /\ cur[d] \in DOMAIN cleanup[d].candidates \ done[d]
                 /\ file'[cur[d]] # cleanup[d].candidates[cur[d]]
      <4>1. d = c
        BY <1>1, <2>1, <3>4 DEF IInv, FencedUnlink
      <4>2. QED
        BY <2>2, <2>4, <2>5, <4>1
    <3>5. done[d] # None => done[d] \subseteq DOMAIN cleanup[d].candidates
      BY <1>2 DEF Opened
    <3>6. QED
      BY <3>1, <3>2, <3>3, <3>4, <3>5 DEF Opened
  <2>7. QED
    BY <2>3, <2>6
<1>10. ASSUME JournalCandidate(c)
       PROVE  Frees /\ \A d \in Cleaner : Opened(d)'
  <2>1. /\ pc[c] = "journal" /\ pc'[c] = "cleaning" /\ UNCHANGED <<file, cleanup>>
        /\ done'[c] = done[c] \union {cur[c]} /\ done[c] # None
    BY <1>10, FrozenType DEF JournalCandidate, Goto, TypeOK, ControlType, CleanerType
  <2>2. Opened(c)'
    BY <1>2, <2>1 DEF Opened
  <2>3. QED
    BY <1>3, <1>4, <2>1, <2>2
<1>11. ASSUME FinishCleanup(c)
       PROVE  Frees /\ \A d \in Cleaner : Opened(d)'
  BY <1>3, <1>4, <1>5, <1>11 DEF FinishCleanup, DropCleanup
<1>12. Frees /\ \A d \in Cleaner : Opened(d)'
  BY <1>6, <1>7, <1>8, <1>9, <1>10, <1>11 DEF CleanerStep
<1>13. CandidateOpen' /\ CompletedCandidatesGone'
  BY <1>12, OpenedParts DEF Opened, CandidateOpen, CompletedCandidatesGone
<1>14. Serials' /\ LinkedOnce'
  BY <1>1, <1>12, QuietPublishers
<1>15. QED
  BY <1>13, <1>14

LEMMA ReleaserCleanupStep ==
  ASSUME TypeOK, TypeOK', IInv, CleanupInv, NEW r \in Releaser,
         ReleaserStep(r) \/ \E es \in SUBSET Evaluation : PlanRelease(r, es)
  PROVE  CleanupInv'
<1> USE BTStoreAssumption DEF CleanupInv
<1>1. UNCHANGED <<publication, cleaning, cur, started>> /\ (UNCHANGED pc \/ \E label : Goto(r, label))
  BY DEF ReleaserStep, PlanRelease, Retire, ResumeRelease, OpenRelease, ReleaseFile, RefuseFile,
     CommitRelease, CompleteRelease, bounds
<1>2. \A p \in Publisher \union Cleaner : pc'[p] = pc[p] /\ cur'[p] = cur[p]
  BY <1>1 DEF Goto, TypeOK, ControlType, Process
<1>3. UNCHANGED file \/ \E t \in Table : ReleaseFile(r, t)
  BY DEF ReleaserStep, PlanRelease, Retire, ResumeRelease, OpenRelease, RefuseFile,
     CommitRelease, CompleteRelease
<1>4. \A t \in Table :
        \/ file'[t] = file[t]
        \/ file'[t] = None /\ \A c \in Cleaner : pc[c] # "unlink"
  <2>1. ASSUME NEW t \in Table, ReleaseFile(r, t)
        PROVE  \A c \in Cleaner : pc[c] # "unlink"
    <3>1. writer = r /\ r \notin Cleaner
      BY <2>1 DEF ReleaseFile, IInv, FencedRelease
    <3>2. QED
      BY <3>1 DEF IInv, FencedUnlink
  <2>2. ASSUME NEW t \in Table, ReleaseFile(r, t), NEW u \in Table
        PROVE  file'[u] = file[u] \/ file'[u] = None
    BY <2>2 DEF ReleaseFile, TypeOK, StoreType
  <2>3. QED
    BY <1>3, <2>1, <2>2
<1>5. \A t \in Table : Remembered(t)' \subseteq Remembered(t)
  BY <1>1, <1>4, RememberedKept DEF cleaning
<1>6. Serials' /\ LinkedOnce'
  BY <1>1, <1>2, <1>5, QuietPublishers
<1>7. \A c \in Cleaner, t \in Table : Frozen(c, t) => cleanup[c].candidates[t] # None
  BY FrozenType DEF Frozen
<1>8. CandidateOpen' /\ CompletedCandidatesGone'
  BY <1>1, <1>2, <1>4, <1>7, QuietCleaners
<1>9. QED
  BY <1>6, <1>8

(* A new publication takes a serial that no file has.                      *)
LEMMA StartCleanupStep ==
  ASSUME TypeOK, TypeOK', CleanupInv, NEW p \in Publisher, NEW e \in Evaluation,
         NEW tables \in SUBSET Table, StartPublication(p, e, tables)
  PROVE  CleanupInv'
<1> USE BTStoreAssumption DEF CleanupInv
<1> p \in Process /\ started \in Nat
  BY DEF Process, TypeOK, StoreType
<1>1. /\ UNCHANGED <<file, files, cur, cleaning>>
      /\ started' = started + 1 /\ serial'[p] = started + 1 /\ pc'[p] = "saving"
      /\ \A q \in Process \ {p} : pc'[q] = pc[q]
      /\ \A q \in Publisher \ {p} : serial'[q] = serial[q]
  BY DEF StartPublication, Goto, TypeOK, ControlType, PublisherType
<1>2. \A q \in Publisher : serial[q] \in Nat /\ serial[q] <= started
  BY DEF Serials, TypeOK, PublisherType
<1>3. Serials'
  <2>1. ASSUME NEW q \in Publisher
        PROVE  /\ serial'[q] <= started'
               /\ pc'[q] \notin {"idle", "registered_missing"} => serial'[q] # 0
               /\ pc'[q] \in {"recheck", "link"} => cur'[q] \notin DOMAIN files'[q]
    BY <1>1, <1>2 DEF Serials, Process
  <2>2. ASSUME NEW q \in Publisher, NEW o \in Publisher \ {q}, serial'[q] # 0
        PROVE  serial'[q] # serial'[o]
    BY <1>1, <1>2, <2>2 DEF Serials
  <2>3. QED
    BY <2>1, <2>2 DEF Serials
<1>4. LinkedOnce'
  <2> SUFFICES ASSUME NEW t \in Table, NEW a \in Remembered(t)'
               PROVE  /\ a.by <= started'
                      /\ \A q \in Publisher : MayLink(q, t)' => a.by # serial'[q]
    BY DEF LinkedOnce
  <2>1. a \in Remembered(t) /\ a \in Artifact
    BY <1>1 DEF Remembered, Frozen, cleaning
  <2>2. a.by \in Nat /\ a.by <= started
    BY <2>1 DEF LinkedOnce, Artifact
  <2>3. \A q \in Publisher \ {p} : MayLink(q, t)' => MayLink(q, t) /\ serial'[q] = serial[q]
    BY <1>1 DEF MayLink, Process
  <2>4. QED
    BY <1>1, <2>1, <2>2, <2>3 DEF LinkedOnce
<1>5. CandidateOpen' /\ CompletedCandidatesGone'
  <2>1. \A c \in Cleaner : pc'[c] = pc[c] /\ cur'[c] = cur[c]
    BY <1>1 DEF Process
  <2>2. QED
    BY <1>1, <2>1, QuietCleaners
<1>6. QED
  BY <1>3, <1>4, <1>5

LEMMA InterruptCleanupStep ==
  ASSUME TypeOK, TypeOK', CleanupInv, NEW p \in Process, Interrupt(p)
  PROVE  CleanupInv'
<1> USE BTStoreAssumption DEF CleanupInv
<1>1. /\ UNCHANGED <<file, cleaning, started>> /\ pc'[p] = "idle"
      /\ \A q \in Process \ {p} : pc'[q] = pc[q] /\ cur'[q] = cur[q]
      /\ \A q \in Publisher \ {p} : serial'[q] = serial[q] /\ files'[q] = files[q]
      /\ p \in Publisher => serial'[p] = 0
  BY DEF Interrupt, Return, Goto, TypeOK, ControlType, PublisherType, publication
<1>2. \A t \in Table : Remembered(t)' \subseteq Remembered(t)
  BY <1>1, RememberedKept DEF cleaning
<1>3. \A q \in Publisher, t \in Table : MayLink(q, t)' => MayLink(q, t) /\ serial'[q] = serial[q]
  BY <1>1 DEF MayLink, Process
<1>4. started \in Nat /\ \A q \in Publisher : serial[q] \in Nat
  BY DEF TypeOK, StoreType, PublisherType
<1>5. Serials'
  <2>1. ASSUME NEW q \in Publisher
        PROVE  /\ serial'[q] <= started'
               /\ pc'[q] \notin {"idle", "registered_missing"} => serial'[q] # 0
               /\ pc'[q] \in {"recheck", "link"} => cur'[q] \notin DOMAIN files'[q]
    BY <1>1, <1>4 DEF Serials, Process
  <2>2. ASSUME NEW q \in Publisher, NEW o \in Publisher \ {q}, serial'[q] # 0
        PROVE  serial'[q] # serial'[o]
    BY <1>1, <2>2 DEF Serials
  <2>3. QED
    BY <2>1, <2>2 DEF Serials
<1>6. LinkedOnce'
  BY <1>1, <1>2, <1>3, <1>4, LinkedOnceKept
<1>7. CandidateOpen' /\ CompletedCandidatesGone'
  <2>1. \A c \in Cleaner : pc'[c] = "idle" \/ (pc'[c] = pc[c] /\ cur'[c] = cur[c])
    BY <1>1 DEF Process
  <2>2. QED
    BY <1>1, <2>1, QuietCleaners
<1>8. QED
  BY <1>5, <1>6, <1>7

LEMMA CleanupInitial == Init => CleanupInv
<1> SUFFICES ASSUME Init
             PROVE  CleanupInv
  OBVIOUS
<1>1. \A p \in Process : pc[p] = "idle"
  BY DEF Init
<1>2. \A t \in Table : Remembered(t) = {}
  BY BTStoreAssumption DEF Init, Remembered, Frozen
<1>3. Serials
  BY <1>1 DEF Init, Serials, Process
<1>4. LinkedOnce
  BY <1>2 DEF LinkedOnce
<1>5. CandidateOpen /\ CompletedCandidatesGone
  BY <1>1 DEF Init, CandidateOpen, CompletedCandidatesGone, Process
<1>6. QED
  BY <1>3, <1>4, <1>5 DEF CleanupInv

LEMMA CleanupStep ==
  TypeOK /\ TypeOK' /\ IInv /\ CleanupInv /\ [Next]_vars => CleanupInv'
<1> SUFFICES ASSUME TypeOK, TypeOK', IInv, CleanupInv, [Next]_vars
             PROVE  CleanupInv'
  OBVIOUS
<1>1. ASSUME UNCHANGED <<file, publication, cleaning, pc, cur, started>>
      PROVE  CleanupInv'
  <2>1. Serials' /\ LinkedOnce'
    BY <1>1, RememberedKept, QuietPublishers DEF CleanupInv, cleaning
  <2>2. CandidateOpen' /\ CompletedCandidatesGone'
    BY <1>1, QuietCleaners DEF CleanupInv
  <2>3. QED
    BY <2>1, <2>2 DEF CleanupInv
<1>2. ASSUME NEW e \in Evaluation, Begin(e)
      PROVE  CleanupInv'
  BY <1>1, <1>2 DEF Begin, bounds
<1>3. ASSUME UNCHANGED vars
      PROVE  CleanupInv'
  BY <1>1, <1>3 DEF vars, bounds
<1>4. ASSUME NEW p \in Publisher, PublisherStep(p)
      PROVE  CleanupInv'
  <2>1. CASE Link(p)
    BY <2>1, LinkStep
  <2>2. CASE ~ Link(p)
    <3>1. Serials' /\ LinkedOnce'
      BY <1>4, <2>2, PublisherMoves DEF CleanupInv
    <3>2. /\ UNCHANGED <<file, cleaning>>
          /\ UNCHANGED pc \/ \E label : Goto(p, label)
          /\ UNCHANGED cur \/ \E x : cur' = [cur EXCEPT ![p] = x]
      BY <1>4, <2>2 DEF PublisherStep, Resolve, RegisteredHit, Saved, Return, Recheck, LinkExists,
         Hash, Register, Fence, Insert, Acknowledge
    <3>3. \A c \in Cleaner : pc'[c] = pc[c] /\ cur'[c] = cur[c]
      BY <3>2, BTStoreAssumption DEF Goto, TypeOK, ControlType, Process
    <3>4. CandidateOpen' /\ CompletedCandidatesGone'
      BY <3>2, <3>3, QuietCleaners DEF CleanupInv
    <3>5. QED
      BY <3>1, <3>4 DEF CleanupInv
  <2>3. QED
    BY <2>1, <2>2
<1>5. QED
  BY <1>2, <1>3, <1>4, StartCleanupStep, CleanerCleanupStep, ReleaserCleanupStep, InterruptCleanupStep
     DEF Next

(* Serials, plans and the open candidate of every cleaner.                 *)
THEOREM CleanupInvariant == Spec => []CleanupInv
  BY CleanupInitial, CleanupStep, TypeCorrect, InductiveInvariant, PTL DEF Spec

(* What a cleanup receipt counts as deleted is the file its plan froze,    *)
(* and that file never comes back: not when the cleaner stopped between    *)
(* the unlink and the receipt, and not when a publisher wrote the same     *)
(* content again in the meantime.                                          *)
THEOREM DeletedStaysDeleted == Spec => []CompletedCandidatesGone
<1>1. CleanupInv => CompletedCandidatesGone
  BY DEF CleanupInv
<1>2. QED
  BY <1>1, CleanupInvariant, PTL

LEMMA FrozenStep == TypeOK /\ IInv /\ CleanupInv /\ [Next]_vars => OnlyFrozenDeleted
<1> SUFFICES ASSUME TypeOK, IInv, CleanupInv, [Next]_vars,
                    NEW t \in Table, NEW c \in Cleaner,
                    writer = c, file[t] # None, file'[t] # file[t]
             PROVE  /\ done[c] # None
                    /\ t \in DOMAIN cleanup[c].candidates \ done[c]
                    /\ file[t] = cleanup[c].candidates[t]
                    /\ file'[t] = None
  BY DEF OnlyFrozenDeleted
<1>1. ~ \E p \in Publisher : Link(p)
  <2>1. ASSUME NEW p \in Publisher, Link(p)
        PROVE  FALSE
    <3>1. file'[t] = file[t] \/ t = cur[p]
      BY <2>1 DEF Link, TypeOK, StoreType
    <3>2. QED
      BY <2>1, <3>1 DEF Link
  <2>2. QED
    BY <2>1
<1>2. ~ \E r \in Releaser, u \in Table : ReleaseFile(r, u)
  BY BTStoreAssumption DEF ReleaseFile, IInv, FencedRelease
<1>3. \E d \in Cleaner : UnlinkCandidate(d)
  <2>1. ASSUME NEW p \in Publisher, PublisherStep(p)
        PROVE  FALSE
    BY <1>1, <2>1 DEF PublisherStep, Resolve, Recheck, LinkExists, Hash, Register, Fence, Insert,
       Acknowledge
  <2>2. ASSUME NEW d \in Cleaner, CleanerStep(d) \/ \E scope \in SUBSET Table : PlanCleanup(d, scope)
        PROVE  UnlinkCandidate(d)
    BY <2>2 DEF CleanerStep, PlanCleanup, AdmitCleanup, OpenCandidate, JournalCandidate, FinishCleanup
  <2>3. ASSUME NEW r \in Releaser, ReleaserStep(r) \/ \E es \in SUBSET Evaluation : PlanRelease(r, es)
        PROVE  FALSE
    BY <1>2, <2>3 DEF ReleaserStep, PlanRelease, Retire, ResumeRelease, OpenRelease, RefuseFile,
       CommitRelease, CompleteRelease
  <2>4. ~ \/ \E e \in Evaluation : Begin(e)
          \/ \E p \in Publisher, e \in Evaluation, tables \in SUBSET Table : StartPublication(p, e, tables)
          \/ \E p \in Process : Interrupt(p)
          \/ UNCHANGED vars
    BY DEF Begin, StartPublication, Interrupt, vars
  <2>5. QED
    BY <2>1, <2>2, <2>3, <2>4 DEF Next
<1>4. UnlinkCandidate(c) /\ pc[c] = "unlink"
  BY <1>3 DEF UnlinkCandidate, IInv, FencedUnlink
<1>5. t = cur[c] /\ file'[t] = None
  BY <1>4 DEF UnlinkCandidate, TypeOK, StoreType
<1>6. t \in DOMAIN cleanup[c].candidates \ done[c] /\ file[t] = cleanup[c].candidates[t]
  BY <1>4, <1>5 DEF CleanupInv, CandidateOpen
<1>7. QED
  BY <1>4, <1>5, <1>6, FrozenType

(* A cleaner removes a file only while it still is the file that its       *)
(* admitted plan froze and its receipt does not count yet.                 *)
THEOREM CleanupRemovesItsPlan == Spec => CleanupDeletesExactlyItsPlan
  BY FrozenStep, TypeCorrect, InductiveInvariant, CleanupInvariant, PTL
     DEF Spec, CleanupDeletesExactlyItsPlan

(***************************************************************************)
(* The store implements ReceiptAuthority: Link stores a table, the two     *)
(* unlinks discard one that no chapter names, Insert commits a chapter,    *)
(* Retire retires a plan's evaluations, everything else stutters.          *)
(***************************************************************************)
LEMMA AuthorityInitial == Init => Authority!Init
  BY DEF Init, Authority!Init, Authority!Unchaptered, Committed, Present

LEMMA AuthorityStutter ==
  ASSUME UNCHANGED <<file, chapters>>
  PROVE  UNCHANGED Authority!vars
  BY DEF Authority!vars, Committed, Present

LEMMA AuthorityStore ==
  ASSUME TypeOK, NEW p \in Publisher, Link(p)
  PROVE  Authority!Next
<1>1. cur[p] \in Table
  BY DEF Link, TypeOK, ControlType, Process
<1>2. PICK e \in Encoding : file' = [file EXCEPT ![cur[p]] = [enc |-> e, by |-> serial[p]]]
  BY DEF Link
<1>3. [enc |-> e, by |-> serial[p]] # None
  BY BTStoreAssumption DEF Artifact, TypeOK, PublisherType
<1>4. Present' = Present \union {cur[p]}
  BY <1>1, <1>2, <1>3 DEF Present, TypeOK, StoreType
<1>5. Committed' = Committed
  BY DEF Link, database, Committed
<1>6. Authority!Store(cur[p])
  BY <1>4, <1>5 DEF Authority!Store
<1>7. QED
  BY <1>1, <1>6 DEF Authority!Next

LEMMA AuthorityDiscard ==
  ASSUME TypeOK, NEW t \in Table, t \notin Retained,
         file' = [file EXCEPT ![t] = None], chapters' = chapters
  PROVE  Authority!Next
<1>1. Present' = Present \ {t}
  BY DEF Present, TypeOK, StoreType
<1>2. Committed' = Committed
  BY DEF Committed
<1>3. t \notin Authority!Named(Evaluation)
  BY DEF Authority!Named, Committed, Retained, Named
<1>4. Authority!Discard(t)
  BY <1>1, <1>2, <1>3 DEF Authority!Discard
<1>5. QED
  BY <1>4 DEF Authority!Next

LEMMA AuthorityCommit ==
  ASSUME TypeOK, IInv, NEW p \in Publisher, Insert(p)
  PROVE  [Authority!Next]_Authority!vars
<1> DEFINE e == target[p]
<1>1. e \in Evaluation /\ files[p] \in References /\ DOMAIN files[p] \subseteq Present
  BY DEF Insert, TypeOK, PublisherType, IInv, FencedInsert
<1>2. chapters' = [chapters EXCEPT ![e] = IF @ = None THEN files[p] ELSE @] /\ Present' = Present
  BY DEF Insert, Present
<1>3. CASE chapters[e] # None
  <2>1. chapters' = chapters
    BY <1>1, <1>2, <1>3 DEF TypeOK, StoreType
  <2>2. QED
    BY <1>2, <2>1 DEF Authority!vars, Committed
<1>4. CASE chapters[e] = None
  <2>1. Committed' = [Committed EXCEPT ![e] = DOMAIN files[p]]
    BY <1>1, <1>2, <1>4, BTStoreAssumption DEF Committed, TypeOK, StoreType
  <2>2. Committed[e] = None
    BY <1>1, <1>4 DEF Committed
  <2>3. Authority!Commit(e, DOMAIN files[p])
    BY <1>1, <1>2, <2>1, <2>2 DEF Authority!Commit
  <2>4. DOMAIN files[p] \in SUBSET Table
    BY <1>1, ReferencesDomain
  <2>5. QED
    BY <1>1, <2>3, <2>4 DEF Authority!Next
<1>5. QED
  BY <1>3, <1>4

LEMMA AuthorityRetire ==
  ASSUME TypeOK, NEW r \in Releaser, Retire(r)
  PROVE  [Authority!Next]_Authority!vars
<1> DEFINE es == release[r].evaluations
<1>1. CASE release[r] = ReleasePlan(es)
  <2>1. es \in SUBSET Evaluation
    BY DEF PlanCurrent, Retire, TypeOK, ReleaserType, ReleasePlans
  <2>2. chapters' = [e \in Evaluation |-> IF e \in es THEN None ELSE chapters[e]] /\ Present' = Present
    BY <1>1 DEF PlanCurrent, Retire, Present
  <2>3. Committed' = [e \in Evaluation |-> IF e \in es THEN None ELSE Committed[e]]
    BY <2>2 DEF Committed
  <2>4. Authority!Retire(es)
    BY <2>2, <2>3 DEF Authority!Retire
  <2>5. QED
    BY <2>1, <2>4 DEF Authority!Next
<1>2. CASE release[r] # ReleasePlan(es)
  BY <1>2, AuthorityStutter DEF PlanCurrent, Retire, database
<1>3. QED
  BY <1>1, <1>2

LEMMA AuthorityStep ==
  TypeOK /\ IInv /\ [Next]_vars => [Authority!Next]_Authority!vars
<1> SUFFICES ASSUME TypeOK, IInv, [Next]_vars
             PROVE  [Authority!Next]_Authority!vars
  OBVIOUS
<1>1. ASSUME NEW p \in Publisher, PublisherStep(p)
      PROVE  [Authority!Next]_Authority!vars
  <2>1. CASE Link(p)
    BY <2>1, AuthorityStore
  <2>2. CASE Insert(p)
    BY <2>2, AuthorityCommit
  <2>3. CASE ~ Link(p) /\ ~ Insert(p)
    <3>1. UNCHANGED <<file, chapters>>
      BY <1>1, <2>3 DEF PublisherStep, Resolve, Recheck, LinkExists, Hash, Register, Fence,
         Acknowledge, database
    <3>2. QED
      BY <3>1, AuthorityStutter
  <2>4. QED
    BY <2>1, <2>2, <2>3
<1>2. ASSUME NEW c \in Cleaner, CleanerStep(c) \/ \E scope \in SUBSET Table : PlanCleanup(c, scope)
      PROVE  [Authority!Next]_Authority!vars
  <2>1. CASE UnlinkCandidate(c)
    <3>1. cur[c] \in Table \ Retained
      BY <2>1 DEF UnlinkCandidate, IInv, FencedUnlink, TypeOK, ControlType, Process
    <3>2. QED
      BY <2>1, <3>1, AuthorityDiscard DEF UnlinkCandidate, database
  <2>2. CASE ~ UnlinkCandidate(c)
    <3>1. UNCHANGED <<file, chapters>>
      BY <1>2, <2>2 DEF CleanerStep, PlanCleanup, AdmitCleanup, Unreferenced, SameFile, OpenCandidate, JournalCandidate,
         FinishCleanup, database
    <3>2. QED
      BY <3>1, AuthorityStutter
  <2>3. QED
    BY <2>1, <2>2
<1>3. ASSUME NEW r \in Releaser, ReleaserStep(r) \/ \E es \in SUBSET Evaluation : PlanRelease(r, es)
      PROVE  [Authority!Next]_Authority!vars
  <2>1. CASE Retire(r)
    BY <2>1, AuthorityRetire
  <2>2. ASSUME NEW t \in Table, ReleaseFile(r, t)
        PROVE  [Authority!Next]_Authority!vars
    <3>1. chapters' = chapters /\ Retained \subseteq keep[r]
      BY <2>2 DEF ReleaseFile, database, IInv, FencedRelease
    <3>2. file' = file \/ (t \notin Retained /\ file' = [file EXCEPT ![t] = None])
      BY <2>2, <3>1 DEF ReleaseFile
    <3>3. QED
      BY <3>1, <3>2, AuthorityStutter, AuthorityDiscard
  <2>3. CASE ~ Retire(r) /\ ~ \E t \in Table : ReleaseFile(r, t)
    <3>1. UNCHANGED <<file, chapters>>
      BY <1>3, <2>3 DEF ReleaserStep, PlanRelease, ResumeRelease, OpenRelease, RefuseFile,
         CommitRelease, CompleteRelease, database
    <3>2. QED
      BY <3>1, AuthorityStutter
  <2>4. QED
    BY <2>1, <2>2, <2>3
<1>4. CASE \/ \E e \in Evaluation : Begin(e)
           \/ \E p \in Publisher, e \in Evaluation, tables \in SUBSET Table : StartPublication(p, e, tables)
           \/ \E p \in Process : Interrupt(p)
           \/ UNCHANGED vars
  <2>1. UNCHANGED <<file, chapters>>
    BY <1>4 DEF Begin, StartPublication, Interrupt, database, vars
  <2>2. QED
    BY <2>1, AuthorityStutter
<1>5. QED
  BY <1>1, <1>2, <1>3, <1>4 DEF Next

(* BTStore, with its files, plans, lock and crashes, is a ReceiptAuthority *)
(* for every value of the constants.                                       *)
THEOREM StoreImplementsAuthority == Spec => ImplementsAuthority
  BY AuthorityInitial, AuthorityStep, TypeCorrect, InductiveInvariant, PTL
     DEF Spec, ImplementsAuthority, Authority!Spec

=============================================================================
