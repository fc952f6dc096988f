------------------------------- MODULE BTStore -------------------------------
(***************************************************************************)
(* The artifact authority of bagelquant-bt: numerical Parquet files on     *)
(* disk beside a SQLite database (WAL), shared by processes that publish   *)
(* chapters, clean up orphaned files and retire evaluations.               *)
(*                                                                         *)
(* A file is created with os.link and removed with unlink, outside any     *)
(* transaction; every database change runs under BEGIN IMMEDIATE, i.e.     *)
(* under the single writer lock.  A step that only reads, or a transaction *)
(* that touches no file, is one action.  A transaction that tests or       *)
(* removes files is split, because a file can change, or the process stop, *)
(* in the middle of it.                                                    *)
(***************************************************************************)
EXTENDS Integers, FiniteSets

CONSTANTS
  Table,           \* table identities: digests of canonical content
  Evaluation,      \* evaluation identities; each has one section here
  Publisher,       \* processes that call publish_chapter
  Cleaner,         \* processes that call cleanup_plan and cleanup
  Releaser,        \* processes that call plan_release and apply_release
  Encoding,        \* Parquet encodings (checksums) of the same content
  None,
  MaxPublications, \* bound: how many publications are started
  MaxInterrupts    \* bound: crashes, cancellations and lock timeouts

Process == Publisher \union Cleaner \union Releaser

VARIABLES
  file,       \* the artifact directory: what each table's file holds, or None
  index,      \* bt_table_index: the registered checksum of a table, or None
  evals,      \* bt_evaluations
  chapters,   \* bt_chapters: the references of a committed chapter, or None
  writer,     \* the process inside BEGIN IMMEDIATE, or None
  pc,         \* where each process is
  cur,        \* the table a process is working on
  target, request, known, files, sum, serial,  \* locals of publish_chapter
  cleanup, done,                               \* cleanup plan and its receipt
  release, pending, keep, left,                \* release plan and its journal
  started, interrupts                          \* the two bounded counters

database == <<index, evals, chapters>>
publication == <<target, request, known, files, sum, serial>>
cleaning == <<cleanup, done>>
releasing == <<release, pending, keep, left>>
bounds == <<started, interrupts>>
vars == <<file, index, evals, chapters, writer, pc, cur, publication,
          cleaning, releasing, bounds>>

References == UNION {[S -> Encoding] : S \in SUBSET Table}
Artifact == [enc : Encoding, by : 0..MaxPublications]

(* Tables named by the committed chapters of es. *)
Named(es) ==
  {t \in Table : \E e \in es : chapters[e] # None /\ t \in DOMAIN chapters[e]}

(* inventory()["tables"] *)
Retained == Named(Evaluation)

Present == {t \in Table : file[t] # None}

(* The references a registered lookup of t may return: the index row or,   *)
(* without one, the original reference in a committed receipt.             *)
Originals(t) ==
  {chapters[e][t] : e \in {f \in Evaluation : chapters[f] # None /\ t \in DOMAIN chapters[f]}}
Registered(t) ==
  IF index[t] # None THEN {index[t]}
  ELSE IF Originals(t) # {} THEN Originals(t)
  ELSE {None}

NoFiles == [t \in {} |-> None]

PublisherLabels ==
  {"idle", "saving", "recheck", "link", "hash", "register", "insert", "registered_missing"}
CleanerLabels == {"idle", "cleaning", "unlink", "journal"}
ReleaserLabels == {"idle", "release", "releasing", "complete"}

CleanupPlans ==
  [scope : SUBSET Table, retained : SUBSET Table,
   candidates : UNION {[S -> Artifact] : S \in SUBSET Table}]
ReleasePlans ==
  [evaluations : SUBSET Evaluation,
   registry : (SUBSET Evaluation) \X [Evaluation -> References \union {None}],
   tables : SUBSET Table, files : References]

ASSUME BTStoreAssumption ==
  /\ Publisher \intersect Cleaner = {}
  /\ Publisher \intersect Releaser = {}
  /\ Cleaner \intersect Releaser = {}
  /\ None \notin Encoding \union Process \union Table \union Evaluation
  /\ None \notin Artifact
  /\ None \notin References
  /\ None \notin CleanupPlans
  /\ None \notin ReleasePlans
  /\ \A tables \in SUBSET Table : tables # None
  /\ MaxPublications \in Nat
  /\ MaxInterrupts \in Nat

(* The variables' types, and which locals are set where. *)
StoreType ==
  /\ file \in [Table -> Artifact \union {None}]
  /\ index \in [Table -> Encoding \union {None}]
  /\ evals \in SUBSET Evaluation
  /\ chapters \in [Evaluation -> References \union {None}]
  /\ writer \in Process \union {None}
  /\ started \in 0..MaxPublications
  /\ interrupts \in 0..MaxInterrupts

ControlType ==
  /\ pc \in [Process -> PublisherLabels \union CleanerLabels \union ReleaserLabels]
  /\ cur \in [Process -> Table \union {None}]
  /\ \A p \in Process :
       pc[p] \in {"recheck", "link", "hash", "register", "unlink", "journal"} => cur[p] \in Table

PublisherType ==
  /\ target \in [Publisher -> Evaluation \union {None}]
  /\ request \in [Publisher -> SUBSET Table]
  /\ known \in [Publisher -> [Table -> Encoding \union {None}]]
  /\ files \in [Publisher -> References]
  /\ sum \in [Publisher -> Encoding \union {None}]
  /\ serial \in [Publisher -> 0..MaxPublications]
  /\ \A p \in Publisher :
       /\ pc[p] \in PublisherLabels
       /\ pc[p] = "register" => sum[p] \in Encoding
       /\ pc[p] \notin {"idle", "registered_missing"} => target[p] \in Evaluation

CleanerType ==
  /\ cleanup \in [Cleaner -> CleanupPlans \union {None}]
  /\ done \in [Cleaner -> (SUBSET Table) \union {None}]
  /\ \A c \in Cleaner :
       /\ pc[c] \in CleanerLabels
       /\ pc[c] # "idle" => done[c] # None
       /\ done[c] # None => cleanup[c] # None

ReleaserType ==
  /\ release \in [Releaser -> ReleasePlans \union {None}]
  /\ pending \in [Releaser -> BOOLEAN]
  /\ keep \in [Releaser -> SUBSET Table]
  /\ left \in [Releaser -> SUBSET Table]
  /\ \A r \in Releaser :
       /\ pc[r] \in ReleaserLabels
       /\ pc[r] # "idle" => pending[r]
       /\ pending[r] => release[r] # None

TypeOK == StoreType /\ ControlType /\ PublisherType /\ CleanerType /\ ReleaserType

Init ==
  /\ file = [t \in Table |-> None]
  /\ index = [t \in Table |-> None]
  /\ evals = {}
  /\ chapters = [e \in Evaluation |-> None]
  /\ writer = None
  /\ pc = [p \in Process |-> "idle"]
  /\ cur = [p \in Process |-> None]
  /\ target = [p \in Publisher |-> None]
  /\ request = [p \in Publisher |-> {}]
  /\ known = [p \in Publisher |-> [t \in Table |-> None]]
  /\ files = [p \in Publisher |-> NoFiles]
  /\ sum = [p \in Publisher |-> None]
  /\ serial = [p \in Publisher |-> 0]
  /\ cleanup = [c \in Cleaner |-> None]
  /\ done = [c \in Cleaner |-> None]
  /\ release = [r \in Releaser |-> None]
  /\ pending = [r \in Releaser |-> FALSE]
  /\ keep = [r \in Releaser |-> {}]
  /\ left = [r \in Releaser |-> {}]
  /\ started = 0
  /\ interrupts = 0

Goto(p, label) == pc' = [pc EXCEPT ![p] = label]
Unlocked == writer = None

(***************************************************************************)
(* begin and publish_chapter                                               *)
(***************************************************************************)
Begin(e) ==
  /\ Unlocked
  /\ e \notin evals
  /\ evals' = evals \union {e}
  /\ UNCHANGED <<file, index, chapters, writer, pc, cur, publication, cleaning, releasing, bounds>>

(* The call returns or raises: its locals are gone. *)
Return(p) ==
  /\ target' = [target EXCEPT ![p] = None]
  /\ request' = [request EXCEPT ![p] = {}]
  /\ known' = [known EXCEPT ![p] = [t \in Table |-> None]]
  /\ files' = [files EXCEPT ![p] = NoFiles]
  /\ sum' = [sum EXCEPT ![p] = None]
  /\ serial' = [serial EXCEPT ![p] = 0]
  /\ cur' = [cur EXCEPT ![p] = None]

(* select, hash the frames and resolve every registered table in one batch. *)
StartPublication(p, e, tables) ==
  /\ pc[p] = "idle"
  /\ e \in evals
  /\ started < MaxPublications
  /\ started' = started + 1
  /\ serial' = [serial EXCEPT ![p] = started + 1]
  /\ target' = [target EXCEPT ![p] = e]
  /\ request' = [request EXCEPT ![p] = tables]
  /\ \E found \in [Table -> Encoding \union {None}] :
       /\ \A t \in tables : found[t] \in Registered(t)
       /\ \A t \in Table \ tables : found[t] = None
       /\ known' = [known EXCEPT ![p] = found]
  /\ Goto(p, "saving")
  /\ UNCHANGED <<file, database, writer, cur, files, sum, cleaning, releasing, interrupts>>

(* _save_table returns reference r for table t. *)
Saved(p, t, r) ==
  /\ files' = [files EXCEPT ![p] =
                 [u \in DOMAIN files[p] \union {t} |-> IF u = t THEN r ELSE files[p][u]]]
  /\ cur' = [cur EXCEPT ![p] = None]
  /\ sum' = [sum EXCEPT ![p] = None]
  /\ Goto(p, "saving")
  /\ UNCHANGED <<target, request, known, serial>>

(* A registered hit still needs its file; r is a member of Registered(t). *)
RegisteredHit(p, t, r) ==
  /\ r # None
  /\ \/ file[t] # None /\ Saved(p, t, r)
     \/ file[t] = None /\ Return(p) /\ Goto(p, "registered_missing")

(* The batch's answer is used as it stands; a miss is looked up afresh. *)
Resolve(p, t) ==
  /\ pc[p] = "saving"
  /\ t \in request[p] \ DOMAIN files[p]
  /\ \E r \in IF known[p][t] # None THEN {known[p][t]} ELSE Registered(t) :
       \/ RegisteredHit(p, t, r)
       \/ /\ r = None
          /\ cur' = [cur EXCEPT ![p] = t]
          /\ Goto(p, IF file[t] = None THEN "link" ELSE "recheck")
          /\ UNCHANGED publication
  /\ UNCHANGED <<file, database, writer, cleaning, releasing, bounds>>

(* An existing file may have been registered since the batch was read. *)
Recheck(p) ==
  /\ pc[p] = "recheck"
  /\ \E r \in Registered(cur[p]) :
       \/ RegisteredHit(p, cur[p], r)
       \/ /\ r = None
          /\ Goto(p, IF file[cur[p]] = None THEN "link" ELSE "hash")
          /\ UNCHANGED <<cur, publication>>
  /\ UNCHANGED <<file, database, writer, cleaning, releasing, bounds>>

(* Write a temporary file and link it: link never replaces a file. *)
Link(p) ==
  /\ pc[p] = "link"
  /\ file[cur[p]] = None
  /\ \E e \in Encoding :
       file' = [file EXCEPT ![cur[p]] = [enc |-> e, by |-> serial[p]]]
  /\ Goto(p, "hash")
  /\ UNCHANGED <<database, writer, cur, publication, cleaning, releasing, bounds>>

LinkExists(p) ==
  /\ pc[p] = "link"
  /\ file[cur[p]] # None
  /\ \E r \in Registered(cur[p]) :
       \/ r # None /\ Saved(p, cur[p], r)
       \/ r = None /\ Goto(p, "hash") /\ UNCHANGED <<cur, publication>>
  /\ UNCHANGED <<file, database, writer, cleaning, releasing, bounds>>

(* Prove an orphan's canonical values and take the checksum of its bytes. *)
Hash(p) ==
  /\ pc[p] = "hash"
  /\ \/ /\ file[cur[p]] # None
        /\ sum' = [sum EXCEPT ![p] = file[cur[p]].enc]
        /\ Goto(p, "register")
        /\ UNCHANGED <<cur, target, request, known, files, serial>>
     \/ file[cur[p]] = None /\ Return(p) /\ Goto(p, "idle")
  /\ UNCHANGED <<file, database, writer, cleaning, releasing, bounds>>

(* INSERT OR IGNORE; the caller's own reference is returned either way. *)
Register(p) ==
  /\ pc[p] = "register"
  /\ Unlocked
  /\ index' = [index EXCEPT ![cur[p]] = IF @ = None THEN sum[p] ELSE @]
  /\ Saved(p, cur[p], sum[p])
  /\ UNCHANGED <<file, evals, chapters, writer, cleaning, releasing, bounds>>

(* Mutant: the files were there when they were saved. *)
FilesSaved(p) == DOMAIN files[p] = request[p]
FilesPresent(p) == request[p] \subseteq Present

(* BEGIN IMMEDIATE and _require_publication_files. *)
Fence(p) ==
  /\ pc[p] = "saving"
  /\ DOMAIN files[p] = request[p]
  /\ Unlocked
  /\ \/ /\ FilesPresent(p)
        /\ writer' = p
        /\ Goto(p, "insert")
        /\ UNCHANGED <<cur, publication>>
     \/ /\ ~ FilesPresent(p)
        /\ Return(p)
        /\ Goto(p, "idle")
        /\ UNCHANGED writer
  /\ UNCHANGED <<file, database, cleaning, releasing, bounds>>

(* Insert the receipt, return an identical one, or refuse a different one. *)
Insert(p) ==
  /\ pc[p] = "insert"
  /\ chapters' = [chapters EXCEPT ![target[p]] = IF @ = None THEN files[p] ELSE @]
  /\ writer' = None
  /\ Return(p)
  /\ Goto(p, "idle")
  /\ UNCHANGED <<file, index, evals, cleaning, releasing, bounds>>

(* The caller sees "Registered BT artifact is missing". *)
Acknowledge(p) ==
  /\ pc[p] = "registered_missing"
  /\ Goto(p, "idle")
  /\ UNCHANGED <<file, database, writer, cur, publication, cleaning, releasing, bounds>>

(***************************************************************************)
(* cleanup_plan and cleanup                                                *)
(***************************************************************************)
CleanupPlan(scope) ==
  [scope |-> scope, retained |-> Retained,
   candidates |-> [t \in (scope \intersect Present) \ Retained |-> file[t]]]

PlanCleanup(c, scope) ==
  /\ pc[c] = "idle"
  /\ cleanup[c] = None
  /\ cleanup' = [cleanup EXCEPT ![c] = CleanupPlan(scope)]
  /\ UNCHANGED <<file, database, writer, pc, cur, publication, done, releasing, bounds>>

(* A new plan must still be the inventory; a journaled one resumes. *)
AdmitCleanup(c) ==
  /\ pc[c] = "idle"
  /\ cleanup[c] # None
  /\ Unlocked
  /\ \/ /\ done[c] = None
        /\ cleanup[c] = CleanupPlan(cleanup[c].scope)
        /\ done' = [done EXCEPT ![c] = {}]
        /\ Goto(c, "cleaning")
        /\ UNCHANGED cleanup
     \/ /\ done[c] = None
        /\ cleanup[c] # CleanupPlan(cleanup[c].scope)
        /\ cleanup' = [cleanup EXCEPT ![c] = None]
        /\ UNCHANGED <<pc, done>>
     \/ /\ done[c] # None
        /\ Goto(c, "cleaning")
        /\ UNCHANGED cleaning
  /\ UNCHANGED <<file, database, writer, cur, publication, releasing, bounds>>

(* Mutant: the receipt outlives its plan. *)
DropPlanOnly(c) ==
  /\ cleanup' = [cleanup EXCEPT ![c] = None]
  /\ Goto(c, "idle")
  /\ UNCHANGED done

DropCleanup(c) ==
  /\ cleanup' = [cleanup EXCEPT ![c] = None]
  /\ done' = [done EXCEPT ![c] = None]
  /\ Goto(c, "idle")

(* Mutant: trust the receipts the plan saw. *)
UnreferencedInPlan(c, t) == t \notin cleanup[c].retained
Unreferenced(c, t) == t \notin Retained

(* Mutant: equal bytes are the same file. *)
SameBytes(c, t) == file[t] # None => file[t].enc = cleanup[c].candidates[t].enc
SameFile(c, t) == file[t] \in {None, cleanup[c].candidates[t]}

(* One transaction per candidate: recheck the receipts and the file. *)
OpenCandidate(c, t) ==
  /\ pc[c] = "cleaning"
  /\ t \in DOMAIN cleanup[c].candidates \ done[c]
  /\ Unlocked
  /\ \/ /\ Unreferenced(c, t)
        /\ SameFile(c, t)
        /\ writer' = c
        /\ cur' = [cur EXCEPT ![c] = t]
        /\ Goto(c, IF file[t] = None THEN "journal" ELSE "unlink")
        /\ UNCHANGED cleaning
     \/ /\ ~ (Unreferenced(c, t) /\ SameFile(c, t))
        /\ DropCleanup(c)
        /\ UNCHANGED <<writer, cur>>
  /\ UNCHANGED <<file, database, publication, releasing, bounds>>

(* Mutant: a failed unlink goes unnoticed. *)
UnlinkUnchecked(c) ==
  /\ pc[c] = "unlink"
  /\ file' \in {file, [file EXCEPT ![cur[c]] = None]}
  /\ Goto(c, "journal")
  /\ UNCHANGED <<database, writer, cur, publication, cleaning, releasing, bounds>>

UnlinkCandidate(c) ==
  /\ pc[c] = "unlink"
  /\ file' = [file EXCEPT ![cur[c]] = None]
  /\ Goto(c, "journal")
  /\ UNCHANGED <<database, writer, cur, publication, cleaning, releasing, bounds>>

(* Mutant: the transaction is left open. *)
JournalUncommitted(c) ==
  /\ pc[c] = "journal"
  /\ done' = [done EXCEPT ![c] = @ \union {cur[c]}]
  /\ cur' = [cur EXCEPT ![c] = None]
  /\ Goto(c, "cleaning")
  /\ UNCHANGED <<file, database, writer, publication, cleanup, releasing, bounds>>

JournalCandidate(c) ==
  /\ pc[c] = "journal"
  /\ index' = [index EXCEPT ![cur[c]] = None]
  /\ done' = [done EXCEPT ![c] = @ \union {cur[c]}]
  /\ cur' = [cur EXCEPT ![c] = None]
  /\ writer' = None
  /\ Goto(c, "cleaning")
  /\ UNCHANGED <<file, evals, chapters, publication, cleanup, releasing, bounds>>

FinishCleanup(c) ==
  /\ pc[c] = "cleaning"
  /\ DOMAIN cleanup[c].candidates \subseteq done[c]
  /\ DropCleanup(c)
  /\ UNCHANGED <<file, database, writer, cur, publication, releasing, bounds>>

(***************************************************************************)
(* plan_release and apply_release                                          *)
(***************************************************************************)
(* The reference that the retired receipts hold for table t. *)
RetiredReference(es, t) ==
  CHOOSE r \in Encoding :
    \E e \in es : chapters[e] # None /\ t \in DOMAIN chapters[e] /\ r = chapters[e][t]

ReleasePlan(es) ==
  LET tables == Named(es) \ Named(Evaluation \ es)
  IN [evaluations |-> es, registry |-> <<evals, chapters>>, tables |-> tables,
      files |-> [t \in tables \intersect Present |-> RetiredReference(es, t)]]

PlanRelease(r, es) ==
  /\ pc[r] = "idle"
  /\ release[r] = None
  /\ release' = [release EXCEPT ![r] = ReleasePlan(es)]
  /\ UNCHANGED <<file, database, writer, pc, cur, publication, cleaning, pending, keep, left, bounds>>

(* Mutant: compare what would be deleted, not the reviewed registry. *)
PlanSameTables(r) == release[r].tables = ReleasePlan(release[r].evaluations).tables
PlanCurrent(r) == release[r] = ReleasePlan(release[r].evaluations)

(* First transaction: journal the plan, retire its rows and index rows. *)
Retire(r) ==
  /\ pc[r] = "idle"
  /\ release[r] # None
  /\ ~ pending[r]
  /\ Unlocked
  /\ \/ /\ PlanCurrent(r)
        /\ pending' = [pending EXCEPT ![r] = TRUE]
        /\ evals' = evals \ release[r].evaluations
        /\ chapters' = [e \in Evaluation |->
                          IF e \in release[r].evaluations THEN None ELSE chapters[e]]
        /\ index' = [t \in Table |-> IF t \in release[r].tables THEN None ELSE index[t]]
        /\ Goto(r, "release")
        /\ UNCHANGED release
     \/ /\ ~ PlanCurrent(r)
        /\ release' = [release EXCEPT ![r] = None]
        /\ UNCHANGED <<pc, pending, database>>
  /\ UNCHANGED <<file, writer, cur, publication, cleaning, keep, left, bounds>>

(* Mutant: a retry is compared with the registry as a new plan is. *)
ResumeIfCurrent(r) ==
  /\ pc[r] = "idle"
  /\ pending[r]
  /\ PlanCurrent(r)
  /\ Goto(r, "release")
  /\ UNCHANGED <<file, database, writer, cur, publication, cleaning, releasing, bounds>>

(* A retry of a journaled plan goes straight to its files. *)
ResumeRelease(r) ==
  /\ pc[r] = "idle"
  /\ pending[r]
  /\ Goto(r, "release")
  /\ UNCHANGED <<file, database, writer, cur, publication, cleaning, releasing, bounds>>

RegisteredTables == {t \in Table : index[t] # None}

(* Mutant: a table without an index row is free. *)
KeptByIndex == RegisteredTables
KeptTables == Retained \union RegisteredTables

(* Second transaction: what is referenced or registered again is kept. *)
OpenRelease(r) ==
  /\ pc[r] = "release"
  /\ Unlocked
  /\ writer' = r
  /\ keep' = [keep EXCEPT ![r] = KeptTables]
  /\ left' = [left EXCEPT ![r] = DOMAIN release[r].files]
  /\ Goto(r, "releasing")
  /\ UNCHANGED <<file, database, cur, publication, cleaning, release, pending, bounds>>

ReleaseFile(r, t) ==
  /\ pc[r] = "releasing"
  /\ t \in left[r]
  /\ IF t \in keep[r] \/ file[t] = None
     THEN UNCHANGED file
     ELSE file[t].enc = release[r].files[t] /\ file' = [file EXCEPT ![t] = None]
  /\ left' = [left EXCEPT ![r] = @ \ {t}]
  /\ UNCHANGED <<database, writer, pc, cur, publication, cleaning, release, pending, keep, bounds>>

(* "BT release file differs from registered authority": roll back. *)
RefuseFile(r, t) ==
  /\ pc[r] = "releasing"
  /\ t \in left[r] \ keep[r]
  /\ file[t] # None
  /\ file[t].enc # release[r].files[t]
  /\ writer' = None
  /\ keep' = [keep EXCEPT ![r] = {}]
  /\ left' = [left EXCEPT ![r] = {}]
  /\ Goto(r, "idle")
  /\ UNCHANGED <<file, database, cur, publication, cleaning, release, pending, bounds>>

CommitRelease(r) ==
  /\ pc[r] = "releasing"
  /\ left[r] = {}
  /\ writer' = None
  /\ keep' = [keep EXCEPT ![r] = {}]
  /\ Goto(r, "complete")
  /\ UNCHANGED <<file, database, cur, publication, cleaning, release, pending, left, bounds>>

(* Third transaction: completed=1. *)
CompleteRelease(r) ==
  /\ pc[r] = "complete"
  /\ Unlocked
  /\ release' = [release EXCEPT ![r] = None]
  /\ pending' = [pending EXCEPT ![r] = FALSE]
  /\ Goto(r, "idle")
  /\ UNCHANGED <<file, database, writer, cur, publication, cleaning, keep, left, bounds>>

(***************************************************************************)
(* A process stops, is cancelled, or times out on the writer lock: SQLite  *)
(* rolls its transaction back, its files stay as they are, the caller      *)
(* still has its plan and the database its committed journal.              *)
(***************************************************************************)
Interrupt(p) ==
  /\ pc[p] # "idle"
  /\ interrupts < MaxInterrupts
  /\ interrupts' = interrupts + 1
  /\ writer' = IF writer = p THEN None ELSE writer
  /\ Goto(p, "idle")
  /\ IF p \in Publisher
     THEN Return(p)
     ELSE cur' = [cur EXCEPT ![p] = None] /\ UNCHANGED publication
  /\ IF p \in Releaser
     THEN /\ keep' = [keep EXCEPT ![p] = {}]
          /\ left' = [left EXCEPT ![p] = {}]
     ELSE UNCHANGED <<keep, left>>
  /\ UNCHANGED <<file, database, cleaning, release, pending, started>>

PublisherStep(p) ==
  \/ \E t \in Table : Resolve(p, t)
  \/ Recheck(p) \/ Link(p) \/ LinkExists(p) \/ Hash(p) \/ Register(p)
  \/ Fence(p) \/ Insert(p) \/ Acknowledge(p)

CleanerStep(c) ==
  \/ AdmitCleanup(c)
  \/ \E t \in Table : OpenCandidate(c, t)
  \/ UnlinkCandidate(c) \/ JournalCandidate(c) \/ FinishCleanup(c)

ReleaserStep(r) ==
  \/ Retire(r) \/ ResumeRelease(r) \/ OpenRelease(r)
  \/ \E t \in Table : ReleaseFile(r, t) \/ RefuseFile(r, t)
  \/ CommitRelease(r) \/ CompleteRelease(r)

Next ==
  \/ \E e \in Evaluation : Begin(e)
  \/ \E p \in Publisher, e \in Evaluation, tables \in SUBSET Table \ {{}} :
       StartPublication(p, e, tables)
  \/ \E p \in Publisher : PublisherStep(p)
  \/ \E c \in Cleaner, scope \in SUBSET Table \ {{}} : PlanCleanup(c, scope)
  \/ \E c \in Cleaner : CleanerStep(c)
  \/ \E r \in Releaser, es \in SUBSET Evaluation \ {{}} : PlanRelease(r, es)
  \/ \E r \in Releaser : ReleaserStep(r)
  \/ \E p \in Process : Interrupt(p)

Spec == Init /\ [][Next]_vars

(* SQLite's busy handler retries a writer for 30 seconds, far longer than  *)
(* the short transactions above: a process that wants the lock again and   *)
(* again gets it (strong fairness).  Callers retry a journaled plan.       *)
Fairness ==
  /\ \A p \in Publisher : SF_vars(PublisherStep(p))
  /\ \A c \in Cleaner : SF_vars(CleanerStep(c))
  /\ \A r \in Releaser : SF_vars(ReleaserStep(r))

FairSpec == Spec /\ Fairness

(***************************************************************************)
(* Safety                                                                  *)
(***************************************************************************)
(* Every table named by a committed chapter has its file, whatever the     *)
(* publishers, the cleaner and the releaser do and wherever they stop: the *)
(* existence fence of publication and the receipt recheck of cleanup and   *)
(* release sit under the same writer lock.                                 *)
NoDanglingReceipt ==
  \A e \in Evaluation : chapters[e] # None => DOMAIN chapters[e] \subseteq Present

(* The inductive strengthening: what a process that holds the writer lock  *)
(* has already tested is still true.                                       *)
FencedInsert ==
  \A p \in Publisher : pc[p] = "insert" =>
    /\ writer = p
    /\ DOMAIN files[p] \subseteq Present
FencedUnlink ==
  \A c \in Cleaner :
    /\ pc[c] \in {"unlink", "journal"} => writer = c
    /\ pc[c] = "unlink" => cur[c] \notin Retained
FencedRelease ==
  \A r \in Releaser : pc[r] = "releasing" => writer = r /\ Retained \subseteq keep[r]
IInv == NoDanglingReceipt /\ FencedInsert /\ FencedUnlink /\ FencedRelease

(* A candidate that the cleanup receipt counts as deleted is the very file *)
(* the plan froze, and that file is gone for good, also after a crash      *)
(* between the unlink and the receipt's update.                            *)
CompletedCandidatesGone ==
  \A c \in Cleaner : done[c] # None =>
    \A t \in done[c] : file[t] # cleanup[c].candidates[t]

(***************************************************************************)
(* What a step may never do                                                *)
(***************************************************************************)
(* Cleanup removes a file only while it is byte for byte and inode for     *)
(* inode the one its admitted plan froze: nothing a publisher linked after *)
(* the plan was frozen, or after the recheck, is removed by it.            *)
OnlyFrozenDeleted ==
  \A t \in Table, c \in Cleaner :
    (writer = c /\ file[t] # None /\ file'[t] # file[t]) =>
      /\ done[c] # None
      /\ t \in DOMAIN cleanup[c].candidates \ done[c]
      /\ file[t] = cleanup[c].candidates[t]
      /\ file'[t] = None
CleanupDeletesExactlyItsPlan == [][OnlyFrozenDeleted]_vars

(* A release removes the chapters of exactly the evaluations its reviewed  *)
(* plan lists, all of them and their evaluations in one transaction, and   *)
(* nothing else ever removes or rewrites a committed chapter.              *)
OnlyPlannedRetired ==
  (\E e \in Evaluation : chapters[e] # None /\ chapters'[e] # chapters[e]) =>
    \E r \in Releaser :
      /\ pending'[r] /\ ~ pending[r]
      /\ release[r].registry = <<evals, chapters>>
      /\ \A e \in Evaluation :
           chapters'[e] = IF e \in release[r].evaluations THEN None ELSE chapters[e]
ChaptersRetiredOnlyByPlan == [][OnlyPlannedRetired]_vars

(***************************************************************************)
(* The abstract authority                                                  *)
(***************************************************************************)
Committed == [e \in Evaluation |-> IF chapters[e] = None THEN None ELSE DOMAIN chapters[e]]

Authority == INSTANCE ReceiptAuthority
               WITH stored <- Present, committed <- Committed, NoChapter <- None

(* Every step of the store is a step of the abstract authority or leaves   *)
(* it as it is.                                                            *)
ImplementsAuthority == Authority!Spec

(***************************************************************************)
(* Liveness                                                                *)
(***************************************************************************)
(* A journaled release is completed: retries find every file gone, kept or *)
(* removable, and nothing else clears the journal.                         *)
PendingReleaseCompletes == \A r \in Releaser : pending[r] ~> ~ pending[r]

(* An admitted cleanup ends, complete or refused.                          *)
AdmittedCleanupEnds == \A c \in Cleaner : done[c] # None ~> done[c] = None

(* Every publication returns or raises: no process waits for another one   *)
(* that waits for it.                                                      *)
PublicationReturns == \A p \in Publisher : pc[p] # "idle" ~> pc[p] = "idle"

(***************************************************************************)
(* Claims of the documentation that the code does not keep                 *)
(***************************************************************************)
(* "Republishing identical numerical content ... never treats deliberately *)
(* released bytes as a corrupt hit" (engineering/development.md): a        *)
(* publication is not refused as "Registered BT artifact is missing" for a *)
(* registration that has outlived its file.  No operation removes such a   *)
(* row: cleanup lists files, release lists tables of receipts.             *)
CorruptHit(t) == Unlocked /\ index[t] # None /\ file[t] = None
ReleasedBytesNeverCorruptHit ==
  (\E p \in Publisher : pc[p] = "registered_missing") => \A t \in Table : ~ CorruptHit(t)

(* Chapters reuse "registered original descriptors": the reference in a    *)
(* committed chapter is the one the store resolves its table to, or every  *)
(* read of the chapter is refused.                                         *)
ReceiptMatchesRegistration ==
  \A e \in Evaluation : chapters[e] # None =>
    \A t \in DOMAIN chapters[e] : Registered(t) = {chapters[e][t]}

(* publish_chapter selects its evaluation first: a committed chapter has   *)
(* one, so a retired evaluation's chapter reads as missing.                *)
ChapterHasEvaluation == \A e \in Evaluation : chapters[e] # None => e \in evals
=============================================================================
