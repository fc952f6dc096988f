---------------------------- MODULE SharedReceipts ----------------------------
(***************************************************************************)
(* The shared primitives of one owner and component: publication with an   *)
(* expected predecessor (BTStore.publish_shared), admission of retained    *)
(* primitives under new inputs (input_maintenance.py), and their release.  *)
(*                                                                         *)
(* A receipt is immutable and identified by its content, so here it is its *)
(* own identity.  A receipt admitted by input maintenance is bound to the  *)
(* original receipt whose files it carries, and every reader follows that  *)
(* binding to the original.  Saving one table is a single step: BTStore    *)
(* models what happens inside it.                                          *)
(***************************************************************************)
EXTENDS Integers, FiniteSets, FiniteSetsExt, Functions

CONSTANTS
    Writers,        \* publishers and maintainers of this owner
    InputIds,       \* input identities of the component
    Tables,         \* contents a primitive may have
    Coverage,       \* content of daily_signal_coverage, the one later addition
    NoInput,        \* no input identity
    ClockSteps,     \* how far the wall clock moves between two publications
    MaxReceipts     \* bound on the publications, one clock step each

ASSUME SharedAssumption ==
    /\ Coverage \notin Tables
    /\ NoInput \notin InputIds
    /\ ClockSteps \subseteq Int
    /\ MaxReceipts \in Nat

VARIABLES
    shared,      \* rows of bt_shared: [receipt, at]
    now,         \* the wall clock
    registered,  \* contents with a row of bt_table_index
    present,     \* contents whose file exists
    writer,      \* what each writer is doing
    preview,     \* the rows of a reviewed release plan
    doomed       \* contents of an applied release that are not unlinked yet

sharedVars == <<shared, now, registered, present, writer, preview, doomed>>

NoReceipt == [input |-> NoInput, files |-> << >>]
Unbound == [original |-> NoReceipt, replacement |-> NoInput]
Idle == [phase |-> "idle"]

Receipts == {row.receipt : row \in shared}
Contents(receipt) == {receipt.files[name] : name \in DOMAIN receipt.files}
Referenced == UNION {Contents(r) : r \in Receipts}

\* shared_receipt: the newest row by wall clock, of all inputs or of one.
Newest(rows) ==
    IF rows = {} THEN NoReceipt
    ELSE (CHOOSE row \in rows : \A other \in rows : other.at <= row.at).receipt

LatestShared == Newest(shared)
LatestOf(input) == Newest({row \in shared : row.receipt.input = input})

-----------------------------------------------------------------------------
(* input_maintenance.py.                                                    *)

\* _validate and verify_binding: a bound receipt stands for the declared
\* inputs and changes nothing of its original but one added coverage table.
PreservesOriginal(receipt) ==
    LET original == receipt.binding.original
        names == DOMAIN receipt.files
    IN  /\ receipt.input = receipt.binding.replacement
        /\ original # receipt
        /\ DOMAIN original.files \subseteq names
        /\ names \ DOMAIN original.files \subseteq {"daily_signal_coverage"}
        /\ \A name \in DOMAIN original.files : receipt.files[name] = original.files[name]

\* One step of verify_binding, when the originals in proved are verified.
Verifies(receipt, proved) ==
    \/ receipt.binding = Unbound
    \/ PreservesOriginal(receipt) /\ receipt.binding.original \in proved

\* The rows whose chain of bindings ends in the registry: the smallest set that
\* contains what its own members verify.  A chain that returns to a receipt it
\* visited is in no smallest set.
Authorities ==
    {r \in Receipts :
        \A proved \in SUBSET Receipts :
            (\A s \in Receipts : Verifies(s, proved) => s \in proved) => r \in proved}

VerifyBinding(receipt) == Verifies(receipt, Authorities)

-----------------------------------------------------------------------------
SharedInit ==
    /\ shared = {} /\ now = 0 /\ preview = {} /\ doomed = {}
    /\ registered = {} /\ present = {}
    /\ writer = [w \in Writers |-> Idle]

\* shared_receipt of a host that is about to publish.
ReadShared(w) ==
    /\ writer[w] = Idle
    /\ LatestShared # NoReceipt => VerifyBinding(LatestShared)
    /\ writer' = [writer EXCEPT ![w] = [phase |-> "read", expected |-> LatestShared]]
    /\ UNCHANGED <<shared, now, registered, present, preview, doomed>>

\* _publication_files: registered contents need their file, others are written.
SaveTables(contents) ==
    /\ contents \cap registered \subseteq present
    /\ registered' = registered \cup contents
    /\ present' = present \cup contents

NewPrimitives == {[input |-> i, binding |-> Unbound,
                   files |-> [name \in {"returns"} |-> c]] : i \in InputIds, c \in Tables}

\* The one later addition: an admitted receipt and its coverage.
WithCoverage(receipt) ==
    [receipt EXCEPT !.files = [name \in DOMAIN @ \cup {"daily_signal_coverage"} |->
                                 IF name \in DOMAIN @ THEN @[name] ELSE Coverage]]

\* publish_shared of new primitives, or of the coverage of a bound receipt.
SavePrimitives(w) ==
    /\ writer[w].phase = "read"
    /\ LET expected == writer[w].expected
       IN  \E receipt \in NewPrimitives \cup
                          (IF expected = NoReceipt THEN {} ELSE {WithCoverage(expected)}) :
             /\ SaveTables(Contents(receipt))
             /\ writer' = [writer EXCEPT ![w] =
                   [phase |-> "saved", expected |-> expected, receipt |-> receipt,
                    admission |-> Unbound]]
    /\ UNCHANGED <<shared, now, preview, doomed>>

\* maintain: the original is registered, proved and complete; its files serve
\* other inputs of the same node and boundary.
AdmitOriginal(w, original, replacement) ==
    /\ writer[w] = Idle
    /\ original \in Receipts /\ VerifyBinding(original)
    /\ Contents(original) \subseteq present
    /\ writer' = [writer EXCEPT ![w] =
         [phase |-> "admitted",
          binding |-> [original |-> original, replacement |-> replacement]]]
    /\ UNCHANGED <<shared, now, registered, present, preview, doomed>>

\* The same identity again: the original is returned, nothing is published.
RetainOriginal(w) ==
    /\ writer[w].phase = "admitted"
    /\ writer[w].binding.replacement = writer[w].binding.original.input
    /\ writer' = [writer EXCEPT ![w] = Idle]
    /\ UNCHANGED <<shared, now, registered, present, preview, doomed>>

\* The latest receipt must be the original or the same admission already.
ExpectOriginal(w) ==
    /\ writer[w].phase = "admitted"
    /\ LET binding == writer[w].binding
           expected == LatestShared
       IN  /\ binding.replacement # binding.original.input
           /\ expected # NoReceipt /\ VerifyBinding(expected)
           /\ expected = binding.original \/ expected.binding = binding
           /\ Contents(expected) \subseteq present \cap registered
           /\ writer' = [writer EXCEPT ![w] =
                [phase |-> "saved", expected |-> expected, admission |-> binding,
                 receipt |-> [input |-> binding.replacement, binding |-> binding,
                              files |-> expected.files]]]
    /\ UNCHANGED <<shared, now, registered, present, preview, doomed>>

\* Mutant: the files were written by this publication and not looked at again.
AdmitsUnwritten(w) == VerifyBinding(writer[w].receipt)

\* What the closing transaction requires of a receipt.
Admitted(w) ==
    LET receipt == writer[w].receipt
    IN  /\ Contents(receipt) \subseteq present          \* _require_publication_files
        /\ (receipt.binding # Unbound /\ writer[w].admission # receipt.binding)
             => \E r \in Receipts : r.binding = receipt.binding /\ VerifyBinding(r)
        /\ VerifyBinding(receipt)

\* Mutant: the latest receipt has the expected inputs.
SameInputs(w) ==
    IF LatestShared = NoReceipt \/ writer[w].expected = NoReceipt
    THEN LatestShared = writer[w].expected
    ELSE LatestShared.input = writer[w].expected.input

\* The expected row is the observed one.
ExpectedObserved(w) == LatestShared = writer[w].expected

\* Mutant: the names of the primitives are kept, not their contents.
KeepsNames(receipt) ==
    LatestOf(receipt.input) # NoReceipt =>
        DOMAIN LatestOf(receipt.input).files \subseteq DOMAIN receipt.files

\* The immutable identity of the same inputs keeps its primitives.
KeepsPrimitives(receipt) ==
    LET old == LatestOf(receipt.input)
    IN  old # NoReceipt =>
          \A name \in DOMAIN old.files :
             name \in DOMAIN receipt.files /\ receipt.files[name] = old.files[name]

\* BEGIN IMMEDIATE ... INSERT INTO bt_shared; the refusals change nothing.
CloseShared(w) ==
    /\ writer[w].phase = "saved"
    /\ now < MaxReceipts
    /\ LET receipt == writer[w].receipt
           inserted == /\ Admitted(w) /\ ExpectedObserved(w) /\ KeepsPrimitives(receipt)
                       /\ LatestOf(receipt.input) # receipt
       IN  IF inserted
           THEN \E step \in ClockSteps :
                  /\ now' = now + step
                  /\ shared' = shared \cup {[receipt |-> receipt, at |-> now']}
           ELSE UNCHANGED <<shared, now>>
    /\ writer' = [writer EXCEPT ![w] = Idle]
    /\ UNCHANGED <<registered, present, preview, doomed>>

\* Cancellation, an error or the end of the process.
AbandonShared(w) ==
    /\ writer[w] # Idle
    /\ writer' = [writer EXCEPT ![w] = Idle]
    /\ UNCHANGED <<shared, now, registered, present, preview, doomed>>

-----------------------------------------------------------------------------
(* The explicit release of the owner (release.py).                          *)

PreviewOwner ==
    /\ shared # {} /\ preview # shared
    /\ preview' = shared
    /\ UNCHANGED <<shared, now, registered, present, writer, doomed>>

\* All rows of the owner, provided the registry is the reviewed one.
RetireOwner ==
    /\ preview # {} /\ preview = shared
    /\ shared' = {} /\ preview' = {}
    /\ registered' = registered \ Referenced
    /\ doomed' = doomed \cup Referenced
    /\ UNCHANGED <<now, present, writer>>

UnlinkOwner ==
    /\ doomed # {}
    /\ present' = present \ (doomed \ (registered \cup Referenced))
    /\ doomed' = {}
    /\ UNCHANGED <<shared, now, registered, writer, preview>>

SharedNext ==
    \/ \E w \in Writers :
         \/ ReadShared(w) \/ SavePrimitives(w) \/ CloseShared(w) \/ AbandonShared(w)
         \/ RetainOriginal(w) \/ ExpectOriginal(w)
         \/ \E r \in Receipts, i \in InputIds : AdmitOriginal(w, r, i)
    \/ PreviewOwner \/ RetireOwner \/ UnlinkOwner

SharedSpec == SharedInit /\ [][SharedNext]_sharedVars

-----------------------------------------------------------------------------
\* Every published receipt has its files and, through any number of bindings,
\* its registered originals, whatever was published, admitted or released
\* meanwhile: no reader of the latest receipt can be refused.
SharedAuthority ==
    \A r \in Receipts : Contents(r) \subseteq present /\ VerifyBinding(r)

\* No primitive ever changes under an input identity: all receipts of the same
\* inputs, bound ones too, give a name the same content.
PrimitiveImmutable ==
    \A r, s \in Receipts :
        r.input = s.input =>
            \A name \in DOMAIN r.files \cap DOMAIN s.files : r.files[name] = s.files[name]

Succeeds ==
    \A row \in shared' \ shared :
         /\ \E w \in Writers : /\ writer[w] # writer'[w]
                               /\ writer[w].receipt = row.receipt
                               /\ writer[w].expected = LatestShared
         /\ LatestShared' = row.receipt

\* The explicit CAS proof: a publication replaces exactly the receipt it was
\* computed from and is the one the next reader gets.
SucceedsExpected == [][Succeeds]_sharedVars
=============================================================================
