--------------------------- MODULE TableComposition ---------------------------
(***************************************************************************)
(* Continued tables (store.py, table_composition.py): a table is a list of *)
(* parts, each a selection of an immutable published leaf, so that an      *)
(* update writes only what changed.                                        *)
(*                                                                         *)
(* A row is a group (a window, lag or quantile), a day and a revision of   *)
(* its values.  A leaf is the sequence of its rows, its own identity.  A   *)
(* selection keeps the rows of one group, or of all, in a range of days.   *)
(* "table" is the content the caller has published, "reference" the        *)
(* composition a reader gets for it.                                       *)
(***************************************************************************)
EXTENDS Integers, Sequences, FiniteSets, FiniteSetsExt, Functions, SequencesExt

CONSTANTS
    Groups,            \* values of the grouping column
    TableDays,         \* number of days of the axis
    MaxContinuations   \* bound on the updates of one table

ASSUME CompositionAssumption ==
    /\ Groups \subseteq Nat /\ Groups # {} /\ IsFiniteSet(Groups)
    /\ TableDays \in Nat \ {0}
    /\ MaxContinuations \in Nat

VARIABLES
    table,       \* rows of the published content, in order
    reference,   \* its parts: [leaf, groups, from, to, rows]
    leaves,      \* the leaves written so far
    updates      \* the number of updates so far

compositionVars == <<table, reference, leaves, updates>>

Axis == 1..TableDays
Everything == [groups |-> Groups, from |-> 0, to |-> TableDays + 1]

-----------------------------------------------------------------------------
Keeps(filter, row) ==
    row.group \in filter.groups /\ row.day \in filter.from..filter.to

\* select: the rows that satisfy every filter, in their order.
Select(rows, filter) ==
    FlattenSeq([i \in DOMAIN rows |-> IF Keeps(filter, rows[i]) THEN << rows[i] >> ELSE <<>>])

\* Mutant: the filter of a part replaces that of its members.
LastFilter(a, b) == b

\* Filters of a part of a part are conjoined.
Conjoin(a, b) ==
    [groups |-> a.groups \cap b.groups,
     from |-> IF a.from > b.from THEN a.from ELSE b.from,
     to |-> IF a.to < b.to THEN a.to ELSE b.to]

FilterOf(part) == [groups |-> part.groups, from |-> part.from, to |-> part.to]

\* The rows of a part, counted from its leaf's coordinates (_selected_count).
Part(leaf, filter) ==
    [leaf |-> leaf, groups |-> filter.groups, from |-> filter.from, to |-> filter.to,
     rows |-> Len(Select(leaf, filter))]

\* read_reference: the selected rows of each part, one after the other.
ReadReference(ref) ==
    FlattenSeq([i \in DOMAIN ref |-> Select(ref[i].leaf, FilterOf(ref[i]))])

\* publish_table: a reference to one new leaf.
Published(rows) == << Part(rows, Everything) >>

\* A part of a part selects from the leaves of its members.
Narrowed(part) ==
    [j \in DOMAIN part.ref |->
        Part(part.ref[j].leaf, Conjoin(FilterOf(part.ref[j]), part.filter))]

\* compose_reference: members are flattened to leaves, and parts without rows
\* are left out unless nothing was selected before them.
ComposeReference(parts) ==
    LET members == FlattenSeq([i \in DOMAIN parts |-> Narrowed(parts[i])])
    IN  FlattenSeq([i \in DOMAIN members |->
            IF i = 1 \/ members[i].rows > 0 THEN << members[i] >> ELSE <<>>])

-----------------------------------------------------------------------------
(* publish_continuation of complete frames.                                 *)

SortedByDay(rows) == \A i, j \in DOMAIN rows : i < j => rows[i].day <= rows[j].day

\* Mutant: a frame is either all equal or all new.
EqualWhole(before, current) ==
    IF before # <<>> /\ before = current THEN Max({row.day : row \in Range(before)}) ELSE 0

\* _equal_ordered_prefix: the last complete day before the first difference;
\* 0 when there is none.
EqualPrefix(before, current) ==
    LET common == IF Len(before) < Len(current) THEN Len(before) ELSE Len(current)
        unequal == {i \in 1..common : before[i] # current[i]}
        longer == IF Len(before) > common THEN before ELSE current
        first == IF unequal # {}
                 THEN Min({before[Min(unequal)].day, current[Min(unequal)].day})
                 ELSE IF Len(before) = Len(current) THEN TableDays + 1
                 ELSE longer[common + 1].day
        days == {row.day : row \in Range(before)}
    IN  IF before = <<>> \/ ~SortedByDay(before) \/ ~SortedByDay(current)
           \/ ~\E d \in days : d < first
        THEN 0 ELSE Max({d \in days : d < first})

OneGroup(g) == [Everything EXCEPT !.groups = {g}]

\* partition_by(maintain_order): groups in order of their first row.
GroupOrder(rows) ==
    FlattenSeq([i \in DOMAIN rows |->
        IF \A j \in 1..(i - 1) : rows[j].group # rows[i].group
        THEN << rows[i].group >> ELSE <<>>])

\* The filters of the groups of a frame: one per group when the frame is their
\* concatenation, otherwise one for the whole frame.
Grouping(frame) ==
    LET order == GroupOrder(frame)
        split == [i \in DOMAIN order |-> OneGroup(order[i])]
    IN  IF frame # <<>> /\ FlattenSeq([i \in DOMAIN split |-> Select(frame, split[i])]) = frame
        THEN split ELSE << Everything >>

\* A group keeps its equal prefix of the original and writes the rest.
GroupParts(frame, filter, kept) ==
    LET current == Select(frame, filter)
        boundary == EqualPrefix(Select(table, filter), current)
        tail == Select(current, [Everything EXCEPT !.from = boundary + 1])
        retained == << [ref |-> reference, filter |-> [filter EXCEPT !.to = boundary]] >>
        written == << [ref |-> Published(tail), filter |-> Everything] >>
    IN  (IF boundary > 0 THEN retained ELSE <<>>)
        \o (IF tail # <<>> \/ (boundary = 0 /\ ~kept) THEN written ELSE <<>>)

\* "or not parts": an empty tail is written only when no part exists yet, and
\* after the first group one does.
ContinueFrame(frame) ==
    LET filters == Grouping(frame)
    IN  FlattenSeq([i \in DOMAIN filters |-> GroupParts(frame, filters[i], i > 1)])

-----------------------------------------------------------------------------
(* The frames the callers publish, and the actions.                         *)

Cells == Groups \X Axis
Row(cell, revision) == [group |-> cell[1], day |-> cell[2], revision |-> revision]

\* The orders of the kernels: group by group, or day by day.
Places == 1..(Cardinality(Groups) * TableDays)
NthGroup(n) == CHOOSE g \in Groups : Cardinality({h \in Groups : h <= g}) = n
GroupMajor ==
    [n \in Places |-> <<NthGroup((n - 1) \div TableDays + 1), ((n - 1) % TableDays) + 1>>]
DayMajor ==
    [n \in Places |-> <<NthGroup(((n - 1) % Cardinality(Groups)) + 1),
                        (n - 1) \div Cardinality(Groups) + 1>>]

\* A set of rows, one per cell at most, in an order of the cells.
Frame(rows, order) ==
    LET InCell(n) == {row \in rows : <<row.group, row.day>> = order[n]}
    IN  FlattenSeq([n \in DOMAIN order |->
            IF InCell(n) = {} THEN <<>> ELSE << CHOOSE row \in InCell(n) : TRUE >>])

\* Every written leaf and every update counts.
Written(parts) ==
    UNION {{parts[i].ref[j].leaf : j \in DOMAIN parts[i].ref} : i \in DOMAIN parts}

Compose(parts, content) ==
    /\ updates < MaxContinuations /\ updates' = updates + 1
    /\ reference' = ComposeReference(parts)
    /\ leaves' = leaves \cup Written(parts)
    /\ table' = content

CompositionInit ==
    \E days \in 1..TableDays :
        /\ \E order \in {GroupMajor, DayMajor} :
             table = Frame({Row(cell, 0) : cell \in Groups \X (1..days)}, order)
        /\ reference = Published(table) /\ leaves = {table} /\ updates = 0

\* A recomputed frame: a cell was revised, removed or added, or a day is new.
ContinueComplete ==
    \E cell \in Cells, revision \in {-1, updates + 1}, order \in {GroupMajor, DayMajor} :
        LET old == {row \in Range(table) : <<row.group, row.day>> # cell}
            new == IF revision = -1 THEN old ELSE old \cup {Row(cell, revision)}
            frame == Frame(new, order)
        IN  /\ frame # table
            /\ Compose(ContinueFrame(frame), frame)

\* _publish_delta: the rows of an admitted output interval, which may be empty.
ContinueDelta ==
    \E start \in Axis, end \in Axis \cup {TableDays + 1}, cells \in SUBSET Cells :
        /\ end >= start
        /\ \A cell \in cells : cell[2] \in start..end
        /\ Cardinality(cells) <= Cardinality(Groups)
        /\ LET before == [Everything EXCEPT !.to = start - 1]
               after == [Everything EXCEPT !.from = end + 1]
               frame == Frame({Row(c, updates + 1) : c \in cells}, GroupMajor)
               delta == IF frame = <<>> THEN <<>>
                        ELSE << [ref |-> Published(frame), filter |-> Everything] >>
               suffix == IF end > TableDays THEN <<>>    \* no output_end
                         ELSE << [ref |-> reference, filter |-> after] >>
           IN  Compose(<< [ref |-> reference, filter |-> before] >> \o delta \o suffix,
                       Select(table, before) \o frame
                           \o (IF end > TableDays THEN <<>> ELSE Select(table, after)))

CompositionNext == ContinueComplete \/ ContinueDelta

CompositionSpec == CompositionInit /\ [][CompositionNext]_compositionVars

-----------------------------------------------------------------------------
\* Reading a composition gives back exactly the rows the caller published, in
\* their order, after any sequence of appends, repairs and recomputed frames,
\* and the row count every read is checked against is their number.
ReadsPublished ==
    /\ ReadReference(reference) = table
    /\ SumFunction([i \in DOMAIN reference |-> reference[i].rows]) = Len(table)

\* Only changed tails are written: a row of a new leaf lies on or after a day
\* whose rows changed, in its own group when the table is kept group by group.
WritesOnlyTails ==
    [][(SortedByDay(table') => SortedByDay(table)) =>
         \A leaf \in leaves' \ leaves : \A row \in Range(leaf) :
            \E changed \in (Range(table) \ Range(table')) \cup (Range(table') \ Range(table)) :
               /\ changed.day <= row.day
               /\ changed.group = row.group \/ SortedByDay(table')]_compositionVars
=============================================================================
