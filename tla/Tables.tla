------------------------------- MODULE Tables -------------------------------
(***************************************************************************)
(* One inline database: its schema, rows and saved view, the requests that   *)
(* change them, and one listing (internal/database/store.go, handler.go). A  *)
(* step is one statement. Rows are numbered in the order they were inserted. *)
(***************************************************************************)
EXTENDS Orders, Functions, SequencesExt

CONSTANTS Column,     \* ids of columns, and of cells in a row's values
          Editor,     \* requests that run UpdateRow
          Written,    \* the values clients send for a row, or a part of it
          Filter,     \* the filters they send
          SortColumn, \* and the columns they sort by, "none" for no sort
          MaxColumns, \* the cap on a schema
          MaxRows, MaxOps \* bounds

VARIABLES
    schema,  \* databases.schema, or Gone
    rows,    \* database_rows, in creation order
    view,    \* database_views: the saved view, or NoView
    edits,   \* where each UpdateRow is
    asked,   \* the view the listing is to apply, once it was resolved
    shown,   \* what it answered
    wanted,  \* history: each row with every acknowledged patch merged
    torn,    \* history: rows written over a change their writer had not read
    tbOps

tbVars == <<schema, rows, view, edits, asked, shown, wanted, torn, tbOps>>

\* The texts "10", "1a" and "9", and no value; a number is stored like its text.
Cell == {"none", "ten", "word", "nine"}
Number == [ten |-> 10, nine |-> 9]
Spelling == [none |-> 0, ten |-> 1, word |-> 2, nine |-> 3]
Containing == [one |-> {"ten", "word"}, ten |-> {"ten"}, word |-> {"word"}, nine |-> {"nine"}]

Row == 1..MaxRows
Values == [Column -> Cell]

TablesSizes ==
    /\ {MaxColumns, MaxRows, MaxOps} \subseteq Nat
    /\ Written \subseteq Values /\ SortColumn \subseteq Column \cup {"none"}

Blank == [c \in Column |-> "none"]
NoView == [there |-> FALSE, filters |-> {}, sortBy |-> "none", dir |-> "asc"]
Gone == {"gone"}
Unasked == <<>>
Unshown == <<0>>
Resting == [row |-> 0, patch |-> Blank, read |-> Blank]

TablesTypeOK ==
    /\ schema \in SUBSET Column \cup {Gone}
    /\ rows \in Seq([there : BOOLEAN, pos : Row, values : Values])
    /\ edits \in [Editor -> [row : 0..MaxRows, patch : Values, read : Values]]
    /\ torn \subseteq Row
    /\ tbOps \in 0..MaxOps

TablesInit ==
    /\ schema = {} /\ rows = <<>> /\ wanted = <<>>
    /\ view = NoView /\ edits = [e \in Editor |-> Resting]
    /\ asked = Unasked /\ shown = Unshown /\ torn = {} /\ tbOps = 0

Op == shown = Unshown /\ tbOps < MaxOps /\ tbOps' = tbOps + 1
Exists == schema # Gone
Stands == {r \in DOMAIN rows : rows[r].there}

-----------------------------------------------------------------------------
(* Rows.                                                                    *)

\* The check before the INSERT decides nothing its foreign key does not. A
\* client picks the position, so two rows may share one.
CreateRow(pos, values) ==
    /\ Op /\ Exists /\ Len(rows) < MaxRows
    /\ rows' = Append(rows, [there |-> TRUE, pos |-> pos, values |-> values])
    /\ wanted' = Append(wanted, values)
    /\ UNCHANGED <<schema, view, edits, asked, shown, torn>>

\* UpdateRow reads the values, ...
ReadRow(e, r, patch) ==
    /\ Op /\ edits[e] = Resting /\ r \in Stands
    /\ edits' = [edits EXCEPT ![e] = [row |-> r, patch |-> patch, read |-> rows[r].values]]
    /\ UNCHANGED <<schema, rows, view, asked, shown, wanted, torn>>

\* Mutant: the patch replaces the values.
PatchOnly(values, patch) == patch

Merged(values, patch) == [c \in Column |-> IF patch[c] # "none" THEN patch[c] ELSE values[c]]

\* ... and writes them all back with the patch in them, whatever they are by now.
WriteRow(e) ==
    LET r == edits[e].row
        stored == rows[r].values
    IN /\ shown = Unshown /\ edits[e] # Resting
       /\ edits' = [edits EXCEPT ![e] = Resting]
       /\ \/ /\ r \in Stands
             /\ rows' = [rows EXCEPT ![r].values = Merged(edits[e].read, edits[e].patch)]
             /\ wanted' = [wanted EXCEPT ![r] =
                    [c \in Column |-> IF edits[e].patch[c] # "none" THEN edits[e].patch[c] ELSE @[c]]]
             /\ torn' = IF stored = edits[e].read THEN torn ELSE torn \cup {r}
          \/ r \notin Stands /\ UNCHANGED <<rows, wanted, torn>>
       /\ UNCHANGED <<schema, view, asked, shown, tbOps>>

DeleteRow(r) ==
    /\ Op /\ r \in Stands
    /\ rows' = [rows EXCEPT ![r].there = FALSE, ![r].values = Blank]
    /\ wanted' = [wanted EXCEPT ![r] = Blank]
    /\ UNCHANGED <<schema, view, edits, asked, shown, torn>>

-----------------------------------------------------------------------------
(* The schema and the view. A column that leaves the schema leaves its cells. *)

validateSchema(cols) == Cardinality(cols) <= MaxColumns

UpdateSchema(cols) ==
    /\ Op /\ Exists /\ validateSchema(cols)
    /\ schema' = cols
    /\ UNCHANGED <<rows, view, edits, asked, shown, wanted, torn>>

CreateView(filters, sortBy, dir) ==
    /\ Op /\ Exists /\ ~view.there
    /\ view' = [there |-> TRUE, filters |-> filters, sortBy |-> sortBy, dir |-> dir]
    /\ UNCHANGED <<schema, rows, edits, asked, shown, wanted, torn>>

\* A field the request names replaces the stored one; another key is not a field.
UpdateView(fields, with) ==
    /\ Op /\ view.there /\ fields # {}
    /\ view' = [f \in DOMAIN view |-> IF f \in fields THEN with[f] ELSE view[f]]
    /\ UNCHANGED <<schema, rows, edits, asked, shown, wanted, torn>>

\* The page is deleted: its databases, their rows and views go with it.
PageDeleted ==
    /\ Op /\ Exists
    /\ schema' = Gone /\ view' = NoView
    /\ rows' = [r \in DOMAIN rows |-> [rows[r] EXCEPT !.there = FALSE, !.values = Blank]]
    /\ wanted' = [r \in DOMAIN wanted |-> Blank]
    /\ UNCHANGED <<edits, asked, shown, torn>>

-----------------------------------------------------------------------------
(* A listing: the view is resolved by one statement, the rows read by another. *)

\* A view that is not found, or could not be read, filters and sorts nothing.
ResolveView ==
    /\ asked = Unasked
    /\ \E v \in {view, NoView} : asked' = <<v>>
    /\ UNCHANGED <<schema, rows, view, edits, shown, wanted, torn, tbOps>>

\* A number equals what reads as the same number.
cellEquals(v, want) == v = want

applyFilter(values, f) ==
    LET v == values[f.col]
        numbers == {v, f.value} \subseteq DOMAIN Number
    IN /\ v # "none"
       /\ \/ f.op = "eq" /\ cellEquals(v, f.value)
          \/ f.op = "neq" /\ ~cellEquals(v, f.value)
          \/ f.op = "contains" /\ v \in Containing[f.value]
          \/ f.op = "gt" /\ numbers /\ Number[v] > Number[f.value]
          \/ f.op = "lt" /\ numbers /\ Number[v] < Number[f.value]

Kept(rs, filters) == {r \in rs : \A f \in filters : applyFilter(rows[r].values, f)}

\* compareValues(a, b) < 0: as numbers if both are, else as text.
compareValues(a, b) ==
    IF {a, b} \subseteq DOMAIN Number THEN Number[a] < Number[b] ELSE Spelling[a] < Spelling[b]

Before(v, r, s) ==
    LET a == rows[r].values[v.sortBy]
        b == rows[s].values[v.sortBy]
    IN IF v.dir = "desc" THEN compareValues(b, a) ELSE compareValues(a, b)

\* Mutant: a descending view lists the rows that tie in the opposite order.
NotAfter(v, r, s) ==
    LET a == rows[r].values[v.sortBy]
        b == rows[s].values[v.sortBy]
    IN IF v.dir = "desc" THEN ~compareValues(a, b) ELSE compareValues(a, b)

\* ORDER BY position, created_at, id.
StoredBefore(r, s) == rows[r].pos < rows[s].pos \/ (rows[r].pos = rows[s].pos /\ r < s)
Stored(rs) == Ordered(rs, {p \in rs \X rs : StoredBefore(p[1], p[2])})

\* Row r goes in front of those it is less than, up to the first from the right
\* that it is not.
Inserted(done, r, v) ==
    LET stop == {k \in DOMAIN done : ~Before(v, r, done[k])}
    IN InsertAt(done, 1 + Max(stop \cup {0}), r)

\* sort.SliceStable, which inserts one after the other on so few rows.
sortRows(s, v) ==
    LET done[n \in 0..Len(s)] == IF n = 0 THEN <<>> ELSE Inserted(done[n - 1], s[n], v)
    IN done[Len(s)]

ListRows ==
    /\ asked # Unasked /\ shown = Unshown
    /\ LET v == asked[1]
           kept == Stored(Kept(Stands, v.filters))
       IN shown' = IF v.sortBy = "none" THEN kept ELSE sortRows(kept, v)
    /\ UNCHANGED <<schema, rows, view, edits, asked, wanted, torn, tbOps>>

SomeView == [filters : {S \in SUBSET Filter : Cardinality(S) <= 1}, sortBy : SortColumn, dir : {"asc", "desc"}]

TablesNext ==
    \/ \E pos \in 1..2, values \in Written : CreateRow(pos, values)
    \/ \E e \in Editor, r \in Row, patch \in Written : ReadRow(e, r, patch)
    \/ \E e \in Editor : WriteRow(e)
    \/ \E r \in Row : DeleteRow(r)
    \/ \E cols \in SUBSET Column : UpdateSchema(cols)
    \/ \E v \in SomeView : CreateView(v.filters, v.sortBy, v.dir)
    \/ \E v \in SomeView, fs \in SUBSET {"filters", "sortBy", "dir"} : UpdateView(fs, v)
    \/ PageDeleted
    \/ ResolveView \/ ListRows

-----------------------------------------------------------------------------
(* A cell a patch does not name keeps its value, unless two updates of the row *)
(* overlapped (store.go UpdateRow "should keep c-1 intact").                   *)
CellsKept == \A r \in Stands \ torn : rows[r].values = wanted[r]

Uniform(cells) == \/ cells \subseteq DOMAIN Number \cup {"none"}
                  \/ cells \cap DOMAIN Number = {}

\* The order a view asks for, in a column that does not mix numbers and text.
Precedes(v, r, s) ==
    LET up == compareValues(rows[r].values[v.sortBy], rows[s].values[v.sortBy])
        down == compareValues(rows[s].values[v.sortBy], rows[r].values[v.sortBy])
    IN IF v.sortBy = "none" \/ up = down THEN StoredBefore(r, s)
       ELSE up = (v.dir = "asc")

(* A listing shows each row that meets the filters once; sorted by a column    *)
(* that does not mix numbers and text, every pair is in order, and rows that    *)
(* tie are in the order of the table (store.go ListRows, sortRows).            *)
ListedInOrder ==
    shown # Unshown =>
        LET v == asked[1]
        IN /\ IsInjective(shown)
           /\ ToSet(shown) = Kept(Stands, v.filters)
           /\ \/ v.sortBy # "none" /\ ~Uniform({rows[r].values[v.sortBy] : r \in ToSet(shown)})
              \/ \A i, j \in DOMAIN shown : i < j => Precedes(v, shown[i], shown[j])

TablesKept == CellsKept /\ ListedInOrder
=============================================================================
