---------------------------- MODULE DocumentsProofs ----------------------------
(***************************************************************************)
(* Proofs about Documents: that a table keeps its cells and lists its rows in *)
(* order, that a space's pages stay a forest and their depth column tells the *)
(* truth, that a changelog badge is its body's, and that what an import or a  *)
(* template made is what was counted and an export holds every child.        *)
(***************************************************************************)
EXTENDS Documents, OrderLemmas

(* A behaviour of Documents is, in each part, one of that part alone. *)
LEMMA PartSteps ==
    ASSUME [DocumentsNext]_docVars
    PROVE  /\ Next \/ UNCHANGED vars
           /\ Tables!TablesNext \/ UNCHANGED tbVars
           /\ Changelog!ChangelogNext \/ UNCHANGED clVars
           /\ Imports!ImportsNext \/ UNCHANGED imVars
           /\ Templates!TemplatesNext \/ UNCHANGED tlVars
           /\ Exports!ExportsNext \/ UNCHANGED exVars
BY DEF DocumentsNext, docVars, vars, tbVars, clVars, imVars, tlVars, exVars

-----------------------------------------------------------------------------
(* Tables. A listing is what an insertion sort makes of the rows in their      *)
(* stored order: an induction over the rows it has inserted (Climb).          *)

Cells == {"none", "ten", "word", "nine"}
Lines == [there : BOOLEAN, pos : Nat, values : [Column -> Cells]]
Drafts == [row : Nat, patch : [Column -> Cells], read : [Column -> Cells]]
Views == [there : BOOLEAN, filters : SUBSET Filter, sortBy : Column \cup {"none"},
          dir : {"asc", "desc"}]

TbTyped ==
    /\ tableRows \in Seq(Lines) /\ wanted \in Seq([Column -> Cells]) /\ Len(wanted) = Len(tableRows)
    /\ edits \in [Editor -> Drafts] /\ view \in Views
    /\ asked # <<>> => asked[1] \in Views

\* Once it was answered nothing changes any more.
TbListed == shown # Tables!Unshown => asked # <<>> /\ Tables!ListedInOrder

TbInv == TbTyped /\ Tables!CellsKept /\ TbListed

LEMMA TableSizes ==
    /\ Tables!Values = [Column -> Cells] /\ Tables!Blank \in [Column -> Cells]
    /\ Written \subseteq [Column -> Cells] /\ SortColumn \subseteq Column \cup {"none"}
BY DocumentsAssumption DEF Tables!TablesSizes, Tables!Values, Tables!Cell, Cells, Tables!Blank

-----------------------------------------------------------------------------
\* Two cells of a column that does not mix numbers and text compare as these.
Weight == [none |-> 0, nine |-> 1, ten |-> 2, word |-> 3]

LEMMA CellsCompare ==
    ASSUME NEW cells, Tables!Uniform(cells), NEW a \in cells, NEW b \in cells, a \in Cells, b \in Cells
    PROVE  /\ Tables!compareValues(a, b) <=> Weight[a] < Weight[b]
           /\ Weight[a] \in 0..3 /\ Weight[b] \in 0..3
<1>1. DOMAIN Tables!Number = {"ten", "nine"}
  BY DEF Tables!Number
<1>2. ~ ("word" \in cells /\ ("ten" \in cells \/ "nine" \in cells))
  BY <1>1 DEF Tables!Uniform
<1>3. /\ Weight["none"] = 0 /\ Weight["nine"] = 1 /\ Weight["ten"] = 2 /\ Weight["word"] = 3
      /\ Tables!Number["ten"] = 10 /\ Tables!Number["nine"] = 9
      /\ Tables!Spelling["none"] = 0 /\ Tables!Spelling["ten"] = 1
      /\ Tables!Spelling["word"] = 2 /\ Tables!Spelling["nine"] = 3
  BY DEF Weight, Tables!Number, Tables!Spelling
<1>4. Tables!compareValues(a, b) <=>
          IF a \in {"ten", "nine"} /\ b \in {"ten", "nine"}
          THEN Tables!Number[a] < Tables!Number[b] ELSE Tables!Spelling[a] < Tables!Spelling[b]
  BY <1>1 DEF Tables!compareValues
<1>5. CASE a = "none"
  BY <1>3, <1>4, <1>5 DEF Cells
<1>6. CASE a = "ten"
  BY <1>2, <1>3, <1>4, <1>6 DEF Cells
<1>7. CASE a = "nine"
  BY <1>2, <1>3, <1>4, <1>7 DEF Cells
<1>8. CASE a = "word"
  BY <1>2, <1>3, <1>4, <1>8 DEF Cells
<1> QED
  BY <1>5, <1>6, <1>7, <1>8 DEF Cells

LEMMA ComparesOrNot == \A a, b : Tables!compareValues(a, b) \in BOOLEAN
<1> SUFFICES ASSUME NEW a, NEW b PROVE Tables!compareValues(a, b) \in BOOLEAN
  OBVIOUS
<1>1. CASE {a, b} \subseteq DOMAIN Tables!Number
  <2>1. Tables!compareValues(a, b) = (Tables!Number[a] < Tables!Number[b])
    BY <1>1 DEF Tables!compareValues
  <2> QED
    BY <2>1
<1>2. CASE ~ ({a, b} \subseteq DOMAIN Tables!Number)
  <2>1. Tables!compareValues(a, b) = (Tables!Spelling[a] < Tables!Spelling[b])
    BY <1>2 DEF Tables!compareValues
  <2> QED
    BY <2>1
<1> QED
  BY <1>1, <1>2

\* Where a view wants row r.
Key(v, r) == LET w == Weight[tableRows[r].values[v.sortBy]]
             IN IF v.dir = "desc" THEN 3 - w ELSE w

Even(v, rs) == Tables!Uniform({tableRows[r].values[v.sortBy] : r \in rs})

LEMMA KeysOrder ==
    ASSUME TbTyped, NEW v \in Views, v.sortBy # "none", NEW rs \in SUBSET DOMAIN tableRows,
           Even(v, rs), NEW r \in rs, NEW s \in rs
    PROVE  /\ Key(v, r) \in 0..3 /\ Key(v, s) \in 0..3
           /\ Tables!Before(v, r, s) <=> Key(v, r) < Key(v, s)
           /\ Tables!Precedes(v, r, s) <=>
                 \/ Key(v, r) < Key(v, s)
                 \/ Key(v, r) = Key(v, s) /\ Tables!StoredBefore(r, s)
<1>1. PICK a, b, cells : /\ a = tableRows[r].values[v.sortBy] /\ b = tableRows[s].values[v.sortBy]
                         /\ cells = {tableRows[x].values[v.sortBy] : x \in rs}
  OBVIOUS
<1>2. a \in Cells /\ b \in Cells /\ a \in cells /\ b \in cells
  <2>1. tableRows[r] \in Lines /\ tableRows[s] \in Lines /\ v.sortBy \in Column
    BY DEF TbTyped, Views
  <2> QED
    BY <1>1, <2>1 DEF Lines
<1>3. Tables!Uniform(cells)
  BY <1>1 DEF Even
<1>4. PICK wa, wb : wa = Weight[a] /\ wb = Weight[b]
  OBVIOUS
<1>5. /\ wa \in 0..3 /\ wb \in 0..3
      /\ Tables!compareValues(a, b) <=> wa < wb
      /\ Tables!compareValues(b, a) <=> wb < wa
  BY <1>2, <1>3, <1>4, CellsCompare
<1>6. /\ Key(v, r) = IF v.dir = "desc" THEN 3 - wa ELSE wa
      /\ Key(v, s) = IF v.dir = "desc" THEN 3 - wb ELSE wb
  BY <1>1, <1>4 DEF Key
<1>7. Tables!Before(v, r, s) <=> IF v.dir = "desc" THEN wb < wa ELSE wa < wb
  BY <1>1, <1>5 DEF Tables!Before
<1>8. Tables!Precedes(v, r, s) <=>
          IF (wa < wb) <=> (wb < wa) THEN Tables!StoredBefore(r, s) ELSE (wa < wb) <=> (v.dir = "asc")
  <2>1. PICK up, down : up = Tables!compareValues(a, b) /\ down = Tables!compareValues(b, a)
    OBVIOUS
  <2>2. up \in BOOLEAN /\ down \in BOOLEAN
    BY <2>1, ComparesOrNot
  <2>3. Tables!Precedes(v, r, s) <=>
            IF up = down THEN Tables!StoredBefore(r, s) ELSE up = (v.dir = "asc")
    BY <1>1, <2>1 DEF Tables!Precedes
  <2>4. (up <=> wa < wb) /\ (down <=> wb < wa)
    BY <1>5, <2>1
  <2> QED
    BY <2>2, <2>3, <2>4
<1>9. v.dir = "asc" <=> v.dir # "desc"
  BY DEF Views
<1>10. Key(v, r) \in 0..3 /\ Key(v, s) \in 0..3
  BY <1>5, <1>6
<1>11. Tables!Before(v, r, s) <=> Key(v, r) < Key(v, s)
  BY <1>5, <1>6, <1>7
<1>12. Tables!Precedes(v, r, s) <=>
          Key(v, r) < Key(v, s) \/ (Key(v, r) = Key(v, s) /\ Tables!StoredBefore(r, s))
  BY <1>5, <1>6, <1>8, <1>9
<1> QED
  BY <1>10, <1>11, <1>12

-----------------------------------------------------------------------------
LEMMA TablesOrder == \A S, R : Tables!Ordered(S, R) = Ordered(S, R)
<1> SUFFICES ASSUME NEW S, NEW R PROVE Tables!Ordered(S, R) = Ordered(S, R)
  OBVIOUS
<1>1. Tables!Cardinality(S) = Cardinality(S)
  BY DEF Tables!Cardinality, Cardinality
<1> QED
  BY <1>1 DEF Tables!Ordered, Ordered

\* q is the rows rs, each once, in the order they are stored in.
InStore(q, rs) ==
    /\ q \in Seq(rs)
    /\ \A i, j \in 1..Len(q) : i < j => Tables!StoredBefore(q[i], q[j])
    /\ \A i, j \in 1..Len(q) : q[i] = q[j] => i = j
    /\ \A r \in rs : \E i \in 1..Len(q) : q[i] = r

LEMMA StoredIs ==
    ASSUME TbTyped, NEW rs \in SUBSET DOMAIN tableRows
    PROVE  InStore(Tables!Stored(rs), rs)
<1>1. PICK R : R = {p \in rs \X rs : Tables!StoredBefore(p[1], p[2])}
  OBVIOUS
<1>2. PICK n : n = Len(tableRows) /\ n \in Nat
  BY DEF TbTyped
<1>3. \A r \in rs : r \in 1..n /\ tableRows[r].pos \in Nat
  <2>1. \A r \in rs : r \in 1..n /\ tableRows[r] \in Lines
    BY <1>2 DEF TbTyped
  <2> QED
    BY <2>1 DEF Lines
<1>4. IsFiniteSet(rs)
  <2>1. IsFiniteSet(1..n)
    BY <1>2, FS_Interval
  <2> QED
    BY <1>3, <2>1, FS_Subset
<1>5. \A r, s \in rs : <<r, s>> \in R <=> Tables!StoredBefore(r, s)
  BY <1>1
<1>6. TotalOn(rs, R)
  BY <1>3, <1>5 DEF TotalOn, Tables!StoredBefore
<1>7. PICK q : q = Ordered(rs, R) /\ q = Tables!Stored(rs)
  BY <1>1, TablesOrder DEF Tables!Stored
<1>8. InOrder(q, rs, R)
  BY <1>4, <1>6, <1>7, OrderedIs
<1>9. PICK m : m = Cardinality(rs) /\ m \in Nat
  BY <1>8 DEF InOrder
<1>10. q \in [1..m -> rs]
  BY <1>8, <1>9 DEF InOrder
<1>11. q \in Seq(rs) /\ Len(q) = m
  BY <1>9, <1>10
<1>12. /\ \A i, j \in 1..m : i < j => <<q[i], q[j]>> \in R
       /\ \A i, j \in 1..m : q[i] = q[j] => i = j
       /\ \A r \in rs : \E i \in 1..m : q[i] = r
  BY <1>8, <1>9 DEF InOrder
<1>13. \A i, j \in 1..m : i < j => Tables!StoredBefore(q[i], q[j])
  BY <1>5, <1>10, <1>12
<1> QED
  BY <1>7, <1>11, <1>12, <1>13 DEF InStore

-----------------------------------------------------------------------------
LEMMA GreatestOne ==
    ASSUME NEW n \in Nat, NEW S, S \subseteq 0..n, S # {}
    PROVE  \E m \in S : \A k \in S : m >= k
<1>1. PICK T : T = {n - k : k \in S}
  OBVIOUS
<1>2. T \in SUBSET Nat /\ T # {}
  <2>1. \A k \in S : k \in 0..n /\ n - k \in Nat
    OBVIOUS
  <2>2. PICK k \in S : TRUE
    OBVIOUS
  <2>3. n - k \in T
    BY <1>1, <2>2
  <2> QED
    BY <1>1, <2>1, <2>3
<1>3. PICK t \in T : \A u \in T : t <= u
  BY <1>2, LeastOne
<1>4. PICK m \in S : t = n - m
  BY <1>1, <1>3
<1>5. ASSUME NEW k \in S PROVE m >= k
  <2>1. n - m <= n - k
    BY <1>1, <1>3, <1>4
  <2>2. m \in Nat /\ k \in Nat
    OBVIOUS
  <2> QED
    BY <2>1, <2>2
<1> QED
  BY <1>4, <1>5

\* next is done with row r at place p + 1.
PutAt(next, done, r, p) ==
    /\ p \in 0..Len(done) /\ Len(next) = Len(done) + 1
    /\ next[p + 1] = r
    /\ \A k \in 1..p : next[k] = done[k]
    /\ \A k \in (p + 1)..Len(done) : next[k + 1] = done[k]

LEMMA PutsAt ==
    ASSUME NEW Of, NEW done \in Seq(Of), NEW r \in Of, NEW p \in 0..Len(done)
    PROVE  /\ Tables!InsertAt(done, 1 + p, r) \in Seq(Of)
           /\ PutAt(Tables!InsertAt(done, 1 + p, r), done, r, p)
<1>1. PICK n : n = Len(done) /\ n \in Nat
  OBVIOUS
<1>2. p \in Nat /\ p <= n
  BY <1>1
<1>3. PICK a, b, c : a = SubSeq(done, 1, p) /\ b = <<r>> /\ c = SubSeq(done, 1 + p, n)
  OBVIOUS
<1>4. Tables!InsertAt(done, 1 + p, r) = (a \o b) \o c
  <2>1. Tables!InsertAt(done, 1 + p, r) =
            (SubSeq(done, 1, (1 + p) - 1) \o <<r>>) \o SubSeq(done, 1 + p, Len(done))
    BY DEF Tables!InsertAt
  <2>2. (1 + p) - 1 = p
    BY <1>2
  <2> QED
    BY <1>1, <1>3, <2>1, <2>2
<1>5. a \in Seq(Of) /\ Len(a) = p /\ \A k \in 1..p : a[k] = done[k]
  BY <1>1, <1>2, <1>3
<1>6. b \in Seq(Of) /\ Len(b) = 1 /\ b[1] = r
  BY <1>3
<1>7. c \in Seq(Of) /\ Len(c) = n - p /\ \A k \in 1..(n - p) : c[k] = done[p + k]
  BY <1>1, <1>2, <1>3
<1>8. PICK d : d = a \o b
  OBVIOUS
<1>9. /\ d \in Seq(Of) /\ Len(d) = p + 1
      /\ \A k \in 1..(p + 1) : d[k] = IF k <= p THEN a[k] ELSE b[k - p]
  <2>1. PICK one : one = 1
    OBVIOUS
  <2>2. a \in Seq(Of) /\ b \in Seq(Of) /\ Len(a) = p /\ Len(b) = one
    BY <1>5, <1>6, <2>1
  <2>3. /\ a \o b \in Seq(Of) /\ Len(a \o b) = p + one
        /\ \A k \in 1..(p + one) : (a \o b)[k] = IF k <= p THEN a[k] ELSE b[k - p]
    BY <2>2, JoinedEnds
  <2> QED
    BY <1>8, <2>1, <2>3
<1>10. PICK e : e = d \o c
  OBVIOUS
<1>11. /\ e \in Seq(Of) /\ Len(e) = (p + 1) + (n - p)
       /\ \A k \in 1..((p + 1) + (n - p)) : e[k] = IF k <= p + 1 THEN d[k] ELSE c[k - (p + 1)]
  <2>1. PICK front, back : front = p + 1 /\ back = n - p
    OBVIOUS
  <2>2. d \in Seq(Of) /\ c \in Seq(Of) /\ Len(d) = front /\ Len(c) = back
    BY <1>7, <1>9, <2>1
  <2>3. /\ d \o c \in Seq(Of) /\ Len(d \o c) = front + back
        /\ \A k \in 1..(front + back) : (d \o c)[k] = IF k <= front THEN d[k] ELSE c[k - front]
    BY <2>2, JoinedEnds
  <2> QED
    BY <1>10, <2>1, <2>3
<1>12. (p + 1) + (n - p) = n + 1
  BY <1>1, <1>2
<1>13. e[p + 1] = r
  <2>1. p + 1 \in 1..(n + 1) /\ p + 1 \in 1..(p + 1) /\ ~ (p + 1 <= p) /\ (p + 1) - p = 1
    BY <1>1, <1>2
  <2> QED
    BY <1>6, <1>9, <1>11, <1>12, <2>1
<1>14. ASSUME NEW k \in 1..p PROVE e[k] = done[k]
  <2>1. k \in 1..(n + 1) /\ k \in 1..(p + 1) /\ k <= p /\ k <= p + 1
    BY <1>1, <1>2
  <2> QED
    BY <1>5, <1>9, <1>11, <1>12, <2>1
<1>15. ASSUME NEW k \in (p + 1)..n PROVE e[k + 1] = done[k]
  <2>1. /\ k + 1 \in 1..(n + 1) /\ ~ (k + 1 <= p + 1) /\ k + 1 - (p + 1) \in 1..(n - p)
        /\ p + (k + 1 - (p + 1)) = k
    BY <1>1, <1>2
  <2> QED
    BY <1>7, <1>11, <1>12, <2>1
<1> QED
  BY <1>1, <1>4, <1>8, <1>10, <1>11, <1>12, <1>13, <1>14, <1>15 DEF PutAt

\* A row goes behind the last that it is not less than.
LEMMA InsertedIs ==
    ASSUME NEW Of, NEW done \in Seq(Of), NEW r \in Of, NEW v
    PROVE  /\ Tables!Inserted(done, r, v) \in Seq(Of)
           /\ \E p : /\ PutAt(Tables!Inserted(done, r, v), done, r, p)
                     /\ p # 0 => ~ Tables!Before(v, r, done[p])
                     /\ \A k \in (p + 1)..Len(done) : Tables!Before(v, r, done[k])
<1>1. PICK n : n = Len(done) /\ n \in Nat /\ DOMAIN done = 1..n
  OBVIOUS
<1>2. PICK stop : stop = {k \in 1..n : ~ Tables!Before(v, r, done[k])}
  OBVIOUS
<1>3. \E m \in stop \cup {0} : \A k \in stop \cup {0} : m >= k
  <2>1. stop \cup {0} \subseteq 0..n /\ stop \cup {0} # {}
    BY <1>1, <1>2
  <2> QED
    BY <1>1, <2>1, GreatestOne
<1>4. PICK p : p = Tables!Max(stop \cup {0})
  OBVIOUS
<1>5. p \in stop \cup {0} /\ \A k \in stop \cup {0} : p >= k
  BY <1>3, <1>4 DEF Tables!Max
<1>6. p \in 0..Len(done)
  BY <1>1, <1>2, <1>5
<1>7. Tables!Inserted(done, r, v) = Tables!InsertAt(done, 1 + p, r)
  BY <1>1, <1>2, <1>4 DEF Tables!Inserted
<1>8. p # 0 => ~ Tables!Before(v, r, done[p])
  BY <1>2, <1>5
<1>9. ASSUME NEW k \in (p + 1)..Len(done) PROVE Tables!Before(v, r, done[k])
  <2>1. k \in 1..n /\ ~ (p >= k)
    BY <1>1, <1>6
  <2>2. k \notin stop
    BY <1>5, <2>1
  <2> QED
    BY <1>2, <2>1, <2>2
<1> QED
  BY <1>6, <1>7, <1>8, <1>9, PutsAt

-----------------------------------------------------------------------------
\* w is what is sorted after each row of q.
SortsTo(w, q, v, m) ==
    w = [n \in 0..m |-> IF n = 0 THEN <<>> ELSE Tables!Inserted(w[n - 1], q[n], v)]

LEMMA SomeSorting == ASSUME NEW q, NEW v, Len(q) \in Nat PROVE \E w : SortsTo(w, q, v, Len(q))
<1>0. PICK size : size = Len(q)
  OBVIOUS
<1> DEFINE S == {k \in 0..size : \E w : SortsTo(w, q, v, k)}
<1>1. 0 \in S
  <2>1. PICK w : w = [n \in 0..0 |-> <<>>]
    OBVIOUS
  <2>2. SortsTo(w, q, v, 0)
    BY <2>1 DEF SortsTo
  <2> QED
    BY <1>0, <2>2
<1>2. ASSUME NEW k \in 0..size, k \in S, k < size PROVE k + 1 \in S
  <2>1. PICK w : SortsTo(w, q, v, k)
    BY <1>2
  <2>2. PICK x : x = [n \in 0..(k + 1) |-> IF n = k + 1 THEN Tables!Inserted(w[k], q[k + 1], v) ELSE w[n]]
    OBVIOUS
  <2>3. ASSUME NEW n \in 0..(k + 1)
        PROVE  x[n] = IF n = 0 THEN <<>> ELSE Tables!Inserted(x[n - 1], q[n], v)
    <3>1. CASE n = k + 1
      <4>1. n - 1 = k /\ x[k] = w[k] /\ n # 0 /\ x[n] = Tables!Inserted(w[k], q[k + 1], v)
        BY <1>2, <2>2, <3>1
      <4> QED
        BY <3>1, <4>1
    <3>2. CASE n # k + 1
      <4>1. n \in 0..k /\ (n # 0 => n - 1 \in 0..k /\ n - 1 \in 0..(k + 1) /\ n - 1 # k + 1)
        BY <1>2, <3>2
      <4>2. x[n] = w[n] /\ (n # 0 => x[n - 1] = w[n - 1])
        BY <2>2, <3>2, <4>1
      <4>3. w[n] = IF n = 0 THEN <<>> ELSE Tables!Inserted(w[n - 1], q[n], v)
        BY <2>1, <4>1 DEF SortsTo
      <4> QED
        BY <4>2, <4>3
    <3> QED
      BY <3>1, <3>2
  <2>4. SortsTo(x, q, v, k + 1)
    BY <2>2, <2>3 DEF SortsTo
  <2>5. k + 1 \in 0..size
    BY <1>0, <1>2
  <2> QED
    BY <2>4, <2>5
<1> HIDE DEF S
<1>3. 0..size \subseteq S
  BY <1>0, <1>1, <1>2, Climb
<1>4. size \in S
  BY <1>0, <1>3
<1> QED
  BY <1>0, <1>4 DEF S

LEMMA SortingIs ==
    ASSUME NEW q, NEW v, Len(q) \in Nat
    PROVE  \E w : /\ w[0] = <<>>
                  /\ \A n \in 1..Len(q) : w[n] = Tables!Inserted(w[n - 1], q[n], v)
                  /\ Tables!sortRows(q, v) = w[Len(q)]
<1>1. \E w : SortsTo(w, q, v, Len(q))
  BY SomeSorting
<1>2. PICK w : w = CHOOSE x : SortsTo(x, q, v, Len(q))
  OBVIOUS
<1>3. SortsTo(w, q, v, Len(q))
  BY <1>1, <1>2
<1>4. Tables!sortRows(q, v) = w[Len(q)]
  BY <1>2 DEF Tables!sortRows, SortsTo
<1> QED
  BY <1>3, <1>4 DEF SortsTo

\* s is the first m rows of q, as the view v wants them.
SortedSoFar(s, q, v, rs, m) ==
    /\ s \in Seq(rs) /\ Len(s) = m
    /\ \A i \in 1..m : \E k \in 1..m : s[i] = q[k]
    /\ \A k \in 1..m : \E i \in 1..m : s[i] = q[k]
    /\ \A i, j \in 1..m : s[i] = s[j] => i = j
    /\ Even(v, rs) => \A i, j \in 1..m : i < j => Tables!Precedes(v, s[i], s[j])

LEMMA InsertingSorts ==
    ASSUME TbTyped, NEW v \in Views, v.sortBy # "none", NEW rs \in SUBSET DOMAIN tableRows,
           NEW q, InStore(q, rs), NEW m \in Nat, m < Len(q), NEW s, SortedSoFar(s, q, v, rs, m)
    PROVE  SortedSoFar(Tables!Inserted(s, q[m + 1], v), q, v, rs, m + 1)
<1>1. PICK r : r = q[m + 1]
  OBVIOUS
<1>2. m + 1 \in 1..Len(q) /\ r \in rs /\ \A k \in 1..m : k \in 1..Len(q) /\ k < m + 1 /\ k # m + 1
  BY <1>1 DEF InStore
<1>3. s \in Seq(rs) /\ Len(s) = m /\ \A k \in 1..m : s[k] \in rs
  BY DEF SortedSoFar
<1>4. PICK next : next = Tables!Inserted(s, r, v)
  OBVIOUS
<1>5. next \in Seq(rs) /\ \E p : /\ PutAt(next, s, r, p)
                                 /\ p # 0 => ~ Tables!Before(v, r, s[p])
                                 /\ \A k \in (p + 1)..Len(s) : Tables!Before(v, r, s[k])
  BY <1>2, <1>3, <1>4, InsertedIs
<1>6. PICK p : /\ PutAt(next, s, r, p)
               /\ p # 0 => ~ Tables!Before(v, r, s[p])
               /\ \A k \in (p + 1)..m : Tables!Before(v, r, s[k])
  BY <1>3, <1>5
<1>7. /\ p \in 0..m /\ Len(next) = m + 1 /\ next[p + 1] = r
      /\ \A k \in 1..p : next[k] = s[k]
      /\ \A k \in (p + 1)..m : next[k + 1] = s[k]
  BY <1>3, <1>6 DEF PutAt
<1> DEFINE Old(x) == IF x <= p THEN x ELSE x - 1
<1>8. ASSUME NEW x \in 1..(m + 1), x # p + 1
      PROVE  Old(x) \in 1..m /\ next[x] = s[Old(x)]
  <2>1. CASE x <= p
    <3>1. x \in 1..p /\ x \in 1..m
      BY <1>7, <2>1
    <3> QED
      BY <1>7, <2>1, <3>1
  <2>2. CASE ~ (x <= p)
    <3>1. x - 1 \in (p + 1)..m /\ x - 1 \in 1..m /\ (x - 1) + 1 = x
      BY <1>7, <1>8, <2>2
    <3> QED
      BY <1>7, <2>2, <3>1
  <2> QED
    BY <2>1, <2>2
<1>9. \A x, y \in 1..(m + 1) : x # p + 1 /\ y # p + 1 =>
          (x < y => Old(x) < Old(y)) /\ (Old(x) = Old(y) => x = y)
  BY <1>7
<1>10. \A k \in 1..m : \E x \in 1..(m + 1) : x # p + 1 /\ Old(x) = k
  <2> SUFFICES ASSUME NEW k \in 1..m PROVE \E x \in 1..(m + 1) : x # p + 1 /\ Old(x) = k
    OBVIOUS
  <2>1. CASE k <= p
    <3>1. k \in 1..(m + 1) /\ k # p + 1 /\ Old(k) = k
      BY <1>7, <2>1
    <3> QED
      BY <3>1
  <2>2. CASE ~ (k <= p)
    <3>1. k + 1 \in 1..(m + 1) /\ k + 1 # p + 1 /\ Old(k + 1) = k
      BY <1>7, <2>2
    <3> QED
      BY <3>1
  <2> QED
    BY <2>1, <2>2
<1> HIDE DEF Old
<1>11. \A k \in 1..m : s[k] # r /\ Tables!StoredBefore(s[k], r)
  <2> SUFFICES ASSUME NEW k \in 1..m PROVE s[k] # r /\ Tables!StoredBefore(s[k], r)
    OBVIOUS
  <2>1. PICK i \in 1..m : s[k] = q[i]
    BY DEF SortedSoFar
  <2>2. i \in 1..Len(q) /\ m + 1 \in 1..Len(q) /\ i < m + 1 /\ i # m + 1
    BY <1>2
  <2> QED
    BY <1>1, <2>1, <2>2 DEF InStore
<1>12. \A x \in 1..(m + 1) : \E k \in 1..(m + 1) : next[x] = q[k]
  <2> SUFFICES ASSUME NEW x \in 1..(m + 1) PROVE \E k \in 1..(m + 1) : next[x] = q[k]
    OBVIOUS
  <2>1. CASE x = p + 1
    <3>1. m + 1 \in 1..(m + 1)
      OBVIOUS
    <3> QED
      BY <1>1, <1>7, <2>1, <3>1
  <2>2. CASE x # p + 1
    <3>1. PICK k \in 1..m : s[Old(x)] = q[k]
      BY <1>8, <2>2 DEF SortedSoFar
    <3>2. k \in 1..(m + 1)
      OBVIOUS
    <3> QED
      BY <1>8, <2>2, <3>1, <3>2
  <2> QED
    BY <2>1, <2>2
<1>13. \A k \in 1..(m + 1) : \E x \in 1..(m + 1) : next[x] = q[k]
  <2> SUFFICES ASSUME NEW k \in 1..(m + 1) PROVE \E x \in 1..(m + 1) : next[x] = q[k]
    OBVIOUS
  <2>1. CASE k = m + 1
    <3>1. p + 1 \in 1..(m + 1)
      BY <1>7
    <3> QED
      BY <1>1, <1>7, <2>1, <3>1
  <2>2. CASE k # m + 1
    <3>1. k \in 1..m
      BY <2>2
    <3>2. PICK i \in 1..m : s[i] = q[k]
      BY <3>1 DEF SortedSoFar
    <3>3. PICK x \in 1..(m + 1) : x # p + 1 /\ Old(x) = i
      BY <1>10
    <3> QED
      BY <1>8, <3>2, <3>3
  <2> QED
    BY <2>1, <2>2
<1>14. ASSUME NEW x \in 1..(m + 1), NEW y \in 1..(m + 1), next[x] = next[y] PROVE x = y
  <2>1. CASE x # p + 1 /\ y # p + 1
    <3>1. s[Old(x)] = s[Old(y)] /\ Old(x) \in 1..m /\ Old(y) \in 1..m
      BY <1>8, <1>14, <2>1
    <3>2. Old(x) = Old(y)
      BY <3>1 DEF SortedSoFar
    <3> QED
      BY <1>9, <2>1, <3>2
  <2>2. CASE x = p + 1 /\ y # p + 1
    BY <1>7, <1>8, <1>11, <1>14, <2>2
  <2>3. CASE x # p + 1 /\ y = p + 1
    BY <1>7, <1>8, <1>11, <1>14, <2>3
  <2> QED
    BY <2>1, <2>2, <2>3
<1>15. ASSUME Even(v, rs), NEW x \in 1..(m + 1), NEW y \in 1..(m + 1), x < y
       PROVE  Tables!Precedes(v, next[x], next[y])
  <2>1. CASE x # p + 1 /\ y # p + 1
    <3>1. Old(x) \in 1..m /\ Old(y) \in 1..m /\ Old(x) < Old(y)
      BY <1>8, <1>9, <1>15, <2>1
    <3>2. Tables!Precedes(v, s[Old(x)], s[Old(y)])
      BY <1>15, <3>1 DEF SortedSoFar
    <3> QED
      BY <1>8, <2>1, <3>2
  <2>2. CASE x = p + 1
    <3>1. y - 1 \in (p + 1)..m /\ (y - 1) + 1 = y /\ y - 1 \in 1..m
      BY <1>7, <1>15, <2>2
    <3>2. PICK t : t = s[y - 1] /\ t \in rs /\ next[y] = t
      BY <1>3, <1>7, <3>1
    <3>3. Tables!Before(v, r, t)
      BY <1>6, <3>1, <3>2
    <3>4. Tables!Precedes(v, r, t)
      BY <1>2, <1>15, <3>2, <3>3, KeysOrder
    <3> QED
      BY <1>7, <2>2, <3>2, <3>4
  <2>3. CASE y = p + 1
    <3>1. p # 0 /\ p \in 1..m /\ x \in 1..p /\ x \in 1..m /\ x <= p
      BY <1>7, <1>15, <2>3
    <3>2. PICK t, u : /\ t = s[x] /\ t \in rs /\ next[x] = t /\ u = s[p] /\ u \in rs
                      /\ Tables!StoredBefore(t, r)
      BY <1>3, <1>7, <1>11, <3>1
    <3>3. ~ Tables!Before(v, r, u)
      BY <1>6, <3>1, <3>2
    <3>4. Key(v, r) \in 0..3 /\ Key(v, u) \in 0..3 /\ Key(v, u) <= Key(v, r)
      BY <1>2, <1>15, <3>2, <3>3, KeysOrder
    <3>5. Key(v, t) \in 0..3 /\ Key(v, t) <= Key(v, u)
      <4>1. CASE x = p
        BY <3>2, <3>4, <4>1
      <4>2. CASE x # p
        <5>1. x < p
          BY <1>7, <3>1, <4>2
        <5>2. Tables!Precedes(v, t, u)
          BY <1>15, <3>1, <3>2, <5>1 DEF SortedSoFar
        <5> QED
          BY <1>15, <3>2, <5>2, KeysOrder
      <4> QED
        BY <4>1, <4>2
    <3>6. Key(v, t) < Key(v, r) \/ Key(v, t) = Key(v, r)
      BY <3>4, <3>5
    <3>7. Tables!Precedes(v, t, r)
      BY <1>2, <1>15, <3>2, <3>6, KeysOrder
    <3> QED
      BY <1>7, <2>3, <3>2, <3>7
  <2> QED
    BY <2>1, <2>2, <2>3
<1>16. SortedSoFar(next, q, v, rs, m + 1)
  BY <1>5, <1>7, <1>12, <1>13, <1>14, <1>15 DEF SortedSoFar
<1> QED
  BY <1>1, <1>4, <1>16

LEMMA SortRowsIs ==
    ASSUME TbTyped, NEW v \in Views, v.sortBy # "none", NEW rs \in SUBSET DOMAIN tableRows,
           NEW q, InStore(q, rs)
    PROVE  SortedSoFar(Tables!sortRows(q, v), q, v, rs, Len(q))
<1>1. PICK size : size = Len(q) /\ size \in Nat
  BY DEF InStore
<1>2. \E w : /\ w[0] = <<>>
             /\ \A n \in 1..Len(q) : w[n] = Tables!Inserted(w[n - 1], q[n], v)
             /\ Tables!sortRows(q, v) = w[Len(q)]
  BY <1>1, SortingIs
<1>3. PICK w : /\ w[0] = <<>>
               /\ \A n \in 1..size : w[n] = Tables!Inserted(w[n - 1], q[n], v)
               /\ Tables!sortRows(q, v) = w[size]
  BY <1>1, <1>2
<1> DEFINE S == {n \in 0..size : SortedSoFar(w[n], q, v, rs, n)}
<1>4. 0 \in S
  <2>1. <<>> \in Seq(rs) /\ Len(<<>>) = 0 /\ 1..0 = {}
    OBVIOUS
  <2>2. SortedSoFar(<<>>, q, v, rs, 0)
    BY <2>1 DEF SortedSoFar
  <2> QED
    BY <1>1, <1>3, <2>2
<1>5. ASSUME NEW n \in 0..size, n \in S, n < size PROVE n + 1 \in S
  <2>1. n + 1 \in 1..size /\ n + 1 \in 0..size /\ (n + 1) - 1 = n /\ n \in Nat /\ n < Len(q)
    BY <1>1, <1>5
  <2>2. w[n + 1] = Tables!Inserted(w[n], q[n + 1], v)
    BY <1>3, <2>1
  <2>3. SortedSoFar(w[n], q, v, rs, n)
    BY <1>5
  <2>4. SortedSoFar(Tables!Inserted(w[n], q[n + 1], v), q, v, rs, n + 1)
    BY <2>1, <2>3, InsertingSorts
  <2> QED
    BY <2>1, <2>2, <2>4
<1> HIDE DEF S
<1>6. 0..size \subseteq S
  BY <1>1, <1>4, <1>5, Climb
<1>7. size \in S
  BY <1>1, <1>6
<1> QED
  BY <1>1, <1>3, <1>7 DEF S

-----------------------------------------------------------------------------
(* A listing is in order, and a request keeps the cells it does not name.      *)

\* What ListedInOrder says of an answer s to the view v.
Answers(s, v) ==
    LET rs == Tables!Kept(Tables!Stands, v.filters)
    IN /\ DOMAIN s = 1..Len(s) /\ Len(s) \in Nat
       /\ \A i \in 1..Len(s) : s[i] \in rs
       /\ \A r \in rs : \E i \in 1..Len(s) : s[i] = r
       /\ \A i, j \in 1..Len(s) : s[i] = s[j] => i = j
       /\ (v.sortBy = "none" \/ Even(v, rs)) =>
             \A i, j \in 1..Len(s) : i < j => Tables!Precedes(v, s[i], s[j])

LEMMA ListAnswers ==
    ASSUME TbTyped, NEW v \in Views
    PROVE  LET kept == Tables!Stored(Tables!Kept(Tables!Stands, v.filters))
           IN Answers(IF v.sortBy = "none" THEN kept ELSE Tables!sortRows(kept, v), v)
<1>1. PICK rs, q : rs = Tables!Kept(Tables!Stands, v.filters) /\ q = Tables!Stored(rs)
  OBVIOUS
<1>2. rs \in SUBSET DOMAIN tableRows
  BY <1>1 DEF Tables!Kept, Tables!Stands
<1>3. InStore(q, rs)
  BY <1>1, <1>2, StoredIs
<1>4. Len(q) \in Nat /\ DOMAIN q = 1..Len(q) /\ \A i \in 1..Len(q) : q[i] \in rs
  BY <1>3 DEF InStore
<1>5. CASE v.sortBy = "none"
  <2>1. \A i, j \in 1..Len(q) : i < j => Tables!Precedes(v, q[i], q[j])
    BY <1>3, <1>5 DEF InStore, Tables!Precedes
  <2>2. Answers(q, v)
    BY <1>1, <1>3, <1>4, <2>1 DEF InStore, Answers
  <2> QED
    BY <1>1, <1>5, <2>2
<1>6. CASE v.sortBy # "none"
  <2>1. PICK s, m : s = Tables!sortRows(q, v) /\ m = Len(q) /\ m \in Nat
    BY <1>4
  <2>2. SortedSoFar(s, q, v, rs, m)
    BY <1>2, <1>3, <1>6, <2>1, SortRowsIs
  <2>3. Len(s) = m /\ DOMAIN s = 1..m /\ \A i \in 1..m : s[i] \in rs
    BY <2>2 DEF SortedSoFar
  <2>4. ASSUME NEW r \in rs PROVE \E i \in 1..m : s[i] = r
    <3>1. PICK k \in 1..m : q[k] = r
      BY <1>3, <2>1 DEF InStore
    <3> QED
      BY <2>2, <3>1 DEF SortedSoFar
  <2>5. /\ \A i, j \in 1..m : s[i] = s[j] => i = j
        /\ Even(v, rs) => \A i, j \in 1..m : i < j => Tables!Precedes(v, s[i], s[j])
    BY <2>2 DEF SortedSoFar
  <2>6. Answers(s, v)
    BY <1>1, <1>6, <2>1, <2>3, <2>4, <2>5 DEF Answers
  <2> QED
    BY <1>1, <1>6, <2>1, <2>6
<1> QED
  BY <1>5, <1>6

LEMMA ListRowsKeeps == ASSUME TbInv, Tables!ListRows PROVE TbInv'
<1>1. PICK v : v = asked[1]
  OBVIOUS
<1>2. v \in Views /\ asked # <<>> /\ asked' = asked
  BY <1>1 DEF TbInv, TbTyped, Tables!ListRows, Tables!Unasked
<1>3. PICK rs : rs = Tables!Kept(Tables!Stands, v.filters)
  OBVIOUS
<1>4. PICK s : Answers(s, v) /\ shown' = s
  <2>1. shown' = IF v.sortBy = "none" THEN Tables!Stored(rs) ELSE Tables!sortRows(Tables!Stored(rs), v)
    BY <1>1, <1>3 DEF Tables!ListRows
  <2> QED
    BY <1>2, <1>3, <2>1, ListAnswers DEF TbInv
<1>5. UNCHANGED <<tableRows, view, edits, asked, wanted, torn>>
  BY DEF Tables!ListRows
<1>6. Tables!IsInjective(s)
  BY <1>4 DEF Answers, Tables!IsInjective
<1>7. Tables!ToSet(s) = rs
  BY <1>3, <1>4 DEF Answers, Tables!ToSet
<1>8. \/ v.sortBy # "none" /\ ~ Tables!Uniform({tableRows[r].values[v.sortBy] : r \in rs})
      \/ \A i, j \in DOMAIN s : i < j => Tables!Precedes(v, s[i], s[j])
  BY <1>3, <1>4 DEF Answers, Even
<1>9. Tables!ListedInOrder'
  <2>1. Tables!Kept(Tables!Stands, v.filters)' = rs
    BY <1>3, <1>5 DEF Tables!Kept, Tables!Stands
  <2>2. \A r, x : Tables!Precedes(v, r, x)' <=> Tables!Precedes(v, r, x)
    BY <1>5 DEF Tables!Precedes, Tables!StoredBefore
  <2> QED
    BY <1>1, <1>2, <1>4, <1>5, <1>6, <1>7, <1>8, <2>1, <2>2 DEF Tables!ListedInOrder
<1>10. TbListed'
  BY <1>2, <1>9 DEF TbListed
<1>11. TbTyped' /\ Tables!CellsKept'
  BY <1>5 DEF TbInv, TbTyped, Tables!CellsKept, Tables!Stands
<1> QED
  BY <1>10, <1>11 DEF TbInv

LEMMA CreateRowKeeps ==
    ASSUME TbInv, NEW pos \in 1..2, NEW values \in Written, Tables!CreateRow(pos, values)
    PROVE  TbInv'
<1>1. PICK line : line = [there |-> TRUE, pos |-> pos, values |-> values]
  OBVIOUS
<1>2. line \in Lines /\ values \in [Column -> Cells] /\ line.values = values
  BY <1>1, TableSizes DEF Lines
<1>3. /\ tableRows' = Append(tableRows, line) /\ wanted' = Append(wanted, values)
      /\ UNCHANGED <<view, edits, asked, shown, torn>> /\ shown = Tables!Unshown
  BY <1>1 DEF Tables!CreateRow, Tables!Op
<1>4. PICK n : n = Len(tableRows) /\ n = Len(wanted) /\ n \in Nat
  BY DEF TbInv, TbTyped
<1>5. /\ tableRows' \in Seq(Lines) /\ Len(tableRows') = n + 1 /\ tableRows'[n + 1] = line
      /\ DOMAIN tableRows = 1..n /\ DOMAIN tableRows' = 1..(n + 1)
      /\ \A r \in 1..n : tableRows'[r] = tableRows[r]
  <2>1. tableRows \in Seq(Lines)
    BY DEF TbInv, TbTyped
  <2>2. /\ Append(tableRows, line) \in Seq(Lines)
        /\ Len(Append(tableRows, line)) = Len(tableRows) + 1
        /\ DOMAIN tableRows = 1..Len(tableRows)
        /\ DOMAIN Append(tableRows, line) = 1..(Len(tableRows) + 1)
        /\ Append(tableRows, line)[Len(tableRows) + 1] = line
        /\ \A k \in 1..Len(tableRows) : Append(tableRows, line)[k] = tableRows[k]
    BY <1>2, <2>1, OneMore
  <2> QED
    BY <1>3, <1>4, <2>2
<1>6. /\ wanted' \in Seq([Column -> Cells]) /\ Len(wanted') = n + 1 /\ wanted'[n + 1] = values
      /\ \A r \in 1..n : wanted'[r] = wanted[r]
  <2>1. wanted \in Seq([Column -> Cells])
    BY DEF TbInv, TbTyped
  <2>2. /\ Append(wanted, values) \in Seq([Column -> Cells])
        /\ Len(Append(wanted, values)) = Len(wanted) + 1
        /\ Append(wanted, values)[Len(wanted) + 1] = values
        /\ \A k \in 1..Len(wanted) : Append(wanted, values)[k] = wanted[k]
    BY <1>2, <2>1, OneMore
  <2> QED
    BY <1>3, <1>4, <2>2
<1>7. TbTyped'
  BY <1>3, <1>5, <1>6 DEF TbInv, TbTyped
<1>8. Tables!CellsKept'
  <2> SUFFICES ASSUME NEW r \in 1..(n + 1), tableRows'[r].there, r \notin torn
               PROVE  tableRows'[r].values = wanted'[r]
    BY <1>3, <1>5 DEF Tables!CellsKept, Tables!Stands
  <2>1. CASE r = n + 1
    BY <1>2, <1>5, <1>6, <2>1
  <2>2. CASE r # n + 1
    <3>1. r \in 1..n
      BY <1>4, <2>2
    <3>2. tableRows[r].values = wanted[r]
      BY <1>5, <3>1 DEF TbInv, Tables!CellsKept, Tables!Stands
    <3> QED
      BY <1>5, <1>6, <3>1, <3>2
  <2> QED
    BY <2>1, <2>2
<1>9. TbListed'
  BY <1>3 DEF TbListed
<1> QED
  BY <1>7, <1>8, <1>9 DEF TbInv

LEMMA WriteRowKeeps == ASSUME TbInv, NEW e \in Editor, Tables!WriteRow(e) PROVE TbInv'
<1>1. PICK r, patch, read :
          r = edits[e].row /\ patch = edits[e].patch /\ read = edits[e].read
  OBVIOUS
<1>2. patch \in [Column -> Cells] /\ read \in [Column -> Cells]
  BY <1>1 DEF TbInv, TbTyped, Drafts
<1>3. edits' \in [Editor -> Drafts]
  <2>1. Tables!Resting \in Drafts
    BY TableSizes DEF Tables!Resting, Drafts
  <2>2. edits' = [edits EXCEPT ![e] = Tables!Resting]
    BY DEF Tables!WriteRow
  <2> QED
    BY <2>1, <2>2 DEF TbInv, TbTyped
<1>4. UNCHANGED <<view, asked, shown>> /\ shown = Tables!Unshown
  BY DEF Tables!WriteRow
<1>5. TbListed'
  BY <1>4 DEF TbListed
<1>6. CASE UNCHANGED <<tableRows, wanted, torn>>
  <2>1. TbTyped' /\ Tables!CellsKept'
    BY <1>3, <1>4, <1>6 DEF TbInv, TbTyped, Tables!CellsKept, Tables!Stands
  <2> QED
    BY <1>5, <2>1 DEF TbInv
<1>7. CASE ~ UNCHANGED <<tableRows, wanted, torn>>
  <2>1. PICK put, want :
            /\ put = Tables!Merged(read, patch)
            /\ want = [c \in Column |-> IF patch[c] # "none" THEN patch[c] ELSE wanted[r][c]]
    OBVIOUS
  <2>2. /\ r \in Tables!Stands
        /\ tableRows' = [tableRows EXCEPT ![r].values = put]
        /\ wanted' = [wanted EXCEPT ![r] = want]
        /\ torn' = IF tableRows[r].values = read THEN torn ELSE torn \cup {r}
    BY <1>1, <1>7, <2>1 DEF Tables!WriteRow
  <2>3. /\ r \in DOMAIN tableRows /\ r \in DOMAIN wanted /\ tableRows[r] \in Lines
        /\ wanted[r] \in [Column -> Cells] /\ DOMAIN wanted = DOMAIN tableRows
    BY <2>2 DEF TbInv, TbTyped, Tables!Stands
  <2>4. put \in [Column -> Cells] /\ want \in [Column -> Cells]
    BY <1>2, <2>1, <2>3 DEF Tables!Merged
  <2>5. PICK line : line = [tableRows[r] EXCEPT !.values = put]
    OBVIOUS
  <2>6. line \in Lines /\ line.values = put /\ tableRows' = [tableRows EXCEPT ![r] = line]
    BY <2>2, <2>3, <2>4, <2>5 DEF Lines
  <2>7. /\ tableRows' \in Seq(Lines) /\ Len(tableRows') = Len(tableRows)
        /\ DOMAIN tableRows' = DOMAIN tableRows /\ tableRows'[r] = line
        /\ \A x \in DOMAIN tableRows : x # r => tableRows'[x] = tableRows[x]
    BY <2>3, <2>6 DEF TbInv, TbTyped
  <2>8. /\ wanted' \in Seq([Column -> Cells]) /\ Len(wanted') = Len(wanted)
        /\ wanted'[r] = want /\ \A x \in DOMAIN wanted : x # r => wanted'[x] = wanted[x]
    BY <2>2, <2>3, <2>4 DEF TbInv, TbTyped
  <2>9. TbTyped'
    BY <1>3, <1>4, <2>7, <2>8 DEF TbInv, TbTyped
  <2>10. Tables!CellsKept'
    <3> SUFFICES ASSUME NEW x \in DOMAIN tableRows, tableRows'[x].there, x \notin torn'
                 PROVE  tableRows'[x].values = wanted'[x]
      BY <2>7 DEF Tables!CellsKept, Tables!Stands
    <3>1. x \notin torn
      BY <2>2
    <3>2. CASE x # r
      <4>1. tableRows[x].values = wanted[x]
        BY <2>7, <3>1, <3>2 DEF TbInv, Tables!CellsKept, Tables!Stands
      <4> QED
        BY <2>3, <2>7, <2>8, <3>2, <4>1
    <3>3. CASE x = r
      <4>1. tableRows[r].values = read
        BY <2>2, <3>3
      <4>2. wanted[r] = read
        BY <2>2, <3>1, <3>3, <4>1 DEF TbInv, Tables!CellsKept
      <4>3. put = want
        BY <2>1, <4>2 DEF Tables!Merged
      <4> QED
        BY <2>6, <2>7, <2>8, <3>3, <4>3
    <3> QED
      BY <3>2, <3>3
  <2> QED
    BY <1>5, <2>9, <2>10 DEF TbInv
<1> QED
  BY <1>6, <1>7

LEMMA DeleteRowKeeps == ASSUME TbInv, NEW r, Tables!DeleteRow(r) PROVE TbInv'
<1>1. PICK blank : blank = Tables!Blank /\ blank \in [Column -> Cells]
  BY TableSizes
<1>2. /\ r \in Tables!Stands /\ shown = Tables!Unshown /\ UNCHANGED <<view, edits, asked, shown, torn>>
      /\ tableRows' = [tableRows EXCEPT ![r].there = FALSE, ![r].values = blank]
      /\ wanted' = [wanted EXCEPT ![r] = blank]
  BY <1>1 DEF Tables!DeleteRow, Tables!Op
<1>3. /\ r \in DOMAIN tableRows /\ r \in DOMAIN wanted /\ tableRows[r] \in Lines
      /\ DOMAIN wanted = DOMAIN tableRows
  BY <1>2 DEF TbInv, TbTyped, Tables!Stands
<1>4. PICK line : line = [tableRows[r] EXCEPT !.there = FALSE, !.values = blank]
  OBVIOUS
<1>5. line \in Lines /\ line.there = FALSE /\ tableRows' = [tableRows EXCEPT ![r] = line]
  BY <1>1, <1>2, <1>3, <1>4 DEF Lines
<1>6. /\ tableRows' \in Seq(Lines) /\ Len(tableRows') = Len(tableRows)
      /\ DOMAIN tableRows' = DOMAIN tableRows /\ tableRows'[r] = line
      /\ \A x \in DOMAIN tableRows : x # r => tableRows'[x] = tableRows[x]
  BY <1>3, <1>5 DEF TbInv, TbTyped
<1>7. /\ wanted' \in Seq([Column -> Cells]) /\ Len(wanted') = Len(wanted)
      /\ \A x \in DOMAIN wanted : x # r => wanted'[x] = wanted[x]
  BY <1>1, <1>2, <1>3 DEF TbInv, TbTyped
<1>8. TbTyped'
  BY <1>2, <1>6, <1>7 DEF TbInv, TbTyped
<1>9. Tables!CellsKept'
  <2> SUFFICES ASSUME NEW x \in DOMAIN tableRows, tableRows'[x].there, x \notin torn
               PROVE  tableRows'[x].values = wanted'[x]
    BY <1>2, <1>6 DEF Tables!CellsKept, Tables!Stands
  <2>1. x # r
    BY <1>5, <1>6
  <2>2. tableRows[x].values = wanted[x]
    BY <1>6, <2>1 DEF TbInv, Tables!CellsKept, Tables!Stands
  <2> QED
    BY <1>3, <1>6, <1>7, <2>1, <2>2
<1>10. TbListed'
  BY <1>2 DEF TbListed
<1> QED
  BY <1>8, <1>9, <1>10 DEF TbInv

LEMMA PageDeletedKeeps == ASSUME TbInv, Tables!PageDeleted PROVE TbInv'
<1>1. PICK blank : blank = Tables!Blank /\ blank \in [Column -> Cells]
  BY TableSizes
<1>2. /\ shown = Tables!Unshown /\ UNCHANGED <<edits, asked, shown, torn>> /\ view' = Tables!NoView
      /\ tableRows' = [r \in DOMAIN tableRows |->
                          [tableRows[r] EXCEPT !.there = FALSE, !.values = blank]]
      /\ wanted' = [r \in DOMAIN wanted |-> blank]
  BY <1>1 DEF Tables!PageDeleted, Tables!Op
<1>3. PICK n : /\ n \in Nat /\ DOMAIN tableRows = 1..n /\ DOMAIN wanted = 1..n
               /\ \A r \in 1..n : tableRows[r] \in Lines
  BY DEF TbInv, TbTyped
<1>4. \A r \in 1..n : tableRows'[r] \in Lines /\ ~ tableRows'[r].there
  BY <1>1, <1>2, <1>3 DEF Lines
<1>5. tableRows' \in Seq(Lines) /\ Len(tableRows') = n /\ DOMAIN tableRows' = 1..n
  <2>1. tableRows' \in [1..n -> Lines]
    BY <1>2, <1>3, <1>4
  <2> QED
    BY <1>3, <2>1
<1>6. wanted' \in Seq([Column -> Cells]) /\ Len(wanted') = n
  <2>1. wanted' \in [1..n -> [Column -> Cells]]
    BY <1>1, <1>2, <1>3
  <2> QED
    BY <1>3, <2>1
<1>7. view' \in Views
  BY <1>2 DEF Tables!NoView, Views
<1>8. TbTyped'
  BY <1>2, <1>5, <1>6, <1>7 DEF TbInv, TbTyped
<1>9. Tables!CellsKept' /\ TbListed'
  BY <1>2, <1>4, <1>5 DEF Tables!CellsKept, Tables!Stands, TbListed
<1> QED
  BY <1>8, <1>9 DEF TbInv

LEMMA TableQuiet ==
    ASSUME TbInv, UNCHANGED <<tableRows, wanted, torn, shown>>, shown = Tables!Unshown, TbTyped'
    PROVE  TbInv'
BY DEF TbInv, Tables!CellsKept, Tables!Stands, TbListed

LEMMA TbStart == Tables!TablesInit => TbInv
<1> SUFFICES ASSUME Tables!TablesInit PROVE TbInv
  OBVIOUS
<1>1. Tables!Resting \in Drafts /\ Tables!NoView \in Views
  BY TableSizes DEF Tables!Resting, Drafts, Tables!NoView, Views
<1>2. /\ tableRows = <<>> /\ wanted = <<>> /\ view = Tables!NoView /\ asked = <<>>
      /\ edits = [e \in Editor |-> Tables!Resting] /\ shown = Tables!Unshown
  BY DEF Tables!TablesInit, Tables!Unasked
<1>3. TbTyped
  BY <1>1, <1>2 DEF TbTyped
<1>4. DOMAIN tableRows = {}
  BY <1>2
<1> QED
  BY <1>2, <1>3, <1>4 DEF TbInv, Tables!CellsKept, Tables!Stands, TbListed

LEMMA TbStep == TbInv /\ (Tables!TablesNext \/ UNCHANGED tbVars) => TbInv'
<1> SUFFICES ASSUME TbInv, Tables!TablesNext \/ UNCHANGED tbVars PROVE TbInv'
  OBVIOUS
<1>1. CASE UNCHANGED tbVars
  <2>1. UNCHANGED <<tableRows, view, edits, asked, shown, wanted, torn>>
    BY <1>1 DEF tbVars
  <2>2. TbTyped' /\ Tables!CellsKept'
    BY <2>1 DEF TbInv, TbTyped, Tables!CellsKept, Tables!Stands
  <2>3. CASE shown = Tables!Unshown
    BY <2>1, <2>2, <2>3, TableQuiet DEF TbInv
  <2>4. CASE shown # Tables!Unshown
    <3>1. PICK v : v = asked[1]
      OBVIOUS
    <3>2. v = asked[1]'
      BY <2>1, <3>1
    <3>3. Tables!Stands' = Tables!Stands
      BY <2>1 DEF Tables!Stands
    <3>5. Tables!Kept(Tables!Stands, v.filters)' = Tables!Kept(Tables!Stands, v.filters)
      BY <2>1, <3>3 DEF Tables!Kept
    <3>6. \A r, x : Tables!Precedes(v, r, x)' <=> Tables!Precedes(v, r, x)
      BY <2>1 DEF Tables!Precedes, Tables!StoredBefore
    <3>7. Tables!ListedInOrder
      BY <2>4 DEF TbInv, TbListed
    <3>8. Tables!ListedInOrder'
      BY <2>1, <2>4, <3>1, <3>2, <3>5, <3>6, <3>7 DEF Tables!ListedInOrder
    <3> QED
      BY <2>1, <2>2, <2>4, <3>8 DEF TbInv, TbListed
  <2> QED
    BY <2>3, <2>4
<1>2. ASSUME NEW e \in Editor, NEW r \in Tables!Row, NEW patch \in Written, Tables!ReadRow(e, r, patch)
      PROVE  TbInv'
  <2>1. /\ shown = Tables!Unshown /\ UNCHANGED <<tableRows, view, asked, shown, wanted, torn>>
        /\ edits' = [edits EXCEPT ![e] = [row |-> r, patch |-> patch, read |-> tableRows[r].values]]
        /\ r \in Tables!Stands
    BY <1>2 DEF Tables!ReadRow, Tables!Op
  <2>2. tableRows[r] \in Lines /\ r \in Nat
    BY <2>1 DEF TbInv, TbTyped, Tables!Stands
  <2>3. [row |-> r, patch |-> patch, read |-> tableRows[r].values] \in Drafts
    BY <2>2, TableSizes DEF Drafts, Lines
  <2>4. TbTyped'
    BY <2>1, <2>3 DEF TbInv, TbTyped
  <2> QED
    BY <2>1, <2>4, TableQuiet
<1>3. ASSUME NEW cols, Tables!UpdateSchema(cols) PROVE TbInv'
  <2>1. shown = Tables!Unshown /\ UNCHANGED <<tableRows, view, edits, asked, shown, wanted, torn>>
    BY <1>3 DEF Tables!UpdateSchema, Tables!Op
  <2> QED
    BY <2>1, TableQuiet DEF TbInv, TbTyped
<1>4. ASSUME NEW v \in Tables!SomeView
      PROVE  v.filters \in SUBSET Filter /\ v.sortBy \in Column \cup {"none"} /\ v.dir \in {"asc", "desc"}
  BY TableSizes DEF Tables!SomeView
<1>5. ASSUME NEW v \in Tables!SomeView, Tables!CreateView(v.filters, v.sortBy, v.dir) PROVE TbInv'
  <2>1. /\ shown = Tables!Unshown /\ UNCHANGED <<tableRows, edits, asked, shown, wanted, torn>>
        /\ view' = [there |-> TRUE, filters |-> v.filters, sortBy |-> v.sortBy, dir |-> v.dir]
    BY <1>5 DEF Tables!CreateView, Tables!Op
  <2>2. view' \in Views
    BY <1>4, <2>1 DEF Views
  <2> QED
    BY <2>1, <2>2, TableQuiet DEF TbInv, TbTyped
<1>6. ASSUME NEW v \in Tables!SomeView, NEW fs \in SUBSET {"filters", "sortBy", "dir"},
             Tables!UpdateView(fs, v)
      PROVE  TbInv'
  <2>1. /\ shown = Tables!Unshown /\ UNCHANGED <<tableRows, edits, asked, shown, wanted, torn>>
        /\ view' = [f \in DOMAIN view |-> IF f \in fs THEN v[f] ELSE view[f]]
    BY <1>6 DEF Tables!UpdateView, Tables!Op
  <2>2. view' \in Views
    <3>1. view \in Views /\ DOMAIN view = {"there", "filters", "sortBy", "dir"}
      BY DEF TbInv, TbTyped, Views
    <3>2. view' = [there |-> view'.there, filters |-> view'.filters,
                   sortBy |-> view'.sortBy, dir |-> view'.dir]
      BY <2>1, <3>1
    <3>3. view'.there = view.there
      BY <2>1, <3>1
    <3>4. /\ view'.filters = IF "filters" \in fs THEN v.filters ELSE view.filters
          /\ view'.sortBy = IF "sortBy" \in fs THEN v.sortBy ELSE view.sortBy
          /\ view'.dir = IF "dir" \in fs THEN v.dir ELSE view.dir
      BY <2>1, <3>1
    <3> QED
      BY <1>4, <3>1, <3>2, <3>3, <3>4 DEF Views
  <2> QED
    BY <2>1, <2>2, TableQuiet DEF TbInv, TbTyped
<1>7. CASE Tables!ResolveView
  <2>1. PICK v \in {view, Tables!NoView} : asked' = <<v>>
    BY <1>7 DEF Tables!ResolveView
  <2>2. asked = <<>> /\ UNCHANGED <<tableRows, view, edits, shown, wanted, torn>>
    BY <1>7 DEF Tables!ResolveView, Tables!Unasked
  <2>3. v \in Views
    <3>1. view \in Views /\ Tables!NoView \in Views
      BY DEF TbInv, TbTyped, Tables!NoView, Views
    <3> QED
      BY <3>1
  <2>4. TbTyped'
    BY <2>1, <2>2, <2>3 DEF TbInv, TbTyped
  <2>5. shown = Tables!Unshown
    BY <2>2 DEF TbInv, TbListed
  <2> QED
    BY <2>2, <2>4, <2>5, TableQuiet
<1> QED
  BY <1>1, <1>2, <1>3, <1>5, <1>6, <1>7, CreateRowKeeps, WriteRowKeeps, DeleteRowKeeps,
     PageDeletedKeeps, ListRowsKeeps DEF Tables!TablesNext

(* No request loses a cell that another one wrote, unless they overlapped on the row, and *)
(* a listing is the rows that meet the view's filters, once each and in its order, for     *)
(* any number of rows, columns and requests (database/store.go UpdateRow, ListRows,        *)
(* sortRows).                                                                            *)
THEOREM TablesStand == DocumentsSpec => []TablesKept
<1>1. DocumentsInit => TbInv
  BY TbStart DEF DocumentsInit, DocumentsStart
<1>2. TbInv /\ [DocumentsNext]_docVars => TbInv'
  BY PartSteps, TbStep
<1>3. TbInv => TablesKept
  BY DEF TbInv, TbListed, TablesKept, Tables!TablesKept, Tables!ListedInOrder
<1> QED
  BY <1>1, <1>2, <1>3, PTL DEF DocumentsSpec

-----------------------------------------------------------------------------
(* The recursive queries, over any table of pages: L its rows, P their links. *)

Size == Cardinality(Page)

Grow(L, P, S) == S \cup {c \in L : P[c] \in S}

Iterate(L, P, R) ==
    LET below[n \in 0..Size] ==
            IF n = 0 THEN R \cap L ELSE Grow(L, P, below[n - 1])
    IN  below

Kin(L, P, R) == Iterate(L, P, R)[Size]

Far(L, P, R, p) == Min({n \in 0..Size : p \in Iterate(L, P, R)[n]})

Shut(L, P, S) == \A c \in L : P[c] \in S => c \in S

LEMMA SizeIs == TreeSizes => Size \in Nat /\ IsFiniteSet(Page) /\ NoPage \notin Page
BY FS_CardinalityType DEF TreeSizes, Size

LEMMA Queries ==
    /\ \A R : Subtree(R) = Kin(live, parent, R) /\ Subtree(R)' = Kin(live', parent', R)
    /\ \A R, p : Rel(R, p) = Far(live, parent, R, p) /\ Rel(R, p)' = Far(live', parent', R, p)
<1>1. \A R : Below(R) = Iterate(live, parent, R)
  BY DEF Below, Iterate, Expanded, Grow, Size
<1>2. \A R : Below(R)' = Iterate(live', parent', R)
  BY DEF Below, Iterate, Expanded, Grow, Size
<1> QED
  BY <1>1, <1>2 DEF Subtree, Rel, Kin, Far, Size

LEMMA IterateIs ==
    ASSUME TreeSizes, NEW L, NEW P, NEW R
    PROVE  Iterate(L, P, R) = [n \in 0..Size |-> IF n = 0 THEN R \cap L
                                                ELSE Grow(L, P, Iterate(L, P, R)[n - 1])]
<1> DEFINE Is(f, m) == f = [n \in 0..m |-> IF n = 0 THEN R \cap L ELSE Grow(L, P, f[n - 1])]
           Done == {m \in Nat : \E f : Is(f, m)}
<1>1. Size \in Nat
  BY SizeIs
<1>2. 0 \in Done
  <2>1. Is([n \in 0..0 |-> R \cap L], 0)
    OBVIOUS
  <2> QED
    BY <2>1
<1>3. ASSUME NEW m \in 0..Size, m \in Done PROVE m + 1 \in Done
  <2>1. PICK f : Is(f, m)
    BY <1>3
  <2> DEFINE g == [n \in 0..m + 1 |-> IF n = m + 1 THEN Grow(L, P, f[m]) ELSE f[n]]
  <2>2. ASSUME NEW n \in 0..m + 1
        PROVE  g[n] = IF n = 0 THEN R \cap L ELSE Grow(L, P, g[n - 1])
    <3>1. CASE n = m + 1
      <4>1. n - 1 = m /\ g[m] = f[m] /\ n # 0
        BY <3>1, <1>1
      <4> QED
        BY <3>1, <4>1
    <3>2. CASE n # m + 1
      <4>1. n \in 0..m /\ g[n] = f[n] /\ (n # 0 => n - 1 \in 0..m + 1 /\ n - 1 # m + 1)
        BY <3>2, <1>1
      <4>2. n # 0 => g[n - 1] = f[n - 1]
        BY <4>1
      <4>3. f[n] = IF n = 0 THEN R \cap L ELSE Grow(L, P, f[n - 1])
        BY <2>1, <4>1
      <4> QED
        BY <4>1, <4>2, <4>3
    <3> QED
      BY <3>1, <3>2
  <2>3. g = [n \in 0..m + 1 |-> g[n]]
    OBVIOUS
  <2> HIDE DEF g
  <2>4. Is(g, m + 1)
    BY <2>2, <2>3
  <2>5. m + 1 \in Nat
    BY <1>1
  <2> QED
    BY <2>4, <2>5
<1> HIDE DEF Is
<1>4. 0..Size \subseteq Done
  <2> HIDE DEF Done
  <2> QED
    BY <1>1, <1>2, <1>3, Climb
<1>5. Size \in 0..Size
  BY <1>1
<1>6. \E f : Is(f, Size)
  BY <1>4, <1>5
<1> QED
  BY <1>6 DEF Is, Iterate

LEMMA IterateSteps ==
    ASSUME TreeSizes, NEW L, NEW P, NEW R
    PROVE  /\ Iterate(L, P, R)[0] = R \cap L
           /\ \A n \in 0..Size : n < Size =>
                 Iterate(L, P, R)[n + 1] = Grow(L, P, Iterate(L, P, R)[n])
<1>1. Size \in Nat
  BY SizeIs
<1> DEFINE it == Iterate(L, P, R)
<1>2. it = [n \in 0..Size |-> IF n = 0 THEN R \cap L ELSE Grow(L, P, it[n - 1])]
  BY IterateIs
<1> HIDE DEF it
<1>3. it[0] = R \cap L
  BY <1>1, <1>2
<1>4. ASSUME NEW n \in 0..Size, n < Size PROVE it[n + 1] = Grow(L, P, it[n])
  <2>1. n + 1 \in 0..Size /\ n + 1 # 0 /\ n + 1 - 1 = n
    BY <1>1, <1>4
  <2>2. \A k \in 0..Size : it[k] = IF k = 0 THEN R \cap L ELSE Grow(L, P, it[k - 1])
    BY <1>2, Zenon
  <2>3. it[n + 1] = Grow(L, P, it[n + 1 - 1])
    BY <2>1, <2>2
  <2> QED
    BY <2>1, <2>3
<1> QED
  BY <1>3, <1>4 DEF it

(* Each round is in the next, all are pages of the table. *)
LEMMA IterateGrows ==
    ASSUME TreeSizes, NEW L, NEW P, NEW R
    PROVE  \A n \in 0..Size : /\ Iterate(L, P, R)[n] \subseteq L
                              /\ R \cap L \subseteq Iterate(L, P, R)[n]
                              /\ Iterate(L, P, R)[n] \subseteq Kin(L, P, R)
<1> DEFINE it == Iterate(L, P, R)
           In == {n \in 0..Size : it[n] \subseteq L /\ R \cap L \subseteq it[n]}
           Up == {n \in 0..Size : it[Size - n] \subseteq it[Size]}
<1>1. Size \in Nat
  BY SizeIs
<1>2. it[0] = R \cap L /\ \A n \in 0..Size : n < Size => it[n + 1] = Grow(L, P, it[n])
  BY IterateSteps
<1>3. Kin(L, P, R) = it[Size]
  BY DEF Kin
<1> HIDE DEF it
<1>4. 0 \in In
  BY <1>1, <1>2
<1>5. ASSUME NEW n \in 0..Size, n \in In, n < Size PROVE n + 1 \in In
  <2>1. it[n + 1] = Grow(L, P, it[n]) /\ n + 1 \in 0..Size
    BY <1>1, <1>2, <1>5
  <2> QED
    BY <1>5, <2>1 DEF Grow
<1>6. 0..Size \subseteq In
  <2> HIDE DEF In
  <2> QED
    BY <1>1, <1>4, <1>5, Climb
<1>7. 0 \in Up
  BY <1>1
<1>8. ASSUME NEW n \in 0..Size, n \in Up, n < Size PROVE n + 1 \in Up
  <2>1. /\ Size - (n + 1) \in 0..Size /\ Size - (n + 1) < Size
        /\ Size - (n + 1) + 1 = Size - n /\ n + 1 \in 0..Size
    BY <1>1, <1>8
  <2>2. it[Size - n] = Grow(L, P, it[Size - (n + 1)])
    BY <1>2, <2>1
  <2> QED
    BY <1>8, <2>1, <2>2 DEF Grow
<1>9. 0..Size \subseteq Up
  <2> HIDE DEF Up
  <2> QED
    BY <1>1, <1>7, <1>8, Climb
<1>10. ASSUME NEW n \in 0..Size PROVE it[n] \subseteq it[Size]
  <2>1. Size - n \in 0..Size /\ Size - (Size - n) = n
    BY <1>1
  <2> QED
    BY <1>9, <2>1
<1> QED
  BY <1>3, <1>6, <1>10 DEF it

(* Kin is the least set that holds the roots and what is linked to it. *)
LEMMA KinLeast ==
    ASSUME TreeSizes, NEW L, NEW P, NEW R, NEW S, R \cap L \subseteq S, Shut(L, P, S)
    PROVE  Kin(L, P, R) \subseteq S
<1> DEFINE it == Iterate(L, P, R)
           In == {n \in 0..Size : it[n] \subseteq S}
<1>1. Size \in Nat
  BY SizeIs
<1>2. it[0] = R \cap L /\ \A n \in 0..Size : n < Size => it[n + 1] = Grow(L, P, it[n])
  BY IterateSteps
<1>3. Kin(L, P, R) = it[Size]
  BY DEF Kin
<1> HIDE DEF it
<1>4. 0 \in In
  BY <1>1, <1>2
<1>5. ASSUME NEW n \in 0..Size, n \in In, n < Size PROVE n + 1 \in In
  <2>1. it[n + 1] = Grow(L, P, it[n]) /\ n + 1 \in 0..Size
    BY <1>1, <1>2, <1>5
  <2> QED
    BY <1>5, <2>1 DEF Grow, Shut
<1>6. 0..Size \subseteq In
  <2> HIDE DEF In
  <2> QED
    BY <1>1, <1>4, <1>5, Climb
<1>7. Size \in 0..Size
  BY <1>1
<1> QED
  BY <1>3, <1>6, <1>7

(* No walk is longer than there are pages: each round adds one or is the last. *)
LEMMA KinShut ==
    ASSUME TreeSizes, NEW L \in SUBSET Page, NEW P, NEW R
    PROVE  /\ Kin(L, P, R) \subseteq L
           /\ R \cap L \subseteq Kin(L, P, R)
           /\ Shut(L, P, Kin(L, P, R))
<1> DEFINE it == Iterate(L, P, R)
           In == {n \in 0..Size : Shut(L, P, it[n]) \/ Cardinality(it[n]) >= n}
<1>1. Size \in Nat /\ IsFiniteSet(Page)
  BY SizeIs
<1>2. it[0] = R \cap L /\ \A n \in 0..Size : n < Size => it[n + 1] = Grow(L, P, it[n])
  BY IterateSteps
<1>3. Kin(L, P, R) = it[Size]
  BY DEF Kin
<1>4. \A n \in 0..Size : it[n] \subseteq L /\ R \cap L \subseteq it[n]
  BY IterateGrows
<1> HIDE DEF it
<1>5. \A n \in 0..Size : IsFiniteSet(it[n]) /\ Cardinality(it[n]) \in Nat
  BY <1>1, <1>4, FS_Subset, FS_CardinalityType
<1>6. 0 \in In
  BY <1>1, <1>5
<1>7. ASSUME NEW n \in 0..Size, n \in In, n < Size PROVE n + 1 \in In
  <2>1. it[n + 1] = Grow(L, P, it[n]) /\ n + 1 \in 0..Size
    BY <1>1, <1>2, <1>7
  <2>2. CASE Shut(L, P, it[n])
    <3>1. it[n + 1] = it[n]
      BY <2>1, <2>2 DEF Grow, Shut
    <3> QED
      BY <2>1, <2>2, <3>1
  <2>3. CASE ~ Shut(L, P, it[n])
    <3>1. PICK c \in L : P[c] \in it[n] /\ c \notin it[n]
      BY <2>3 DEF Shut
    <3>2. it[n] \cup {c} \subseteq it[n + 1]
      BY <2>1, <3>1 DEF Grow
    <3>3. IsFiniteSet(it[n] \cup {c}) /\ Cardinality(it[n] \cup {c}) = Cardinality(it[n]) + 1
      <4>1. IsFiniteSet(it[n])
        BY <1>5
      <4> QED
        BY <3>1, <4>1, FS_AddElement
    <3>4. Cardinality(it[n] \cup {c}) <= Cardinality(it[n + 1])
      BY <1>5, <2>1, <3>2, FS_Subset
    <3>5. Cardinality(it[n]) >= n
      BY <1>7, <2>3
    <3> QED
      BY <1>5, <2>1, <3>3, <3>4, <3>5
  <2> QED
    BY <2>2, <2>3
<1>8. 0..Size \subseteq In
  <2> HIDE DEF In
  <2> QED
    BY <1>1, <1>6, <1>7, Climb
<1>9. Size \in 0..Size
  BY <1>1
<1>10. CASE Cardinality(it[Size]) >= Size
  <2>1. it[Size] \subseteq Page
    BY <1>4, <1>9
  <2>2. Cardinality(it[Size]) <= Cardinality(Page) /\ (Cardinality(it[Size]) = Cardinality(Page)
                                                        => it[Size] = Page)
    BY <1>1, <2>1, FS_Subset
  <2>3. it[Size] = Page
    BY <1>1, <1>5, <1>9, <1>10, <2>2 DEF Size
  <2>4. Shut(L, P, it[Size])
    BY <2>3 DEF Shut
  <2> QED
    BY <1>3, <1>4, <1>9, <2>4
<1>11. CASE Shut(L, P, it[Size])
  BY <1>3, <1>4, <1>9, <1>11
<1> QED
  BY <1>8, <1>9, <1>10, <1>11

(* How far: a root is at 0, another page one further than the page it is linked to. *)
LEMMA FarIs ==
    ASSUME TreeSizes, NEW L \in SUBSET Page, NEW P, NEW R, NEW p \in Kin(L, P, R)
    PROVE  /\ Far(L, P, R, p) \in 0..Size
           /\ p \in R => Far(L, P, R, p) = 0
           /\ p \notin R => /\ P[p] \in Kin(L, P, R)
                            /\ Far(L, P, R, p) = Far(L, P, R, P[p]) + 1
<1> DEFINE it == Iterate(L, P, R)
           At(q) == {n \in 0..Size : q \in it[n]}
<1>1. Size \in Nat
  BY SizeIs
<1>2. it[0] = R \cap L /\ \A n \in 0..Size : n < Size => it[n + 1] = Grow(L, P, it[n])
  BY IterateSteps
<1>3. Kin(L, P, R) = it[Size]
  BY DEF Kin
<1>4. \A n \in 0..Size : it[n] \subseteq L /\ it[n] \subseteq it[Size]
  BY <1>3, IterateGrows
<1>5. \A q : Far(L, P, R, q) = Min(At(q))
  BY DEF Far
<1> HIDE DEF it
<1>6. ASSUME NEW q \in it[Size]
      PROVE  Min(At(q)) \in At(q) /\ \A n \in At(q) : Min(At(q)) <= n
  <2>1. Size \in At(q)
    BY <1>1
  <2>2. At(q) \in SUBSET Nat /\ At(q) # {}
    BY <2>1
  <2> HIDE DEF At
  <2>3. \E n \in At(q) : \A m \in At(q) : n <= m
    BY <2>2, LeastOne
  <2> QED
    BY <2>3 DEF Min
<1>7. Far(L, P, R, p) \in 0..Size /\ p \in it[Far(L, P, R, p)]
      /\ \A n \in 0..Size : p \in it[n] => Far(L, P, R, p) <= n
  BY <1>3, <1>5, <1>6
<1>8. ASSUME p \in R PROVE Far(L, P, R, p) = 0
  <2>1. p \in it[0]
    BY <1>1, <1>2, <1>3, <1>4, <1>8
  <2> QED
    BY <1>1, <1>7, <2>1
<1>9. ASSUME p \notin R
      PROVE  P[p] \in Kin(L, P, R) /\ Far(L, P, R, p) = Far(L, P, R, P[p]) + 1
  <2> DEFINE n == Far(L, P, R, p) - 1
  <2>1. Far(L, P, R, p) # 0
    BY <1>2, <1>7, <1>9
  <2>2. n \in 0..Size /\ n < Size /\ n + 1 = Far(L, P, R, p)
    BY <1>1, <1>7, <2>1
  <2> HIDE DEF n
  <2>3. p \in Grow(L, P, it[n]) /\ p \notin it[n]
    <3>1. ~ (n + 1 <= n)
      BY <2>2
    <3> QED
      BY <1>2, <1>7, <2>2, <3>1
  <2>4. P[p] \in it[n]
    BY <2>3 DEF Grow
  <2>5. P[p] \in it[Size]
    BY <1>4, <2>2, <2>4
  <2>6. /\ Far(L, P, R, P[p]) \in 0..Size /\ P[p] \in it[Far(L, P, R, P[p])]
        /\ \A m \in 0..Size : P[p] \in it[m] => Far(L, P, R, P[p]) <= m
    BY <1>5, <1>6, <2>5
  <2> DEFINE m == Far(L, P, R, P[p])
  <2>7. m \in 0..Size /\ m <= n /\ m < Size
    <3>1. m \in 0..Size /\ m <= n
      BY <2>2, <2>4, <2>6
    <3> HIDE DEF m
    <3> QED
      BY <1>1, <2>2, <3>1
  <2>8. p \in L
    BY <1>1, <1>3, <1>4
  <2>9. p \in it[m + 1] /\ m + 1 \in 0..Size
    BY <1>1, <1>2, <2>6, <2>7, <2>8 DEF Grow
  <2>10. n + 1 <= m + 1
    BY <1>7, <2>2, <2>9
  <2> QED
    BY <1>3, <2>2, <2>5, <2>7, <2>10
<1> QED
  BY <1>7, <1>8, <1>9

-----------------------------------------------------------------------------
(* Trees.                                                                   *)

Wood(L, P) == L \subseteq Page /\ P \in [Page -> L \cup {NoPage}]

Tops(L, P) == {q \in L : P[q] = NoPage}

Grounded(L, P) == L \subseteq Kin(L, P, Tops(L, P))

(* A tree is all in every set that holds its tops and what is linked to it. *)
LEMMA FromTops ==
    ASSUME TreeSizes, NEW L, NEW P, Grounded(L, P), NEW S, Tops(L, P) \subseteq S, Shut(L, P, S)
    PROVE  L \subseteq S
<1>1. Kin(L, P, Tops(L, P)) \subseteq S
  BY KinLeast DEF Tops
<1> QED
  BY <1>1 DEF Grounded

LEMMA IsTree ==
    ASSUME TreeSizes, NEW L \in SUBSET Page, NEW P,
           \A S \in SUBSET L : Tops(L, P) \subseteq S /\ Shut(L, P, S) => L \subseteq S
    PROVE  Grounded(L, P)
<1>1. /\ Kin(L, P, Tops(L, P)) \in SUBSET L /\ Tops(L, P) \subseteq Kin(L, P, Tops(L, P))
      /\ Shut(L, P, Kin(L, P, Tops(L, P)))
  BY KinShut DEF Tops
<1> QED
  BY <1>1 DEF Grounded

(* No page of a tree is beneath itself. *)
LEMMA NoRing ==
    ASSUME TreeSizes, NEW L \in SUBSET Page, NEW P, Grounded(L, P), NEW p \in L
    PROVE  P[p] \notin Kin(L, P, {p})
<1> SUFFICES ASSUME P[p] \in Kin(L, P, {p}) PROVE FALSE
  OBVIOUS
<1> DEFINE K == Kin(L, P, {p})
<1>1. K \subseteq L /\ p \in K /\ Shut(L, P, K) /\ NoPage \notin L
  BY KinShut, SizeIs
<1>2. \A c \in K : c # p => P[c] \in K
  BY FarIs
<1> HIDE DEF K
<1>3. \A c \in K : P[c] \in K
  BY <1>2 DEF K
<1>4. Tops(L, P) \subseteq L \ K
  BY <1>1, <1>3 DEF Tops
<1>5. Shut(L, P, L \ K)
  BY <1>3 DEF Shut
<1>6. L \subseteq L \ K
  BY <1>4, <1>5, FromTops
<1> QED
  BY <1>1, <1>6

(* What is beneath R, and how far, does not depend on the links of R itself. *)
LEMMA KinOnly ==
    ASSUME TreeSizes, NEW L \in SUBSET Page, NEW P, NEW Q, NEW R,
           \A c \in L : c \notin R => Q[c] = P[c]
    PROVE  Kin(L, Q, R) = Kin(L, P, R)
<1>1. /\ R \cap L \subseteq Kin(L, P, R) /\ Shut(L, P, Kin(L, P, R))
      /\ R \cap L \subseteq Kin(L, Q, R) /\ Shut(L, Q, Kin(L, Q, R))
  BY KinShut
<1>2. Shut(L, Q, Kin(L, P, R)) /\ Shut(L, P, Kin(L, Q, R))
  BY <1>1 DEF Shut
<1> QED
  BY <1>1, <1>2, KinLeast

Counts(L, P, R, d) ==
    \A x \in Kin(L, P, R) : /\ x \in R => d[x] = 0
                            /\ x \notin R => d[x] = d[P[x]] + 1

LEMMA FarOnly ==
    ASSUME TreeSizes, NEW L \in SUBSET Page, NEW P, NEW R, NEW d, Counts(L, P, R, d)
    PROVE  \A x \in Kin(L, P, R) : Far(L, P, R, x) = d[x]
<1> DEFINE S == {x \in Kin(L, P, R) : Far(L, P, R, x) = d[x]}
<1>1. R \cap L \subseteq Kin(L, P, R) /\ Shut(L, P, Kin(L, P, R))
  BY KinShut
<1>2. \A x \in Kin(L, P, R) : /\ x \in R => Far(L, P, R, x) = 0
                              /\ x \notin R => Far(L, P, R, x) = Far(L, P, R, P[x]) + 1
  BY FarIs
<1>3. R \cap L \subseteq S
  BY <1>1, <1>2 DEF Counts
<1>4. Shut(L, P, S)
  <2> SUFFICES ASSUME NEW c \in L, P[c] \in S PROVE c \in S
    BY DEF Shut
  <2>1. c \in Kin(L, P, R)
    BY <1>1 DEF Shut
  <2> QED
    BY <1>2, <2>1 DEF Counts
<1>5. Kin(L, P, R) \subseteq S
  <2> HIDE DEF S
  <2> QED
    BY <1>3, <1>4, KinLeast
<1> QED
  BY <1>5

LEMMA FarSame ==
    ASSUME TreeSizes, NEW L \in SUBSET Page, NEW P, NEW Q, NEW R,
           \A c \in L : c \notin R => Q[c] = P[c]
    PROVE  \A x \in Kin(L, P, R) : Far(L, Q, R, x) = Far(L, P, R, x)
<1> DEFINE d == [x \in Page |-> Far(L, P, R, x)]
<1>1. Kin(L, Q, R) = Kin(L, P, R) /\ Kin(L, P, R) \subseteq L
  BY KinOnly, KinShut
<1>2. \A x \in Kin(L, P, R) : d[x] = Far(L, P, R, x)
  BY <1>1
<1>3. ASSUME NEW x \in Kin(L, Q, R)
      PROVE  (x \in R => d[x] = 0) /\ (x \notin R => d[x] = d[Q[x]] + 1)
  <2>1. CASE x \in R
    BY <1>1, <1>2, <2>1, FarIs
  <2>2. CASE x \notin R
    <3>1. Q[x] = P[x] /\ P[x] \in Kin(L, P, R) /\ Far(L, P, R, x) = Far(L, P, R, P[x]) + 1
      BY <1>1, <2>2, FarIs
    <3> HIDE DEF d
    <3> QED
      BY <1>1, <1>2, <2>2, <3>1
  <2> QED
    BY <2>1, <2>2
<1> HIDE DEF d
<1>4. \A x \in Kin(L, Q, R) : Far(L, Q, R, x) = d[x]
  <2>1. Counts(L, Q, R, d)
    BY <1>3 DEF Counts
  <2> QED
    BY <2>1, FarOnly
<1> QED
  BY <1>1, <1>2, <1>4

(* The depth of a page in a tree, and that it is the only count that starts at the tops. *)
LEMMA DepthIs ==
    ASSUME TreeSizes, NEW L, NEW P, Wood(L, P), Grounded(L, P), NEW x \in L
    PROVE  /\ Far(L, P, Tops(L, P), x) \in Nat
           /\ P[x] = NoPage => Far(L, P, Tops(L, P), x) = 0
           /\ P[x] # NoPage => /\ P[x] \in L
                               /\ Far(L, P, Tops(L, P), x) = Far(L, P, Tops(L, P), P[x]) + 1
<1>1. x \in Kin(L, P, Tops(L, P)) /\ L \in SUBSET Page /\ P[x] \in L \cup {NoPage}
  BY DEF Grounded, Wood
<1>2. x \in Tops(L, P) <=> P[x] = NoPage
  BY DEF Tops
<1>3. Size \in Nat
  BY SizeIs
<1> QED
  BY <1>1, <1>2, <1>3, FarIs

Levels(L, P, d) == \A x \in L : d[x] = IF P[x] = NoPage THEN 0 ELSE d[P[x]] + 1

LEMMA DepthOnly ==
    ASSUME TreeSizes, NEW L, NEW P, Wood(L, P), Grounded(L, P), NEW d, Levels(L, P, d)
    PROVE  \A x \in L : Far(L, P, Tops(L, P), x) = d[x]
<1>1. L \in SUBSET Page
  BY DEF Wood
<1>2. Kin(L, P, Tops(L, P)) \subseteq L
  BY <1>1, KinShut
<1>3. Counts(L, P, Tops(L, P), d)
  BY <1>2 DEF Tops, Counts, Levels
<1>4. \A x \in Kin(L, P, Tops(L, P)) : Far(L, P, Tops(L, P), x) = d[x]
  BY <1>1, <1>3, FarOnly
<1> QED
  BY <1>4 DEF Grounded

-----------------------------------------------------------------------------
(* What is done to a tree leaves a tree.                                     *)

LEMMA MoveIsTree ==
    ASSUME TreeSizes, NEW L, NEW P, Wood(L, P), Grounded(L, P),
           NEW p \in L, NEW q \in L \cup {NoPage}, q \notin Kin(L, P, {p})
    PROVE  Grounded(L, [P EXCEPT ![p] = q])
<1> DEFINE Q == [P EXCEPT ![p] = q]
           K == Kin(L, P, {p})
<1>1. L \in SUBSET Page /\ NoPage \notin L /\ P \in [Page -> L \cup {NoPage}]
  BY SizeIs DEF Wood
<1>2. Q[p] = q /\ \A c \in L : c # p => Q[c] = P[c]
  BY <1>1
<1>3. p \in K /\ Shut(L, P, K) /\ K \subseteq L
  BY <1>1, KinShut
<1> HIDE DEF Q
<1> SUFFICES ASSUME NEW S \in SUBSET L, Tops(L, Q) \subseteq S, Shut(L, Q, S) PROVE L \subseteq S
  BY <1>1, IsTree DEF Q
<1>4. L \subseteq S \cup K
  <2> HIDE DEF K
  <2>1. Tops(L, P) \subseteq S \cup K
    BY <1>2, <1>3 DEF Tops
  <2>2. Shut(L, P, S \cup K)
    BY <1>2, <1>3 DEF Shut
  <2> QED
    BY <2>1, <2>2, FromTops
<1>5. p \in S
  <2>1. CASE q = NoPage
    BY <1>2, <2>1 DEF Tops
  <2>2. CASE q \in L
    BY <1>2, <1>4, <2>2 DEF Shut
  <2> QED
    BY <2>1, <2>2
<1>6. K \subseteq S
  <2>1. Shut(L, P, S)
    BY <1>2, <1>5 DEF Shut
  <2> QED
    BY <1>5, <2>1, KinLeast
<1> QED
  BY <1>4, <1>6

LEMMA ReparentIsTree ==
    ASSUME TreeSizes, NEW L, NEW P, Wood(L, P), Grounded(L, P), NEW p \in L
    PROVE  Grounded(L, [c \in Page |-> IF c \in {x \in L : P[x] = p} THEN P[p] ELSE P[c]])
<1> DEFINE Q == [c \in Page |-> IF c \in {x \in L : P[x] = p} THEN P[p] ELSE P[c]]
<1>1. L \in SUBSET Page /\ NoPage \notin L /\ P \in [Page -> L \cup {NoPage}]
  BY SizeIs DEF Wood
<1>2. \A c \in L : Q[c] = IF P[c] = p THEN P[p] ELSE P[c]
  BY <1>1
<1> HIDE DEF Q
<1> SUFFICES ASSUME NEW S \in SUBSET L, Tops(L, Q) \subseteq S, Shut(L, Q, S) PROVE L \subseteq S
  BY <1>1, IsTree DEF Q
<1>3. CASE P[p] \in S \cup {NoPage}
  <2>1. Tops(L, P) \subseteq S
    BY <1>1, <1>2 DEF Tops
  <2>2. Shut(L, P, S)
    BY <1>1, <1>2, <1>3 DEF Shut, Tops
  <2> QED
    BY <2>1, <2>2, FromTops
<1>4. CASE P[p] \notin S \cup {NoPage}
  <2>1. Tops(L, P) \subseteq S \ {p}
    BY <1>1, <1>2, <1>4 DEF Tops
  <2>2. Shut(L, P, S \ {p})
    BY <1>1, <1>2, <1>4 DEF Shut
  <2>3. L \subseteq S \ {p}
    BY <2>1, <2>2, FromTops
  <2> QED
    BY <2>3
<1> QED
  BY <1>3, <1>4

LEMMA RemoveIsTree ==
    ASSUME TreeSizes, NEW L, NEW P, Wood(L, P), Grounded(L, P), NEW p
    PROVE  Grounded(L \ {p}, [c \in Page |-> IF c \in {x \in L : P[x] = p} \cup {p} THEN NoPage
                                              ELSE P[c]])
<1> DEFINE Q == [c \in Page |-> IF c \in {x \in L : P[x] = p} \cup {p} THEN NoPage ELSE P[c]]
<1>1. L \in SUBSET Page /\ NoPage \notin L /\ P \in [Page -> L \cup {NoPage}]
  BY SizeIs DEF Wood
<1>2. \A c \in L \ {p} : Q[c] = IF P[c] = p THEN NoPage ELSE P[c]
  BY <1>1
<1>3. L \ {p} \in SUBSET Page
  BY <1>1
<1> HIDE DEF Q
<1>4. ASSUME NEW S \in SUBSET (L \ {p}), Tops(L \ {p}, Q) \subseteq S, Shut(L \ {p}, Q, S)
      PROVE  L \ {p} \subseteq S
  <2>1. Tops(L, P) \subseteq S \cup {p}
    BY <1>2, <1>4 DEF Tops
  <2>2. Shut(L, P, S \cup {p})
    BY <1>1, <1>2, <1>4 DEF Shut, Tops
  <2> QED
    BY <2>1, <2>2, FromTops
<1>5. Grounded(L \ {p}, Q)
  BY <1>3, <1>4, IsTree
<1> QED
  BY <1>5 DEF Q

LEMMA InsertIsTree ==
    ASSUME TreeSizes, NEW L, NEW P, Wood(L, P), Grounded(L, P),
           NEW n \in Page \ L, NEW q \in L \cup {NoPage}
    PROVE  /\ Grounded(L \cup {n}, [P EXCEPT ![n] = q])
           /\ \A p \in L : Kin(L \cup {n}, [P EXCEPT ![n] = q], {p})
                            \subseteq Kin(L, P, {p}) \cup {n}
<1> DEFINE Q == [P EXCEPT ![n] = q]
<1>1. L \in SUBSET Page /\ NoPage \notin L /\ P \in [Page -> L \cup {NoPage}] /\ n # NoPage
  BY SizeIs DEF Wood
<1>2. Q[n] = q /\ \A c \in L : Q[c] = P[c] /\ P[c] # n
  BY <1>1
<1>3. L \cup {n} \in SUBSET Page
  BY <1>1
<1> HIDE DEF Q
<1>4. ASSUME NEW S \in SUBSET (L \cup {n}), Tops(L \cup {n}, Q) \subseteq S, Shut(L \cup {n}, Q, S)
      PROVE  L \cup {n} \subseteq S
  <2>1. Tops(L, P) \subseteq S
    BY <1>2, <1>4 DEF Tops
  <2>2. Shut(L, P, S)
    BY <1>2, <1>4 DEF Shut
  <2>3. L \subseteq S
    BY <2>1, <2>2, FromTops
  <2>4. n \in S
    BY <1>2, <1>4, <2>3 DEF Tops, Shut
  <2> QED
    BY <2>3, <2>4
<1>5. ASSUME NEW p \in L PROVE Kin(L \cup {n}, Q, {p}) \subseteq Kin(L, P, {p}) \cup {n}
  <2>1. p \in Kin(L, P, {p}) /\ Shut(L, P, Kin(L, P, {p}))
    BY <1>1, KinShut
  <2>2. Shut(L \cup {n}, Q, Kin(L, P, {p}) \cup {n})
    <3> SUFFICES ASSUME NEW c \in L, Q[c] \in Kin(L, P, {p}) \cup {n} PROVE c \in Kin(L, P, {p})
      BY DEF Shut
    <3> QED
      BY <1>2, <2>1 DEF Shut
  <2> QED
    BY <2>1, <2>2, KinLeast
<1> QED
  BY <1>3, <1>4, <1>5, IsTree DEF Q

-----------------------------------------------------------------------------
(* The invariants of the tree.                                              *)

LocalsType == [pc : {"idle", "insert", "height", "link", "linkDepths", "reparent", "childDepths",
                     "remove"},
               page : Link, parent : Link, depth : Nat, moved : SUBSET Page]

LinkPc == {"height", "link", "linkDepths", "reparent", "childDepths", "remove"}

TreeTyped ==
    /\ born \subseteq Page /\ live \subseteq born
    /\ parent \in [Page -> live \cup {NoPage}]
    /\ \A c \in Page \ live : parent[c] = NoPage
    /\ depth \in [Page -> Nat]
    /\ req \in [Request -> LocalsType]
    /\ drift \subseteq live

(* The page a request moves or deletes is there, and the page it is to hang under is not    *)
(* beneath it.                                                                            *)
LinkStands(r) ==
    /\ req[r].pc \in LinkPc => req[r].page \in live
    /\ req[r].pc \in {"height", "link"} => req[r].parent \notin Kin(live, parent, {req[r].page})
    /\ req[r].pc = "height" => req[r].parent \in live
    /\ req[r].pc = "link" => req[r].parent \in live \cup {NoPage}
    /\ req[r].pc = "reparent" => req[r].parent = parent[req[r].page]

OneLinks == \A r, s \in Request : req[r].pc \in LinkPc /\ req[s].pc \in LinkPc => r = s

ForestStands ==
    /\ Grounded(live, parent)
    /\ OneLinks
    /\ \A r \in Request : LinkStands(r)

ForestInv == TreeTyped /\ ("link" \notin overlap => ForestStands)

\* The depth of a page under q by what the column says.
Beneath(q) == IF q = NoPage THEN 0 ELSE depth[q] + 1

(* What a request has read of a depth is still so, and what it linked and has yet to       *)
(* re-base has drifted.                                                                   *)
DepthStands(r) ==
    /\ req[r].pc \in {"insert", "link", "linkDepths"} =>
           req[r].parent \in live \cup {NoPage} /\ req[r].depth = Beneath(req[r].parent)
    /\ req[r].pc = "linkDepths" => /\ parent[req[r].page] = req[r].parent
                                   /\ Kin(live, parent, {req[r].page}) \subseteq drift
                                   /\ req[r].parent \notin Kin(live, parent, {req[r].page})
    /\ req[r].pc \in {"reparent", "childDepths"} => req[r].depth = depth[req[r].page]
    /\ req[r].pc = "childDepths" =>
           /\ req[r].moved \subseteq live
           /\ \A c \in req[r].moved : parent[c] = parent[req[r].page]
           /\ Kin(live, parent, req[r].moved) \subseteq drift
           /\ req[r].page \notin Kin(live, parent, req[r].moved)
           /\ parent[req[r].page] \notin Kin(live, parent, req[r].moved)
    /\ req[r].pc \in {"childDepths", "remove"} => Children(req[r].page) = {}

Alone == \A r, s \in Request : req[r].pc # "idle" /\ req[s].pc # "idle" => r = s

DepthsStand ==
    /\ Alone
    /\ Shut(live, parent, drift)
    /\ \A c \in live \ drift : depth[c] = Beneath(parent[c])
    /\ \A r \in Request : DepthStands(r)

DepthInv == overlap = {} => DepthsStand

(* Nothing drifts but under a link that is to be re-based, and a move that was let through  *)
(* keeps to the cap.                                                                      *)
CapLocal(r) ==
    /\ req[r].pc = "insert" => req[r].depth <= MaxDepth
    /\ req[r].pc = "link" => \A x \in Kin(live, parent, {req[r].page}) :
                                 req[r].depth + Far(live, parent, {req[r].page}, x) <= MaxDepth
    /\ req[r].pc = "linkDepths" => drift \subseteq Kin(live, parent, {req[r].page})
    /\ req[r].pc = "childDepths" => drift \subseteq Kin(live, parent, req[r].moved)

CapStands ==
    /\ \A p \in live : Far(live, parent, Tops(live, parent), p) <= MaxDepth
    /\ (\A r \in Request : req[r].pc \notin {"linkDepths", "childDepths"}) => drift = {}
    /\ \A r \in Request : CapLocal(r)

CapInv == overlap = {} /\ ~halved => CapStands

LEMMA TreesAre ==
    ASSUME TreeSizes
    PROVE  /\ TreeTyped => (Rooted <=> Grounded(live, parent))
           /\ TreeTyped' => (Rooted' <=> Grounded(live', parent'))
           /\ \A p : /\ TrueDepth(p) = Far(live, parent, Tops(live, parent), p)
                     /\ TrueDepth(p)' = Far(live', parent', Tops(live', parent'), p)
<1>1. TreeTyped => Kin(live, parent, Tops(live, parent)) \subseteq live
  BY KinShut DEF TreeTyped
<1>2. TreeTyped' => Kin(live', parent', Tops(live', parent')) \subseteq live'
  BY KinShut DEF TreeTyped
<1>3. (Rooted <=> live = Kin(live, parent, Tops(live, parent)))
      /\ (Rooted' <=> live' = Kin(live', parent', Tops(live', parent')))
  BY Queries DEF Rooted, Tops
<1>4. \A p : /\ TrueDepth(p) = Far(live, parent, Tops(live, parent), p)
             /\ TrueDepth(p)' = Far(live', parent', Tops(live', parent'), p)
  BY Queries DEF TrueDepth, Tops
<1> QED
  BY <1>1, <1>2, <1>3, <1>4 DEF Grounded

-----------------------------------------------------------------------------
(* Types.                                                                   *)

LEMMA KinLive == TreeSizes /\ TreeTyped => \A R : Kin(live, parent, R) \subseteq live
BY KinShut DEF TreeTyped

(* What rebaseSubtreeDepth writes. *)
LEMMA RebasedIs ==
    ASSUME TreeSizes, TreeTyped, NEW R, NEW base \in Nat
    PROVE  /\ Rebased(R, base) \in [Page -> Nat]
           /\ \A p \in Kin(live, parent, R) :
                 Rebased(R, base)[p] = base + Far(live, parent, R, p)
           /\ \A p \in Page \ Kin(live, parent, R) : Rebased(R, base)[p] = depth[p]
<1>1. Subtree(R) = Kin(live, parent, R) /\ \A p : Rel(R, p) = Far(live, parent, R, p)
  BY Queries
<1>2. Kin(live, parent, R) \subseteq Page /\ live \in SUBSET Page /\ depth \in [Page -> Nat]
  BY KinLive DEF TreeTyped
<1>3. \A p \in Kin(live, parent, R) : Far(live, parent, R, p) \in Nat
  <2>1. Size \in Nat
    BY SizeIs
  <2> QED
    BY <1>2, <2>1, FarIs
<1> QED
  BY <1>1, <1>2, <1>3 DEF Rebased

LEMMA TreeTypes == ASSUME TreeSizes, TreeTyped, Next PROVE TreeTyped'
<1>0. \A R : Subtree(R) \subseteq live
  BY Queries, KinLive
<1>1. /\ live \subseteq Page /\ NoPage \notin Page /\ Idle \in LocalsType
      /\ req \in [Request -> LocalsType]
  BY DEF TreeSizes, TreeTyped, Idle, LocalsType, Link
<1>2. ASSUME NEW r \in Request, NEW kind, NEW l \in LocalsType, Begin(r, kind, l)
      PROVE  TreeTyped'
  BY <1>2 DEF Begin, rows, TreeTyped
<1>3. ASSUME NEW r \in Request, Finish(r) PROVE req' \in [Request -> LocalsType]
  BY <1>1, <1>3 DEF Finish
<1>4. ASSUME NEW r \in Request, NEW pc \in {"linkDepths", "remove"}, Goto(r, pc)
      PROVE  req' \in [Request -> LocalsType]
  BY <1>1, <1>4 DEF Goto, LocalsType
<1> SUFFICES ASSUME NEW r \in Request,
                    \/ \E q \in Link : CreateLookup(r, q)
                    \/ CreateInsert(r)
                    \/ \E p, q \in Page : MoveCheck(r, p, q)
                    \/ \E p \in Page : Unparent(r, p)
                    \/ MoveHeight(r) \/ MoveWrite(r) \/ MoveRebase(r)
                    \/ \E p \in Page : DeleteLookup(r, p)
                    \/ DeleteReparent(r) \/ DeleteRebase(r) \/ DeleteRow(r)
                    \/ RequestEnds(r)
             PROVE  TreeTyped'
  BY DEF Next
<1>5. req[r] \in LocalsType
  BY <1>1
<1>6. ASSUME NEW q \in Link, CreateLookup(r, q) PROVE TreeTyped'
  <2>1. CASE q = NoPage /\ Begin(r, "create", [Idle EXCEPT !.pc = "insert"])
    <3>1. [Idle EXCEPT !.pc = "insert"] \in LocalsType
      BY DEF Idle, LocalsType, Link
    <3> QED
      BY <2>1, <3>1, <1>2
  <2>2. CASE q \in live /\ Begin(r, "create", [Idle EXCEPT !.pc = "insert", !.parent = q,
                                                           !.depth = depth[q] + 1])
    <3>1. depth[q] + 1 \in Nat
      BY <1>1, <2>2 DEF TreeTyped
    <3>2. [Idle EXCEPT !.pc = "insert", !.parent = q, !.depth = depth[q] + 1] \in LocalsType
      BY <3>1 DEF Idle, LocalsType, Link
    <3> QED
      BY <2>2, <3>2, <1>2
  <2> QED
    BY <1>6, <2>1, <2>2 DEF CreateLookup
<1>7. CASE CreateInsert(r)
  <2>1. req' \in [Request -> LocalsType]
    BY <1>3, <1>7 DEF CreateInsert
  <2>2. CASE UNCHANGED <<rows, drift>>
    BY <2>1, <2>2 DEF rows, TreeTyped
  <2>3. ASSUME NEW p \in Page \ born, LinkExists(req[r].parent),
               born' = born \cup {p}, live' = live \cup {p},
               parent' = [parent EXCEPT ![p] = req[r].parent],
               depth' = [depth EXCEPT ![p] = req[r].depth],
               drift' = IF req[r].parent \in drift THEN drift \cup {p} ELSE drift
        PROVE  TreeTyped'
    <3>1. req[r].depth \in Nat
      BY <1>5 DEF LocalsType
    <3>2. depth' \in [Page -> Nat]
      BY <2>3, <3>1 DEF TreeTyped
    <3>3. parent' \in [Page -> live' \cup {NoPage}] /\ \A c \in Page \ live' : parent'[c] = NoPage
      BY <2>3 DEF TreeTyped, LinkExists
    <3>4. born' \subseteq Page /\ live' \subseteq born' /\ drift' \subseteq live'
      BY <2>3 DEF TreeTyped
    <3> QED
      BY <2>1, <3>2, <3>3, <3>4 DEF TreeTyped
  <2> QED
    BY <1>7, <2>2, <2>3 DEF CreateInsert
<1>8. ASSUME NEW p \in Page, NEW q \in Page, MoveCheck(r, p, q) PROVE TreeTyped'
  <2>1. [Idle EXCEPT !.pc = "height", !.page = p, !.parent = q] \in LocalsType
    BY DEF Idle, LocalsType, Link
  <2> QED
    BY <1>2, <1>8, <2>1 DEF MoveCheck
<1>9. ASSUME NEW p \in Page, Unparent(r, p) PROVE TreeTyped'
  <2>1. [Idle EXCEPT !.pc = "link", !.page = p] \in LocalsType
    BY DEF Idle, LocalsType, Link
  <2> QED
    BY <1>2, <1>9, <2>1 DEF Unparent
<1>10. CASE MoveHeight(r)
  <2>1. CASE Finish(r)
    BY <1>3, <1>10, <2>1 DEF MoveHeight, rows, TreeTyped
  <2>2. CASE /\ req[r].parent \in live
             /\ req' = [req EXCEPT ![r].pc = "link", ![r].depth = depth[req[r].parent] + 1]
    <3>1. depth[req[r].parent] + 1 \in Nat
      BY <1>1, <2>2 DEF TreeTyped
    <3>2. req' = [req EXCEPT ![r] = [req[r] EXCEPT !.pc = "link",
                                                   !.depth = depth[req[r].parent] + 1]]
      BY <2>2
    <3>3. [req[r] EXCEPT !.pc = "link", !.depth = depth[req[r].parent] + 1] \in LocalsType
      BY <1>5, <3>1 DEF LocalsType
    <3> QED
      BY <1>1, <1>10, <3>2, <3>3 DEF MoveHeight, rows, TreeTyped
  <2> QED
    BY <1>10, <2>1, <2>2 DEF MoveHeight
<1>11. CASE MoveWrite(r)
  <2>1. req' \in [Request -> LocalsType]
    BY <1>3, <1>4, <1>11 DEF MoveWrite
  <2>2. CASE UNCHANGED <<parent, drift>>
    BY <1>11, <2>1, <2>2 DEF MoveWrite, TreeTyped
  <2>3. CASE /\ req[r].page \in live /\ LinkExists(req[r].parent)
             /\ parent' = [parent EXCEPT ![req[r].page] = req[r].parent]
             /\ drift' = drift \cup Subtree({req[r].page})
    BY <1>0, <1>11, <2>1, <2>3 DEF MoveWrite, TreeTyped, LinkExists
  <2> QED
    BY <1>11, <2>2, <2>3 DEF MoveWrite
<1>12. CASE MoveRebase(r)
  <2>1. req[r].depth \in Nat
    BY <1>5 DEF LocalsType
  <2>2. depth' \in [Page -> Nat]
    BY <1>12, <2>1, RebasedIs DEF MoveRebase
  <2>3. drift' \subseteq live
    BY <1>12 DEF MoveRebase, TreeTyped
  <2> QED
    BY <1>3, <1>12, <2>2, <2>3 DEF MoveRebase, TreeTyped
<1>13. ASSUME NEW p \in Page, DeleteLookup(r, p) PROVE TreeTyped'
  <2>1. parent[p] \in Link /\ depth[p] \in Nat
    BY <1>1 DEF TreeTyped, Link
  <2>2. [Idle EXCEPT !.pc = "reparent", !.page = p, !.parent = parent[p], !.depth = depth[p]]
        \in LocalsType
    BY <2>1 DEF Idle, LocalsType, Link
  <2> QED
    BY <1>2, <1>13, <2>2 DEF DeleteLookup
<1>14. CASE DeleteReparent(r)
  <2>1. CASE /\ Finish(r)
             /\ UNCHANGED <<parent, drift>>
    BY <1>3, <1>14, <2>1 DEF DeleteReparent, TreeTyped
  <2> DEFINE moved == Children(req[r].page)
  <2>2. CASE /\ moved = {} \/ LinkExists(req[r].parent)
             /\ parent' = [c \in Page |-> IF c \in moved THEN req[r].parent ELSE parent[c]]
             /\ drift' = drift \cup Subtree(moved)
             /\ req' = [req EXCEPT ![r].pc = "childDepths", ![r].moved = moved]
    <3>1. moved \subseteq live
      BY DEF Children
    <3> HIDE DEF moved
    <3>2. req' = [req EXCEPT ![r] = [req[r] EXCEPT !.pc = "childDepths", !.moved = moved]]
      BY <2>2
    <3>3. [req[r] EXCEPT !.pc = "childDepths", !.moved = moved] \in LocalsType
      BY <1>1, <1>5, <3>1 DEF LocalsType
    <3>4. req' \in [Request -> LocalsType]
      BY <1>1, <3>2, <3>3
    <3>5. live' = live /\ born' = born /\ depth' = depth
      BY <1>14 DEF DeleteReparent
    <3>6. parent' \in [Page -> live \cup {NoPage}] /\ \A c \in Page \ live : parent'[c] = NoPage
      BY <2>2, <3>1 DEF TreeTyped, LinkExists
    <3> QED
      BY <1>0, <2>2, <3>4, <3>5, <3>6 DEF TreeTyped
  <2> QED
    BY <1>14, <2>1, <2>2 DEF DeleteReparent
<1>15. CASE DeleteRebase(r)
  <2>1. req[r].depth \in Nat
    BY <1>5 DEF LocalsType
  <2>2. depth' \in [Page -> Nat]
    BY <1>15, <2>1, RebasedIs DEF DeleteRebase
  <2>3. drift' \subseteq live
    BY <1>15 DEF DeleteRebase, TreeTyped
  <2> QED
    BY <1>4, <1>15, <2>2, <2>3 DEF DeleteRebase, TreeTyped
<1>16. CASE DeleteRow(r)
  <2>1. req' \in [Request -> LocalsType]
    BY <1>3, <1>16 DEF DeleteRow
  <2>2. /\ parent' \in [Page -> live' \cup {NoPage}]
        /\ \A c \in Page \ live' : parent'[c] = NoPage
    BY <1>16 DEF DeleteRow, RemainingLinks, Children, TreeTyped
  <2>3. depth' \in [Page -> Nat]
    BY <1>16 DEF DeleteRow, TreeTyped
  <2>4. drift' \subseteq live' /\ live' \subseteq born' /\ born' \subseteq Page
    BY <1>0, <1>16 DEF DeleteRow, TreeTyped
  <2> QED
    BY <2>1, <2>2, <2>3, <2>4 DEF TreeTyped
<1>17. CASE RequestEnds(r)
  BY <1>3, <1>17 DEF RequestEnds, rows, TreeTyped
<1> QED
  BY <1>6, <1>7, <1>8, <1>9, <1>10, <1>11, <1>12, <1>13, <1>14, <1>15, <1>16, <1>17

-----------------------------------------------------------------------------
(* The tree is a forest.                                                    *)

(* A request that begins to link is, unless overlap says so, the only one that does. *)
LEMMA LinksBegin ==
    ASSUME TreeTyped, ForestStands, NEW r \in Request, NEW l \in LocalsType,
           Begin(r, "link", l), "link" \notin overlap',
           /\ l.page \in live
           /\ l.pc \in {"height", "link"} => l.parent \notin Kin(live, parent, {l.page})
           /\ l.pc = "height" => l.parent \in live
           /\ l.pc = "link" => l.parent \in live \cup {NoPage}
           /\ l.pc = "reparent" => l.parent = parent[l.page]
    PROVE  ForestStands'
<1>1. /\ req' = [req EXCEPT ![r] = l] /\ req[r].pc = "idle"
      /\ live' = live /\ parent' = parent /\ req \in [Request -> LocalsType]
  BY DEF Begin, rows, TreeTyped
<1>2. req'[r] = l /\ \A s \in Request : s # r => req'[s] = req[s]
  BY <1>1
<1>3. \A o \in InFlight : req[o].pc = "insert"
  BY DEF Begin
<1>4. \A s \in Request : req[s].pc \notin LinkPc
  BY <1>3 DEF InFlight, LinkPc
<1>5. OneLinks'
  BY <1>2, <1>4 DEF OneLinks
<1>6. \A s \in Request : LinkStands(s)'
  BY <1>1, <1>2, <1>4 DEF LinkStands, LinkPc
<1>7. Grounded(live, parent)'
  BY <1>1 DEF ForestStands
<1> QED
  BY <1>5, <1>6, <1>7 DEF ForestStands

(* A request that ends, or does not change the tree while it goes on. *)
LEMMA LinksEnd ==
    ASSUME TreeTyped, ForestStands, NEW r \in Request, NEW l, req' = [req EXCEPT ![r] = l],
           live' = live, parent' = parent,
           l.pc \in LinkPc => req[r].pc \in LinkPc /\ l.page = req[r].page,
           l.pc = "link" => l.parent = req[r].parent /\ req[r].pc = "height",
           l.pc \notin {"height", "reparent"}
    PROVE  ForestStands'
<1>1. req'[r] = l /\ \A s \in Request : s # r => req'[s] = req[s]
  BY DEF TreeTyped
<1>2. OneLinks'
  BY <1>1 DEF OneLinks, ForestStands
<1>3. \A s \in Request : s # r => LinkStands(s)'
  BY <1>1 DEF ForestStands, LinkStands
<1>4. LinkStands(r)'
  BY <1>1 DEF ForestStands, LinkStands, LinkPc
<1>5. Grounded(live, parent)'
  BY DEF ForestStands
<1> QED
  BY <1>2, <1>3, <1>4, <1>5 DEF ForestStands

(* The request that writes a link is the only one that has one to write. *)
LEMMA LinksWrite ==
    ASSUME TreeTyped, ForestStands, NEW r \in Request, req[r].pc \in LinkPc,
           NEW l, req' = [req EXCEPT ![r] = l], l.pc \notin {"height", "link", "reparent"},
           l.pc \in LinkPc => l.page \in live',
           Grounded(live', parent')
    PROVE  ForestStands'
<1>1. req'[r] = l /\ \A s \in Request : s # r => req'[s] = req[s]
  BY DEF TreeTyped
<1>2. \A s \in Request : s # r => req'[s].pc \notin LinkPc
  BY <1>1 DEF OneLinks, ForestStands
<1>3. OneLinks'
  BY <1>2 DEF OneLinks
<1>4. \A s \in Request : s # r => LinkStands(s)'
  BY <1>2 DEF LinkStands, LinkPc
<1>5. LinkStands(r)'
  BY <1>1 DEF LinkStands
<1> QED
  BY <1>3, <1>4, <1>5 DEF ForestStands

LEMMA Woods ==
    TreeSizes /\ TreeTyped => Wood(live, parent) /\ live \in SUBSET Page /\ NoPage \notin live
BY DEF TreeSizes, TreeTyped, Wood

LEMMA ForestStep ==
    ASSUME TreeSizes, TreeTyped, ForestStands, Next, "link" \notin overlap' PROVE ForestStands'
<1>0. \A R : Subtree(R) = Kin(live, parent, R)
  BY Queries
<1>1. /\ Wood(live, parent) /\ live \in SUBSET Page /\ NoPage \notin live /\ Grounded(live, parent)
      /\ req \in [Request -> LocalsType]
  BY Woods DEF ForestStands, TreeTyped
<1> SUFFICES ASSUME NEW r \in Request,
                    \/ \E q \in Link : CreateLookup(r, q)
                    \/ CreateInsert(r)
                    \/ \E p, q \in Page : MoveCheck(r, p, q)
                    \/ \E p \in Page : Unparent(r, p)
                    \/ MoveHeight(r) \/ MoveWrite(r) \/ MoveRebase(r)
                    \/ \E p \in Page : DeleteLookup(r, p)
                    \/ DeleteReparent(r) \/ DeleteRebase(r) \/ DeleteRow(r)
                    \/ RequestEnds(r)
             PROVE  ForestStands'
  BY DEF Next
<1>2. ASSUME Finish(r), live' = live, parent' = parent PROVE ForestStands'
  <2>1. Idle.pc = "idle"
    BY DEF Idle
  <2> QED
    BY <1>2, <2>1, LinksEnd DEF Finish, LinkPc
<1>3. ASSUME NEW q \in Link, CreateLookup(r, q) PROVE ForestStands'
  <2>1. PICK l : Begin(r, "create", l) /\ l.pc = "insert"
    <3>1. [Idle EXCEPT !.pc = "insert"].pc = "insert"
          /\ [Idle EXCEPT !.pc = "insert", !.parent = q, !.depth = depth[q] + 1].pc = "insert"
      BY DEF Idle
    <3> QED
      BY <1>3, <3>1 DEF CreateLookup
  <2>2. req' = [req EXCEPT ![r] = l] /\ live' = live /\ parent' = parent
    BY <2>1 DEF Begin, rows
  <2> QED
    BY <2>1, <2>2, LinksEnd DEF LinkPc
<1>4. CASE CreateInsert(r)
  <2>1. CASE UNCHANGED <<rows, drift>>
    BY <1>2, <1>4, <2>1 DEF CreateInsert, rows
  <2> DEFINE q == req[r].parent
  <2>2. ASSUME NEW p \in Page \ born, LinkExists(q), live' = live \cup {p},
               parent' = [parent EXCEPT ![p] = q]
        PROVE  ForestStands'
    <3>1. p \in Page \ live /\ q \in live \cup {NoPage} /\ p # NoPage
      BY <1>1, <2>2, SizeIs DEF TreeTyped, LinkExists
    <3> HIDE DEF q
    <3>2. /\ Grounded(live', parent')
          /\ \A x \in live : Kin(live', parent', {x}) \subseteq Kin(live, parent, {x}) \cup {p}
      BY <1>1, <2>2, <3>1, InsertIsTree
    <3>3. req'[r].pc = "idle" /\ \A s \in Request : s # r => req'[s] = req[s]
      BY <1>1, <1>4 DEF CreateInsert, Finish, Idle
    <3>4. OneLinks'
      BY <3>3 DEF OneLinks, ForestStands, LinkPc
    <3>5. LinkStands(r)'
      BY <3>3 DEF LinkStands, LinkPc
    <3>6. ASSUME NEW s \in Request, s # r PROVE LinkStands(s)'
      <4>1. LinkStands(s) /\ req'[s] = req[s]
        BY <3>3, <3>6 DEF ForestStands
      <4>2. live \subseteq live' /\ \A c \in live : parent'[c] = parent[c]
        BY <1>1, <2>2, <3>1 DEF TreeTyped
      <4>3. req[s].pc \in {"height", "link"} =>
                req[s].page \in live /\ req[s].parent \in live \cup {NoPage}
        BY <4>1 DEF LinkStands, LinkPc
      <4>4. req[s].pc \in {"height", "link"} => req[s].parent # p
        BY <3>1, <4>3
      <4>5. req[s].pc \in {"height", "link"} =>
                req[s].parent \notin Kin(live', parent', {req[s].page})
        BY <3>2, <4>1, <4>3, <4>4 DEF LinkStands
      <4>6. req[s].pc = "reparent" => req[s].parent = parent'[req[s].page]
        BY <4>1, <4>2 DEF LinkStands, LinkPc
      <4> QED
        BY <4>1, <4>2, <4>5, <4>6 DEF LinkStands
    <3> QED
      BY <3>2, <3>4, <3>5, <3>6 DEF ForestStands
  <2> QED
    BY <1>4, <2>1, <2>2 DEF CreateInsert
<1>5. ASSUME NEW p \in Page, NEW q \in Page, MoveCheck(r, p, q) PROVE ForestStands'
  <2> DEFINE l == [Idle EXCEPT !.pc = "height", !.page = p, !.parent = q]
  <2>1. l \in LocalsType /\ l.pc = "height" /\ l.page = p /\ l.parent = q
    BY DEF Idle, LocalsType, Link
  <2>2. Begin(r, "link", l) /\ p \in live /\ q \in live /\ q \notin Kin(live, parent, {p})
    BY <1>0, <1>5 DEF MoveCheck, WouldCycle
  <2> HIDE DEF l
  <2> QED
    BY <2>1, <2>2, LinksBegin
<1>6. ASSUME NEW p \in Page, Unparent(r, p) PROVE ForestStands'
  <2> DEFINE l == [Idle EXCEPT !.pc = "link", !.page = p]
  <2>1. l \in LocalsType /\ l.pc = "link" /\ l.page = p /\ l.parent = NoPage
    BY DEF Idle, LocalsType, Link
  <2>2. Begin(r, "link", l) /\ p \in live
    BY <1>6 DEF Unparent
  <2>3. NoPage \notin Kin(live, parent, {p})
    BY <1>1, KinShut
  <2> HIDE DEF l
  <2> QED
    BY <2>1, <2>2, <2>3, LinksBegin
<1>7. CASE MoveHeight(r)
  <2>1. live' = live /\ parent' = parent /\ req[r].pc = "height"
    BY <1>7 DEF MoveHeight, rows
  <2>2. CASE req' = [req EXCEPT ![r].pc = "link", ![r].depth = depth[req[r].parent] + 1]
    <3>1. PICK l : l = [req[r] EXCEPT !.pc = "link", !.depth = depth[req[r].parent] + 1]
      OBVIOUS
    <3>2. req' = [req EXCEPT ![r] = l]
      BY <2>2, <3>1
    <3>3. l.pc = "link" /\ l.page = req[r].page /\ l.parent = req[r].parent
      BY <1>1, <3>1 DEF LocalsType
    <3> QED
      BY <2>1, <3>2, <3>3, LinksEnd DEF LinkPc
  <2> QED
    BY <1>2, <1>7, <2>1, <2>2 DEF MoveHeight
<1>8. CASE MoveWrite(r)
  <2> DEFINE p == req[r].page
             q == req[r].parent
  <2>1. CASE Finish(r) /\ UNCHANGED <<parent, drift>>
    BY <1>2, <1>8, <2>1 DEF MoveWrite
  <2>2. CASE /\ p \in live /\ LinkExists(q) /\ parent' = [parent EXCEPT ![p] = q]
             /\ Goto(r, "linkDepths")
    <3>1. req[r].pc = "link" /\ live' = live
      BY <1>8 DEF MoveWrite
    <3>2. q \notin Kin(live, parent, {p}) /\ q \in live \cup {NoPage} /\ p \in live
      BY <2>2, <3>1 DEF ForestStands, LinkStands, LinkExists
    <3>3. PICK l : l = [req[r] EXCEPT !.pc = "linkDepths"]
      OBVIOUS
    <3>4. req' = [req EXCEPT ![r] = l] /\ l.pc = "linkDepths" /\ l.page = p
      BY <1>1, <2>2, <3>3 DEF Goto, LocalsType
    <3> HIDE DEF p, q
    <3>5. Grounded(live', parent')
      BY <1>1, <2>2, <3>1, <3>2, MoveIsTree
    <3> QED
      BY <3>1, <3>2, <3>4, <3>5, LinksWrite DEF LinkPc
  <2> QED
    BY <1>8, <2>1, <2>2 DEF MoveWrite
<1>9. CASE MoveRebase(r)
  BY <1>2, <1>9 DEF MoveRebase
<1>10. ASSUME NEW p \in Page, DeleteLookup(r, p) PROVE ForestStands'
  <2> DEFINE l == [Idle EXCEPT !.pc = "reparent", !.page = p, !.parent = parent[p],
                               !.depth = depth[p]]
  <2>1. parent[p] \in Link /\ depth[p] \in Nat
    BY <1>1 DEF TreeTyped, Link
  <2>2. l \in LocalsType /\ l.pc = "reparent" /\ l.page = p /\ l.parent = parent[p]
    BY <2>1 DEF Idle, LocalsType, Link
  <2>3. Begin(r, "link", l) /\ p \in live
    BY <1>10 DEF DeleteLookup
  <2> HIDE DEF l
  <2> QED
    BY <2>2, <2>3, LinksBegin
<1>11. CASE DeleteReparent(r)
  <2> DEFINE p == req[r].page
             q == req[r].parent
             moved == Children(p)
  <2>1. CASE Finish(r) /\ UNCHANGED <<parent, drift>>
    BY <1>2, <1>11, <2>1 DEF DeleteReparent
  <2>2. CASE /\ parent' = [c \in Page |-> IF c \in moved THEN q ELSE parent[c]]
             /\ req' = [req EXCEPT ![r].pc = "childDepths", ![r].moved = moved]
    <3>1. req[r].pc = "reparent" /\ live' = live
      BY <1>11 DEF DeleteReparent
    <3>2. q = parent[p] /\ p \in live
      BY <3>1 DEF ForestStands, LinkStands, LinkPc
    <3>3. PICK l : l = [req[r] EXCEPT !.pc = "childDepths", !.moved = moved]
      OBVIOUS
    <3>4. req' = [req EXCEPT ![r] = l]
      BY <2>2, <3>3
    <3>5. l.pc = "childDepths" /\ l.page = p
      BY <1>1, <3>3 DEF LocalsType
    <3>6. parent' = [c \in Page |-> IF c \in {x \in live : parent[x] = p} THEN parent[p]
                                    ELSE parent[c]]
      BY <2>2, <3>2 DEF Children
    <3> HIDE DEF p, q
    <3>7. Grounded(live', parent')
      BY <1>1, <3>1, <3>2, <3>6, ReparentIsTree
    <3> QED
      BY <3>1, <3>2, <3>4, <3>5, <3>7, LinksWrite DEF LinkPc
  <2> QED
    BY <1>11, <2>1, <2>2 DEF DeleteReparent
<1>12. CASE DeleteRebase(r)
  <2>1. req[r].pc = "childDepths" /\ live' = live /\ parent' = parent
    BY <1>12 DEF DeleteRebase
  <2>2. PICK l : l = [req[r] EXCEPT !.pc = "remove"]
    OBVIOUS
  <2>3. req' = [req EXCEPT ![r] = l] /\ l.pc = "remove" /\ l.page = req[r].page
    BY <1>1, <1>12, <2>2 DEF DeleteRebase, Goto, LocalsType
  <2> QED
    BY <2>1, <2>3, LinksEnd DEF LinkPc
<1>13. CASE DeleteRow(r)
  <2> DEFINE p == req[r].page
  <2>1. req[r].pc = "remove" /\ req' = [req EXCEPT ![r] = Idle] /\ Idle.pc = "idle"
    BY <1>13 DEF DeleteRow, Finish, Idle
  <2>2. /\ live' = live \ {p}
        /\ parent' = [c \in Page |-> IF c \in {x \in live : parent[x] = p} \cup {p} THEN NoPage
                                     ELSE parent[c]]
    BY <1>13 DEF DeleteRow, RemainingLinks, Children
  <2> HIDE DEF p
  <2>3. Grounded(live', parent')
    BY <1>1, <2>2, RemoveIsTree
  <2> QED
    BY <2>1, <2>3, LinksWrite DEF LinkPc
<1>14. CASE RequestEnds(r)
  BY <1>2, <1>14 DEF RequestEnds, rows
<1> QED
  BY <1>3, <1>4, <1>5, <1>6, <1>7, <1>8, <1>9, <1>10, <1>11, <1>12, <1>13, <1>14

-----------------------------------------------------------------------------
(* The depths are true.                                                     *)

LEMMA BeginsAlone ==
    ASSUME TreeTyped, DepthsStand, NEW r \in Request, NEW kind, NEW l \in LocalsType,
           Begin(r, kind, l), overlap' = {},
           /\ l.pc \in {"insert", "link"} =>
                  l.parent \in live \cup {NoPage} /\ l.depth = Beneath(l.parent)
           /\ l.pc = "reparent" => l.depth = depth[l.page]
           /\ l.pc \notin {"linkDepths", "childDepths", "remove"}
    PROVE  DepthsStand' /\ \A s \in Request : req[s].pc = "idle"
<1>1. /\ req' = [req EXCEPT ![r] = l] /\ req[r].pc = "idle" /\ req \in [Request -> LocalsType]
      /\ live' = live /\ parent' = parent /\ depth' = depth /\ drift' = drift
  BY DEF Begin, rows, TreeTyped
<1>2. req'[r] = l /\ \A s \in Request : s # r => req'[s] = req[s]
  BY <1>1
<1>3. InFlight = {}
  BY DEF Begin
<1>4. \A s \in Request : req[s].pc = "idle"
  BY <1>3 DEF InFlight
<1>5. Alone'
  BY <1>2, <1>4 DEF Alone
<1>6. \A s \in Request : DepthStands(s)'
  BY <1>1, <1>2, <1>4 DEF DepthStands, Beneath
<1>7. Shut(live, parent, drift)' /\ (\A c \in live \ drift : depth[c] = Beneath(parent[c]))'
  BY <1>1 DEF DepthsStand, Beneath
<1> QED
  BY <1>4, <1>5, <1>6, <1>7 DEF DepthsStand

LEMMA ActsAlone ==
    ASSUME TreeTyped, DepthsStand, NEW r \in Request, req[r].pc # "idle",
           NEW l, req' = [req EXCEPT ![r] = l], DepthStands(r)',
           Shut(live, parent, drift)', (\A c \in live \ drift : depth[c] = Beneath(parent[c]))'
    PROVE  DepthsStand' /\ req'[r] = l /\ \A s \in Request : s # r => req'[s].pc = "idle"
<1>1. req'[r] = l /\ \A s \in Request : s # r => req'[s] = req[s]
  BY DEF TreeTyped
<1>2. \A s \in Request : s # r => req'[s].pc = "idle"
  BY <1>1 DEF DepthsStand, Alone
<1>3. Alone'
  BY <1>2 DEF Alone
<1>4. \A s \in Request : s # r => DepthStands(s)'
  BY <1>2 DEF DepthStands
<1> QED
  BY <1>1, <1>2, <1>3, <1>4 DEF DepthsStand

(* Re-basing the pages under R, where they hang under q and all but they are as they are.   *)
LEMMA RebaseRepairs ==
    ASSUME TreeSizes, TreeTyped, DepthsStand, NEW R, R \subseteq live,
           NEW q \in live \cup {NoPage}, \A c \in R : parent[c] = q,
           q \notin Kin(live, parent, R),
           NEW b, NEW base \in Nat, b \notin drift => base = Beneath(q),
           q \in drift => b \in drift,
           Kin(live, parent, R) \subseteq drift,
           live' = live, parent' = parent,
           depth' = Rebased(R, base),
           drift' = IF b \in drift THEN drift ELSE drift \ Kin(live, parent, R)
    PROVE  /\ Shut(live, parent, drift)'
           /\ (\A c \in live \ drift : depth[c] = Beneath(parent[c]))'
<1> DEFINE K == Kin(live, parent, R)
<1>1. /\ live \in SUBSET Page /\ NoPage \notin live /\ parent \in [Page -> live \cup {NoPage}]
      /\ Shut(live, parent, drift) /\ \A c \in live \ drift : depth[c] = Beneath(parent[c])
  BY Woods DEF TreeTyped, DepthsStand
<1>2. K \subseteq live /\ R \subseteq K /\ Shut(live, parent, K)
  BY <1>1, KinShut
<1>3. \A c \in K : c \notin R => /\ parent[c] \in K
                                 /\ Far(live, parent, R, c) = Far(live, parent, R, parent[c]) + 1
  BY <1>1, FarIs
<1>4. \A c \in K : Far(live, parent, R, c) \in Nat /\ (c \in R => Far(live, parent, R, c) = 0)
  <2>1. Size \in Nat
    BY SizeIs
  <2> QED
    BY <1>1, <2>1, FarIs
<1>5. /\ \A c \in K : depth'[c] = base + Far(live, parent, R, c)
      /\ \A c \in Page \ K : depth'[c] = depth[c]
  BY RebasedIs
<1> HIDE DEF K
<1>6. Shut(live, parent, drift')
  <2>1. CASE b \in drift
    BY <1>1, <2>1 DEF K
  <2>2. CASE b \notin drift
    <3> SUFFICES ASSUME NEW c \in live, parent[c] \in drift \ K PROVE c \in drift \ K
      BY <2>2 DEF Shut, K
    <3>1. c \in drift
      BY <1>1 DEF Shut
    <3>2. c \in K => c \in R
      BY <1>3
    <3>3. c \notin R
      BY <2>2
    <3> QED
      BY <3>1, <3>2, <3>3
  <2> QED
    BY <2>1, <2>2
<1>7. ASSUME NEW c \in live, c \notin drift'
      PROVE  depth'[c] = IF parent[c] = NoPage THEN 0 ELSE depth'[parent[c]] + 1
  <2>1. c \in Page /\ parent[c] \in live \cup {NoPage}
    BY <1>1
  <2>2. CASE c \in K
    <3>1. b \notin drift
      BY <1>7, <2>2 DEF K
    <3>2. CASE c \in R
      <4>1. parent[c] = q /\ depth'[c] = base
        BY <1>4, <1>5, <2>2, <3>2
      <4>2. q \in live => depth'[q] = depth[q]
        BY <1>1, <1>5 DEF K
      <4> QED
        BY <1>1, <2>1, <3>1, <4>1, <4>2 DEF Beneath
    <3>3. CASE c \notin R
      <4>1. parent[c] \in K /\ parent[c] # NoPage
        BY <1>1, <1>2, <1>3, <2>2, <3>3
      <4>2. depth'[c] = base + Far(live, parent, R, c)
            /\ depth'[parent[c]] = base + Far(live, parent, R, parent[c])
        BY <1>5, <2>2, <4>1
      <4>3. Far(live, parent, R, c) = Far(live, parent, R, parent[c]) + 1
            /\ Far(live, parent, R, parent[c]) \in Nat
        BY <1>3, <1>4, <2>2, <3>3, <4>1
      <4> QED
        BY <4>1, <4>2, <4>3
    <3> QED
      BY <3>2, <3>3
  <2>3. CASE c \notin K
    <3>1. parent[c] \notin K
      BY <1>2, <2>3 DEF Shut
    <3>2. c \notin drift
      BY <1>7, <2>3 DEF K
    <3>3. depth'[c] = depth[c] /\ (parent[c] # NoPage => depth'[parent[c]] = depth[parent[c]])
      BY <1>1, <1>5, <2>1, <2>3, <3>1
    <3> QED
      BY <1>1, <3>2, <3>3 DEF Beneath
  <2> QED
    BY <2>2, <2>3
<1> QED
  BY <1>6, <1>7 DEF Beneath

(* Under the page deleted: what is moved is no longer under it, nor is the page beneath it. *)
LEMMA MovedApart ==
    ASSUME TreeSizes, NEW L \in SUBSET Page, NEW P, Grounded(L, P), NEW p \in L
    PROVE  p \notin Kin(L, P, {x \in L : P[x] = p}) /\ P[p] \notin Kin(L, P, {x \in L : P[x] = p})
<1> DEFINE M == {x \in L : P[x] = p}
           K == Kin(L, P, {p})
<1>1. P[p] \notin K /\ p \in K /\ Shut(L, P, K)
  BY NoRing, KinShut
<1> HIDE DEF K
<1>2. Shut(L, P, K \ {p}) /\ M \subseteq K \ {p}
  BY <1>1 DEF Shut
<1>3. Kin(L, P, M) \subseteq K \ {p}
  <2> HIDE DEF M
  <2> QED
    BY <1>2, KinLeast
<1> QED
  BY <1>1, <1>3

LEMMA DepthStep ==
    ASSUME TreeSizes, TreeTyped, ForestStands, DepthsStand, Next, overlap' = {}
    PROVE  DepthsStand'
<1>0. \A R : Subtree(R) = Kin(live, parent, R)
  BY Queries
<1>1. /\ live \in SUBSET Page /\ NoPage \notin live /\ Grounded(live, parent)
      /\ parent \in [Page -> live \cup {NoPage}] /\ depth \in [Page -> Nat]
      /\ req \in [Request -> LocalsType] /\ drift \subseteq live
      /\ Shut(live, parent, drift) /\ \A c \in live \ drift : depth[c] = Beneath(parent[c])
  BY Woods DEF ForestStands, TreeTyped, DepthsStand
<1> SUFFICES ASSUME NEW r \in Request,
                    \/ \E q \in Link : CreateLookup(r, q)
                    \/ CreateInsert(r)
                    \/ \E p, q \in Page : MoveCheck(r, p, q)
                    \/ \E p \in Page : Unparent(r, p)
                    \/ MoveHeight(r) \/ MoveWrite(r) \/ MoveRebase(r)
                    \/ \E p \in Page : DeleteLookup(r, p)
                    \/ DeleteReparent(r) \/ DeleteRebase(r) \/ DeleteRow(r)
                    \/ RequestEnds(r)
             PROVE  DepthsStand'
  BY DEF Next
<1>2. DepthStands(r) /\ LinkStands(r) /\ req[r] \in LocalsType
  BY <1>1 DEF DepthsStand, ForestStands
\* A request that only ends.
<1>3. ASSUME req[r].pc # "idle", Finish(r), Shut(live, parent, drift)',
             (\A c \in live \ drift : depth[c] = Beneath(parent[c]))'
      PROVE  DepthsStand'
  <2>1. req' = [req EXCEPT ![r] = Idle] /\ req'[r] = Idle
    BY <1>1, <1>3 DEF Finish
  <2>2. DepthStands(r)'
    BY <2>1 DEF DepthStands, Idle
  <2> QED
    BY <1>3, <2>1, <2>2, ActsAlone
<1>4. ASSUME live' = live, parent' = parent, depth' = depth, drift' = drift
      PROVE  Shut(live, parent, drift)' /\ (\A c \in live \ drift : depth[c] = Beneath(parent[c]))'
  BY <1>1, <1>4 DEF Beneath
<1>5. ASSUME NEW q \in Link, CreateLookup(r, q) PROVE DepthsStand'
  <2>1. CASE q = NoPage /\ Begin(r, "create", [Idle EXCEPT !.pc = "insert"])
    <3> DEFINE l == [Idle EXCEPT !.pc = "insert"]
    <3>1. /\ l \in LocalsType /\ l.pc = "insert" /\ l.parent = NoPage /\ l.depth = 0
          /\ l.depth = Beneath(l.parent)
      BY DEF Idle, LocalsType, Link, Beneath
    <3> HIDE DEF l
    <3>2. Begin(r, "create", l)
      BY <2>1 DEF l
    <3> QED
      BY <1>5, <3>1, <3>2, BeginsAlone
  <2>2. CASE q \in live /\ Begin(r, "create", [Idle EXCEPT !.pc = "insert", !.parent = q,
                                                           !.depth = depth[q] + 1])
    <3> DEFINE l == [Idle EXCEPT !.pc = "insert", !.parent = q, !.depth = depth[q] + 1]
    <3>1. depth[q] + 1 \in Nat /\ q # NoPage
      BY <1>1, <2>2
    <3>2. /\ l \in LocalsType /\ l.pc = "insert" /\ l.parent = q /\ l.depth = depth[q] + 1
          /\ l.depth = Beneath(l.parent)
      BY <3>1 DEF Idle, LocalsType, Link, Beneath
    <3> HIDE DEF l
    <3>3. Begin(r, "create", l)
      BY <2>2 DEF l
    <3> QED
      BY <2>2, <3>2, <3>3, BeginsAlone
  <2> QED
    BY <1>5, <2>1, <2>2 DEF CreateLookup
<1>6. CASE CreateInsert(r)
  <2>1. Finish(r) /\ req[r].pc = "insert"
    BY <1>6 DEF CreateInsert
  <2>2. CASE UNCHANGED <<rows, drift>>
    BY <1>3, <1>4, <2>1, <2>2 DEF rows
  <2> DEFINE q == req[r].parent
  <2>3. ASSUME NEW p \in Page \ born, live' = live \cup {p},
               parent' = [parent EXCEPT ![p] = q],
               depth' = [depth EXCEPT ![p] = req[r].depth],
               drift' = IF q \in drift THEN drift \cup {p} ELSE drift
        PROVE  DepthsStand'
    <3>1. q \in live \cup {NoPage} /\ req[r].depth = Beneath(q)
      BY <1>2, <2>1 DEF DepthStands
    <3>2. p \notin live /\ p # NoPage /\ p # q
      BY <1>1, <2>3, <3>1, SizeIs DEF TreeTyped
    <3>3. parent'[p] = q /\ \A c \in live : parent'[c] = parent[c] /\ parent[c] # p
      BY <1>1, <2>3, <3>2
    <3>4. depth'[p] = req[r].depth /\ \A c \in live : depth'[c] = depth[c]
      BY <1>1, <2>3, <3>2
    <3> HIDE DEF q
    <3>5. Shut(live', parent', drift')
      BY <1>1, <2>3, <3>2, <3>3 DEF Shut
    <3>6. ASSUME NEW c \in live', c \notin drift'
          PROVE  depth'[c] = IF parent'[c] = NoPage THEN 0 ELSE depth'[parent'[c]] + 1
      <4>1. CASE c = p
        BY <3>1, <3>3, <3>4, <4>1 DEF Beneath
      <4>2. CASE c # p
        <5>1. c \in live /\ c \notin drift
          BY <2>3, <3>6, <4>2
        <5>2. parent[c] \in live \cup {NoPage}
          BY <1>1, <5>1
        <5> QED
          BY <1>1, <3>3, <3>4, <5>1, <5>2 DEF Beneath
      <4> QED
        BY <4>1, <4>2
    <3>7. (\A c \in live \ drift : depth[c] = Beneath(parent[c]))'
      BY <3>6 DEF Beneath
    <3> QED
      BY <1>3, <2>1, <3>5, <3>7
  <2> QED
    BY <1>6, <2>2, <2>3 DEF CreateInsert
<1>7. ASSUME NEW p \in Page, NEW q \in Page, MoveCheck(r, p, q) PROVE DepthsStand'
  <2> DEFINE l == [Idle EXCEPT !.pc = "height", !.page = p, !.parent = q]
  <2>1. l \in LocalsType /\ l.pc = "height"
    BY DEF Idle, LocalsType, Link
  <2>2. Begin(r, "link", l)
    BY <1>7 DEF MoveCheck
  <2> HIDE DEF l
  <2> QED
    BY <2>1, <2>2, BeginsAlone
<1>8. ASSUME NEW p \in Page, Unparent(r, p) PROVE DepthsStand'
  <2> DEFINE l == [Idle EXCEPT !.pc = "link", !.page = p]
  <2>1. /\ l \in LocalsType /\ l.pc = "link" /\ l.parent = NoPage
        /\ l.depth = Beneath(l.parent)
    BY DEF Idle, LocalsType, Link, Beneath
  <2>2. Begin(r, "link", l)
    BY <1>8 DEF Unparent
  <2> HIDE DEF l
  <2> QED
    BY <2>1, <2>2, BeginsAlone
<1>9. CASE MoveHeight(r)
  <2>1. /\ live' = live /\ parent' = parent /\ depth' = depth /\ drift' = drift
        /\ req[r].pc = "height"
    BY <1>9 DEF MoveHeight, rows
  <2>2. CASE /\ req[r].parent \in live
             /\ req' = [req EXCEPT ![r].pc = "link", ![r].depth = depth[req[r].parent] + 1]
    <3>1. PICK l : l = [req[r] EXCEPT !.pc = "link", !.depth = depth[req[r].parent] + 1]
      OBVIOUS
    <3>2. req' = [req EXCEPT ![r] = l]
      BY <2>2, <3>1
    <3>3. /\ l.pc = "link" /\ l.parent = req[r].parent
          /\ l.depth = depth[req[r].parent] + 1
      BY <1>2, <3>1 DEF LocalsType
    <3>4. req'[r] = l /\ req[r].parent # NoPage
      BY <1>1, <2>2, <3>2
    <3>5. /\ req'[r].pc = "link" /\ req'[r].parent \in live' /\ req'[r].parent # NoPage
          /\ req'[r].depth = depth'[req'[r].parent] + 1
      BY <2>1, <2>2, <3>3, <3>4
    <3>6. DepthStands(r)'
      BY <3>5 DEF DepthStands, Beneath
    <3> QED
      BY <1>4, <2>1, <3>2, <3>6, ActsAlone
  <2> QED
    BY <1>3, <1>4, <1>9, <2>1, <2>2 DEF MoveHeight
<1>10. CASE MoveWrite(r)
  <2> DEFINE p == req[r].page
             q == req[r].parent
             K == Kin(live, parent, {p})
  <2>1. live' = live /\ depth' = depth /\ req[r].pc = "link"
    BY <1>10 DEF MoveWrite
  <2>2. CASE Finish(r) /\ UNCHANGED <<parent, drift>>
    BY <1>3, <1>4, <2>1, <2>2
  <2>3. CASE /\ p \in live /\ parent' = [parent EXCEPT ![p] = q]
             /\ drift' = drift \cup Subtree({p}) /\ Goto(r, "linkDepths")
    <3>1. PICK l : l = [req[r] EXCEPT !.pc = "linkDepths"]
      OBVIOUS
    <3>2. req' = [req EXCEPT ![r] = l] /\ req'[r] = l
      BY <1>1, <2>3, <3>1 DEF Goto
    <3>3. l.pc = "linkDepths" /\ l.page = p /\ l.parent = q /\ l.depth = req[r].depth
      BY <1>2, <3>1 DEF LocalsType
    <3>4. q \in live \cup {NoPage} /\ req[r].depth = Beneath(q) /\ q \notin K
      BY <1>2, <2>1 DEF DepthStands, LinkStands
    <3> HIDE DEF p, q
    <3>5. parent'[p] = q /\ \A c \in live : c # p => parent'[c] = parent[c]
      BY <1>1, <2>3
    <3>6. p \in K /\ Shut(live, parent, K)
      BY <1>1, <2>3, KinShut
    <3>7. Kin(live, parent', {p}) = K
      BY <1>1, <3>5, KinOnly
    <3>8. drift' = drift \cup K
      BY <1>0, <2>3
    <3> HIDE DEF K
    <3>9. Shut(live, parent, drift)'
      BY <1>1, <2>1, <3>5, <3>6, <3>8 DEF Shut
    <3>10. (\A c \in live \ drift : depth[c] = Beneath(parent[c]))'
      BY <1>1, <2>1, <3>5, <3>6, <3>8 DEF Beneath
    <3>11. DepthStands(r)'
      BY <2>1, <3>2, <3>3, <3>4, <3>5, <3>7, <3>8 DEF DepthStands, Beneath
    <3> QED
      BY <2>1, <3>2, <3>9, <3>10, <3>11, ActsAlone
  <2> QED
    BY <1>10, <2>2, <2>3 DEF MoveWrite
<1>11. CASE MoveRebase(r)
  <2> DEFINE p == req[r].page
             q == req[r].parent
             base == req[r].depth
  <2>1. req[r].pc = "linkDepths" /\ live' = live /\ parent' = parent /\ Finish(r)
    BY <1>11 DEF MoveRebase
  <2>2. /\ p \in live /\ q \in live \cup {NoPage} /\ parent[p] = q /\ base = Beneath(q)
        /\ base \in Nat /\ Kin(live, parent, {p}) \subseteq drift
        /\ q \notin Kin(live, parent, {p})
    BY <1>2, <2>1 DEF DepthStands, LinkStands, LinkPc, LocalsType
  <2>3. /\ depth' = Rebased({p}, base)
        /\ drift' = IF q \in drift THEN drift ELSE drift \ Kin(live, parent, {p})
    BY <1>0, <1>11 DEF MoveRebase
  <2> HIDE DEF p, q, base
  <2>4. {p} \subseteq live /\ \A c \in {p} : parent[c] = q
    BY <2>2
  <2>5. /\ Shut(live, parent, drift)'
        /\ (\A c \in live \ drift : depth[c] = Beneath(parent[c]))'
    BY <2>1, <2>2, <2>3, <2>4, RebaseRepairs
  <2> QED
    BY <1>3, <2>1, <2>5
<1>12. ASSUME NEW p \in Page, DeleteLookup(r, p) PROVE DepthsStand'
  <2> DEFINE l == [Idle EXCEPT !.pc = "reparent", !.page = p, !.parent = parent[p],
                               !.depth = depth[p]]
  <2>1. parent[p] \in Link /\ depth[p] \in Nat
    BY <1>1 DEF Link
  <2>2. l \in LocalsType /\ l.pc = "reparent" /\ l.page = p /\ l.depth = depth[p]
    BY <2>1 DEF Idle, LocalsType, Link
  <2>3. Begin(r, "link", l)
    BY <1>12 DEF DeleteLookup
  <2> HIDE DEF l
  <2>4. l.depth = depth[l.page]
    BY <2>2
  <2> QED
    BY <2>2, <2>3, <2>4, BeginsAlone
<1>13. CASE DeleteReparent(r)
  <2> DEFINE p == req[r].page
             q == req[r].parent
             moved == Children(p)
             K == Kin(live, parent, moved)
  <2>1. live' = live /\ depth' = depth /\ req[r].pc = "reparent"
    BY <1>13 DEF DeleteReparent
  <2>2. CASE Finish(r) /\ UNCHANGED <<parent, drift>>
    BY <1>3, <1>4, <2>1, <2>2
  <2>3. CASE /\ parent' = [c \in Page |-> IF c \in moved THEN q ELSE parent[c]]
             /\ drift' = drift \cup Subtree(moved)
             /\ req' = [req EXCEPT ![r].pc = "childDepths", ![r].moved = moved]
    <3>1. PICK l : l = [req[r] EXCEPT !.pc = "childDepths", !.moved = moved]
      OBVIOUS
    <3>2. req' = [req EXCEPT ![r] = l]
      BY <2>3, <3>1
    <3>3. req'[r] = l
      BY <1>1, <3>2
    <3>4. l.pc = "childDepths" /\ l.page = p /\ l.depth = req[r].depth /\ l.moved = moved
      BY <1>2, <3>1 DEF LocalsType
    <3>5. p \in live /\ q = parent[p] /\ req[r].depth = depth[p]
      BY <1>2, <2>1 DEF DepthStands, LinkStands, LinkPc
    <3> HIDE DEF p, q
    <3>6. moved = {x \in live : parent[x] = p}
      BY DEF Children
    <3>7. p \notin K /\ q \notin K
      BY <1>1, <3>5, <3>6, MovedApart
    <3>8. moved \subseteq K /\ Shut(live, parent, K)
      BY <1>1, <3>6, KinShut
    <3> HIDE DEF moved
    <3>9. \A c \in live : parent'[c] = IF c \in moved THEN q ELSE parent[c]
      BY <1>1, <2>3
    <3>10. Kin(live, parent', moved) = K
      BY <1>1, <3>9, KinOnly
    <3>11. drift' = drift \cup K
      BY <1>0, <2>3
    <3> HIDE DEF K
    <3>12. p \notin moved /\ q # p
      BY <3>5, <3>6, <3>7, <3>8
    <3>13. Shut(live, parent, drift)'
      BY <1>1, <2>1, <3>8, <3>9, <3>11 DEF Shut
    <3>14. (\A c \in live \ drift : depth[c] = Beneath(parent[c]))'
      BY <1>1, <2>1, <3>8, <3>9, <3>11 DEF Beneath
    <3>15. \A c \in live : parent'[c] # p
      BY <3>6, <3>9, <3>12
    <3>16. parent'[p] = q /\ moved \subseteq live /\ \A c \in moved : parent'[c] = q
      BY <3>5, <3>6, <3>9, <3>12
    <3>17. /\ req'[r].pc = "childDepths" /\ req'[r].page = p /\ req'[r].depth = depth'[p]
           /\ req'[r].moved = moved
      BY <2>1, <3>3, <3>4, <3>5
    <3>18. Children(req[r].page)' = {}
      BY <2>1, <3>15, <3>17 DEF Children
    <3>19. Kin(live', parent', req'[r].moved) = K /\ K \subseteq drift'
      BY <2>1, <3>10, <3>11, <3>17
    <3>20. DepthStands(r)'
      BY <2>1, <3>7, <3>16, <3>17, <3>18, <3>19 DEF DepthStands
    <3> QED
      BY <2>1, <3>2, <3>13, <3>14, <3>20, ActsAlone
  <2> QED
    BY <1>13, <2>2, <2>3 DEF DeleteReparent
<1>14. CASE DeleteRebase(r)
  <2> DEFINE p == req[r].page
             q == parent[p]
             R == req[r].moved
             base == req[r].depth
  <2>1. req[r].pc = "childDepths" /\ live' = live /\ parent' = parent /\ Goto(r, "remove")
    BY <1>14 DEF DeleteRebase
  <2>2. /\ p \in live /\ base = depth[p] /\ base \in Nat /\ R \subseteq live
        /\ \A c \in R : parent[c] = q
        /\ Kin(live, parent, R) \subseteq drift /\ q \notin Kin(live, parent, R)
        /\ Children(p) = {}
    BY <1>2, <2>1 DEF DepthStands, LinkStands, LinkPc, LocalsType
  <2>3. /\ depth' = Rebased(R, base)
        /\ drift' = IF p \in drift THEN drift ELSE drift \ Kin(live, parent, R)
    BY <1>0, <1>14 DEF DeleteRebase
  <2>4. PICK l : l = [req[r] EXCEPT !.pc = "remove"]
    OBVIOUS
  <2>5. req' = [req EXCEPT ![r] = l] /\ req'[r] = l
    BY <1>1, <2>1, <2>4 DEF Goto
  <2>6. l.pc = "remove" /\ l.page = p
    BY <1>2, <2>4 DEF LocalsType
  <2>7. /\ q \in live \cup {NoPage} /\ (p \notin drift => base = Beneath(q))
        /\ (q \in drift => p \in drift)
    BY <1>1, <2>2 DEF Shut
  <2> HIDE DEF p, q, R, base
  <2>8. /\ Shut(live, parent, drift)'
        /\ (\A c \in live \ drift : depth[c] = Beneath(parent[c]))'
    BY <2>1, <2>2, <2>3, <2>7, RebaseRepairs
  <2>9. DepthStands(r)'
    BY <2>1, <2>2, <2>5, <2>6 DEF DepthStands, Children
  <2> QED
    BY <2>1, <2>5, <2>8, <2>9, ActsAlone
<1>15. CASE DeleteRow(r)
  <2> DEFINE p == req[r].page
  <2>1. req[r].pc = "remove" /\ Finish(r) /\ live' = live \ {p} /\ Children(p) = {}
    BY <1>2, <1>15 DEF DeleteRow, DepthStands
  <2>2. /\ parent' = [c \in Page |-> IF c = p THEN NoPage ELSE parent[c]]
        /\ depth' = [depth EXCEPT ![p] = 0]
    BY <1>15, <2>1 DEF DeleteRow, RemainingLinks
  <2>3. Kin(live, parent, {}) = {}
    <3>1. Kin(live, parent, {}) \subseteq {}
      <4>1. Shut(live, parent, {})
        BY DEF Shut
      <4> QED
        BY <4>1, KinLeast
    <3> QED
      BY <3>1
  <2>4. drift' = drift \ {p}
    BY <1>0, <1>15, <2>1, <2>3 DEF DeleteRow
  <2> HIDE DEF p
  <2>5. \A c \in live' : c # p /\ parent[c] # p /\ parent'[c] = parent[c] /\ depth'[c] = depth[c]
    BY <1>1, <2>1, <2>2 DEF Children
  <2>6. Shut(live, parent, drift)'
    BY <1>1, <2>1, <2>4, <2>5 DEF Shut
  <2>7. ASSUME NEW c \in live', c \notin drift'
        PROVE  depth'[c] = IF parent'[c] = NoPage THEN 0 ELSE depth'[parent'[c]] + 1
    <3>1. c \in live \ drift /\ parent[c] \in live' \cup {NoPage}
      BY <1>1, <2>1, <2>4, <2>5, <2>7
    <3> QED
      BY <1>1, <2>5, <3>1 DEF Beneath
  <2>8. (\A c \in live \ drift : depth[c] = Beneath(parent[c]))'
    BY <2>7 DEF Beneath
  <2> QED
    BY <1>3, <2>1, <2>6, <2>8
<1>16. CASE RequestEnds(r)
  BY <1>3, <1>4, <1>16 DEF RequestEnds, rows
<1> QED
  BY <1>5, <1>6, <1>7, <1>8, <1>9, <1>10, <1>11, <1>12, <1>13, <1>14, <1>15, <1>16

(* Where the column says a page is, is where it is. *)
LEMMA DepthsTell ==
    ASSUME TreeSizes, TreeTyped, Grounded(live, parent), DepthsStand
    PROVE  \A x \in live \ drift : depth[x] = Far(live, parent, Tops(live, parent), x)
<1> DEFINE S == drift \cup {x \in live : depth[x] = Far(live, parent, Tops(live, parent), x)}
<1>1. /\ Wood(live, parent) /\ NoPage \notin live
      /\ Shut(live, parent, drift) /\ \A c \in live \ drift : depth[c] = Beneath(parent[c])
  BY Woods DEF DepthsStand
<1>2. Tops(live, parent) \subseteq S
  <2> SUFFICES ASSUME NEW x \in live, parent[x] = NoPage, x \notin drift PROVE x \in S
    BY DEF Tops
  <2> QED
    BY <1>1, DepthIs DEF Beneath
<1>3. Shut(live, parent, S)
  <2> SUFFICES ASSUME NEW c \in live, parent[c] \in S, c \notin drift PROVE c \in S
    BY DEF Shut
  <2>1. parent[c] \notin drift /\ parent[c] # NoPage
    BY <1>1 DEF Shut, TreeTyped
  <2>2. depth[parent[c]] = Far(live, parent, Tops(live, parent), parent[c])
        /\ depth[c] = depth[parent[c]] + 1
    BY <1>1, <2>1 DEF Beneath
  <2>3. Far(live, parent, Tops(live, parent), c)
        = Far(live, parent, Tops(live, parent), parent[c]) + 1
    BY <1>1, <2>1, DepthIs
  <2> QED
    BY <2>2, <2>3
<1>4. live \subseteq S
  <2> HIDE DEF S
  <2> QED
    BY <1>2, <1>3, FromTops
<1> QED
  BY <1>4

-----------------------------------------------------------------------------
(* The cap holds.                                                           *)

LEMMA MaxIs ==
    ASSUME NEW k \in Nat, NEW S \in SUBSET (0..k), S # {}
    PROVE  Max(S) \in S /\ \A y \in S : y <= Max(S)
<1> DEFINE T == {n \in 0..k : \A y \in S : y <= n}
<1>1. T \in SUBSET Nat /\ k \in T
  OBVIOUS
<1>2. PICK n \in T : \A m \in T : n <= m
  <2> HIDE DEF T
  <2> QED
    BY <1>1, LeastOne
<1>3. n \in S
  <2> SUFFICES ASSUME n \notin S PROVE FALSE
    OBVIOUS
  <2>1. \A y \in S : y <= n - 1
    BY <1>2
  <2>2. n - 1 \in 0..k
    <3>1. PICK y \in S : y <= n - 1
      BY <2>1
    <3>2. y \in 0..k /\ n \in 0..k
      BY <3>1
    <3> QED
      BY <3>1, <3>2
  <2>3. n - 1 \in T
    BY <2>1, <2>2
  <2> QED
    BY <1>2, <2>3
<1>4. \A y \in S : n >= y
  BY <1>2
<1>5. Max(S) \in S /\ \A y \in S : Max(S) >= y
  BY <1>3, <1>4, Zenon DEF Max
<1> QED
  BY <1>5

(* The height of a page is no less than how far any page beneath it is. *)
LEMMA HeightIs ==
    ASSUME TreeSizes, TreeTyped, NEW p \in live
    PROVE  /\ Height(p) \in Nat
           /\ \A x \in Kin(live, parent, {p}) : Far(live, parent, {p}, x) <= Height(p)
<1> DEFINE S == {Far(live, parent, {p}, c) : c \in Kin(live, parent, {p})}
                \cup {Far(live, parent, {p}, c) + 1 :
                         c \in Kin(live, parent, {p}) \cap {parent[p]}}
<1>1. Height(p) = Max(S)
  BY Queries DEF Height
<1>2. live \in SUBSET Page /\ Size \in Nat
  BY Woods, SizeIs
<1>3. \A c \in Kin(live, parent, {p}) : Far(live, parent, {p}, c) \in 0..Size
  BY <1>2, FarIs
<1>4. S \in SUBSET (0..Size + 1)
  <2>1. \A n \in 0..Size : n \in 0..Size + 1 /\ n + 1 \in 0..Size + 1
    BY <1>2
  <2> QED
    BY <1>3, <2>1
<1>5. p \in Kin(live, parent, {p})
  BY <1>2, KinShut
<1>6. S # {} /\ \A x \in Kin(live, parent, {p}) : Far(live, parent, {p}, x) \in S
  BY <1>5
<1>7. Size + 1 \in Nat
  BY <1>2
<1> HIDE DEF S
<1>8. Max(S) \in S /\ \A y \in S : y <= Max(S)
  BY <1>4, <1>6, <1>7, MaxIs
<1>9. Max(S) \in Nat
  <2>1. \A n \in 0..Size + 1 : n \in Nat
    BY <1>7
  <2>2. \A n \in S : n \in 0..Size + 1
    BY <1>4
  <2> QED
    BY <1>8, <2>1, <2>2
<1> QED
  BY <1>1, <1>6, <1>8, <1>9

(* A page beneath p is as much deeper than p as it is far from it. *)
LEMMA Under ==
    ASSUME TreeSizes, NEW L, NEW P, Wood(L, P), Grounded(L, P), NEW p \in L
    PROVE  \A x \in Kin(L, P, {p}) : Far(L, P, Tops(L, P), x)
                                     = Far(L, P, Tops(L, P), p) + Far(L, P, {p}, x)
<1> DEFINE D(x) == Far(L, P, Tops(L, P), x)
           K == Kin(L, P, {p})
           S == {x \in K : D(x) = D(p) + Far(L, P, {p}, x)}
<1>1. L \in SUBSET Page /\ NoPage \notin L /\ P \in [Page -> L \cup {NoPage}] /\ Size \in Nat
  BY SizeIs DEF Wood
<1>2. K \subseteq L /\ p \in K /\ Shut(L, P, K)
  BY <1>1, KinShut
<1>3. /\ \A x \in K : Far(L, P, {p}, x) \in Nat
      /\ Far(L, P, {p}, p) = 0
      /\ \A x \in K : x # p => Far(L, P, {p}, x) = Far(L, P, {p}, P[x]) + 1
  BY <1>1, <1>2, FarIs
<1>4. /\ \A x \in L : D(x) \in Nat
      /\ \A x \in L : P[x] # NoPage => D(x) = D(P[x]) + 1
  BY DepthIs
<1> HIDE DEF D, K
<1>5. p \in S
  BY <1>2, <1>3, <1>4
<1>6. Shut(L, P, S)
  <2> SUFFICES ASSUME NEW c \in L, P[c] \in S PROVE c \in S
    BY DEF Shut
  <2>1. c \in K /\ P[c] \in K /\ P[c] # NoPage
    BY <1>1, <1>2 DEF Shut
  <2>2. CASE c = p
    BY <1>5, <2>2
  <2>3. CASE c # p
    <3>1. D(c) = D(P[c]) + 1 /\ D(P[c]) = D(p) + Far(L, P, {p}, P[c])
      BY <1>4, <2>1
    <3>2. /\ Far(L, P, {p}, c) = Far(L, P, {p}, P[c]) + 1
          /\ Far(L, P, {p}, P[c]) \in Nat /\ D(p) \in Nat
      BY <1>3, <1>4, <2>1, <2>3
    <3>3. D(c) = D(p) + Far(L, P, {p}, c)
      BY <3>1, <3>2
    <3> QED
      BY <2>1, <3>3
  <2> QED
    BY <2>2, <2>3
<1>7. K \subseteq S
  <2> HIDE DEF S
  <2>1. {p} \cap L \subseteq S
    BY <1>5
  <2> QED
    BY <1>6, <2>1, KinLeast DEF K
<1> QED
  BY <1>7 DEF D, K

(* Where the pages are once p hangs under q, which leaves it at e: those beneath came along. *)
Moved(P, p, q, Q) == Q = [P EXCEPT ![p] = q]

Lands(L, P, q, e) == IF q = NoPage THEN e = 0 ELSE e = Far(L, P, Tops(L, P), q) + 1

LEMMA MoveDepths ==
    ASSUME TreeSizes, NEW L, NEW P, Wood(L, P), Grounded(L, P),
           NEW p \in L, NEW q \in L \cup {NoPage}, q \notin Kin(L, P, {p}),
           NEW Q, Moved(P, p, q, Q), NEW e, Lands(L, P, q, e)
    PROVE  \A x \in L : Far(L, Q, Tops(L, Q), x) =
               IF x \in Kin(L, P, {p}) THEN e + Far(L, P, {p}, x) ELSE Far(L, P, Tops(L, P), x)
<1> DEFINE D(x) == Far(L, P, Tops(L, P), x)
           K == Kin(L, P, {p})
<1>1. L \in SUBSET Page /\ NoPage \notin L /\ P \in [Page -> L \cup {NoPage}] /\ Size \in Nat
  BY SizeIs DEF Wood
<1>2. K \subseteq L /\ p \in K /\ Shut(L, P, K)
  BY <1>1, KinShut
<1>3. /\ \A x \in K : Far(L, P, {p}, x) \in Nat
      /\ Far(L, P, {p}, p) = 0
      /\ \A x \in K : x # p => P[x] \in K /\ Far(L, P, {p}, x) = Far(L, P, {p}, P[x]) + 1
  BY <1>1, <1>2, FarIs
<1>4. /\ \A x \in L : D(x) \in Nat
      /\ \A x \in L : IF P[x] = NoPage THEN D(x) = 0 ELSE P[x] \in L /\ D(x) = D(P[x]) + 1
  BY DepthIs
<1>5. Wood(L, Q) /\ Grounded(L, Q)
  BY <1>1, MoveIsTree DEF Wood, Moved
<1>6. Q[p] = q /\ \A x \in L : x # p => Q[x] = P[x]
  BY <1>1 DEF Moved
<1>7. q \notin K /\ (IF q = NoPage THEN e = 0 ELSE e = D(q) + 1) /\ e \in Nat
  BY <1>4 DEF Lands
<1> HIDE DEF D, K
<1> DEFINE d == [x \in L |-> IF x \in K THEN e + Far(L, P, {p}, x) ELSE D(x)]
<1>8. \A x \in L : d[x] = IF x \in K THEN e + Far(L, P, {p}, x) ELSE D(x)
  OBVIOUS
<1> HIDE DEF d
<1>9. ASSUME NEW x \in L PROVE d[x] = IF Q[x] = NoPage THEN 0 ELSE d[Q[x]] + 1
  <2>1. CASE x = p
    <3>1. d[p] = e /\ Q[p] = q
      <4>1. d[p] = e + Far(L, P, {p}, p)
        BY <1>2, <1>8
      <4>2. e + 0 = e
        BY <1>7
      <4> QED
        BY <1>3, <1>6, <4>1, <4>2
    <3>2. q \in L => d[q] = D(q)
      BY <1>7, <1>8
    <3> QED
      BY <1>7, <2>1, <3>1, <3>2
  <2>2. CASE x \in K /\ x # p
    <3>1. Q[x] = P[x] /\ P[x] \in K /\ P[x] \in L /\ P[x] # NoPage
      BY <1>1, <1>2, <1>3, <1>6, <2>2
    <3>2. d[x] = e + (Far(L, P, {p}, P[x]) + 1) /\ d[P[x]] = e + Far(L, P, {p}, P[x])
      BY <1>3, <1>8, <2>2, <3>1
    <3>3. Far(L, P, {p}, P[x]) \in Nat
      BY <1>3, <3>1
    <3> QED
      BY <1>7, <3>1, <3>2, <3>3
  <2>3. CASE x \notin K
    <3>1. Q[x] = P[x] /\ P[x] \notin K
      BY <1>2, <1>6, <2>3 DEF Shut
    <3> QED
      BY <1>4, <1>8, <2>3, <3>1
  <2> QED
    BY <2>1, <2>2, <2>3
<1>10. \A x \in L : Far(L, Q, Tops(L, Q), x) = d[x]
  <2>1. Levels(L, Q, d)
    BY <1>9 DEF Levels
  <2> QED
    BY <1>5, <2>1, DepthOnly
<1> QED
  BY <1>8, <1>10 DEF D, K

(* Where the pages are once the children of p hang where p does: no deeper than they were.  *)
LEMMA ReparentDepths ==
    ASSUME TreeSizes, NEW L, NEW P, Wood(L, P), Grounded(L, P), NEW p \in L,
           NEW Q, Q = [c \in Page |-> IF c \in {x \in L : P[x] = p} THEN P[p] ELSE P[c]]
    PROVE  \A x \in L : Far(L, Q, Tops(L, Q), x) <= Far(L, P, Tops(L, P), x)
<1> DEFINE D(x) == Far(L, P, Tops(L, P), x)
           M == {x \in L : P[x] = p}
           K == Kin(L, P, M)
<1>1. L \in SUBSET Page /\ NoPage \notin L /\ P \in [Page -> L \cup {NoPage}]
  BY SizeIs DEF Wood
<1>2. K \subseteq L /\ M \subseteq K /\ Shut(L, P, K)
  BY <1>1, KinShut
<1>3. \A x \in K : x \notin M => P[x] \in K
  BY <1>1, FarIs
<1>4. /\ \A x \in L : D(x) \in Nat
      /\ \A x \in L : IF P[x] = NoPage THEN D(x) = 0 ELSE P[x] \in L /\ D(x) = D(P[x]) + 1
  BY DepthIs
<1>5. Wood(L, Q) /\ Grounded(L, Q)
  BY <1>1, ReparentIsTree DEF Wood
<1>6. \A x \in L : Q[x] = IF x \in M THEN P[p] ELSE P[x]
  BY <1>1
<1>7. P[p] \notin K
  BY <1>1, MovedApart
<1>8. \A x \in M : P[x] = p
  OBVIOUS
<1> HIDE DEF D, K, M
<1> DEFINE d == [x \in L |-> IF x \in K THEN D(x) - 1 ELSE D(x)]
<1>9. \A x \in L : d[x] = IF x \in K THEN D(x) - 1 ELSE D(x)
  OBVIOUS
<1> HIDE DEF d
<1>10. ASSUME NEW x \in L PROVE d[x] = IF Q[x] = NoPage THEN 0 ELSE d[Q[x]] + 1
  <2>1. CASE x \in M
    <3>1. D(x) = D(p) + 1 /\ Q[x] = P[p] /\ x \in K /\ p # NoPage
      BY <1>1, <1>2, <1>4, <1>6, <1>8, <2>1
    <3>2. d[x] = D(p)
      BY <1>4, <1>9, <3>1
    <3> QED
      BY <1>4, <1>7, <1>9, <3>1, <3>2
  <2>2. CASE x \in K /\ x \notin M
    <3>1. Q[x] = P[x] /\ P[x] \in K /\ P[x] \in L /\ P[x] # NoPage
      BY <1>1, <1>2, <1>3, <1>6, <2>2
    <3>2. D(x) = D(P[x]) + 1 /\ D(P[x]) \in Nat
      BY <1>4, <3>1
    <3> QED
      BY <1>9, <2>2, <3>1, <3>2
  <2>3. CASE x \notin K
    <3>1. Q[x] = P[x] /\ P[x] \notin K
      BY <1>2, <1>6, <2>3 DEF Shut
    <3> QED
      BY <1>4, <1>9, <2>3, <3>1
  <2> QED
    BY <2>1, <2>2, <2>3
<1>11. \A x \in L : Far(L, Q, Tops(L, Q), x) = d[x]
  <2>1. Levels(L, Q, d)
    BY <1>10 DEF Levels
  <2> QED
    BY <1>5, <2>1, DepthOnly
<1> QED
  BY <1>4, <1>9, <1>11 DEF D

LEMMA CapStep ==
    ASSUME TreeSizes, TreeTyped, TreeTyped', ForestStands, ForestStands', DepthsStand, DepthsStand',
           CapStands, Next, overlap' = {}, ~halved'
    PROVE  CapStands'
<1>0. /\ \A R : Subtree(R) = Kin(live, parent, R)
      /\ \A R, p : Rel(R, p) = Far(live, parent, R, p)
  BY Queries
<1>1. /\ Wood(live, parent) /\ live \in SUBSET Page /\ NoPage \notin live /\ Grounded(live, parent)
      /\ parent \in [Page -> live \cup {NoPage}] /\ depth \in [Page -> Nat]
      /\ req \in [Request -> LocalsType] /\ MaxDepth \in Nat
  BY Woods DEF ForestStands, TreeTyped, TreeSizes
<1> DEFINE D(x) == Far(live, parent, Tops(live, parent), x)
<1>2. \A x \in live : D(x) <= MaxDepth
  BY DEF CapStands
<1>3. /\ \A x \in live : D(x) \in Nat
      /\ \A x \in live : IF parent[x] = NoPage THEN D(x) = 0
                         ELSE parent[x] \in live /\ D(x) = D(parent[x]) + 1
  BY <1>1, DepthIs
<1>4. \A x \in live \ drift : depth[x] = D(x)
  BY <1>1, DepthsTell
<1> HIDE DEF D
<1> SUFFICES ASSUME NEW r \in Request,
                    \/ \E q \in Link : CreateLookup(r, q)
                    \/ CreateInsert(r)
                    \/ \E p, q \in Page : MoveCheck(r, p, q)
                    \/ \E p \in Page : Unparent(r, p)
                    \/ MoveHeight(r) \/ MoveWrite(r) \/ MoveRebase(r)
                    \/ \E p \in Page : DeleteLookup(r, p)
                    \/ DeleteReparent(r) \/ DeleteRebase(r) \/ DeleteRow(r)
                    \/ RequestEnds(r)
             PROVE  CapStands'
  BY DEF Next
<1>5. DepthStands(r) /\ LinkStands(r) /\ CapLocal(r) /\ req[r] \in LocalsType
  BY <1>1 DEF DepthsStand, ForestStands, CapStands
\* Only one request is at work, so that at every other step nothing has drifted.
<1>6. ASSUME req[r].pc # "idle" \/ req'[r].pc # "idle",
             req' = [req EXCEPT ![r] = req'[r]]
      PROVE  \A s \in Request :
                 s # r => req'[s].pc = "idle" \/ (req'[s] = req[s] /\ req[s].pc = "idle")
  <2>1. \A s \in Request : s # r => req'[s] = req[s]
    BY <1>1, <1>6
  <2>2. \A s \in Request : s # r => req[s].pc = "idle" \/ req'[s].pc = "idle"
    BY <1>6, <2>1 DEF DepthsStand, Alone
  <2> QED
    BY <2>1, <2>2
<1>7. req[r].pc \notin {"linkDepths", "childDepths"} /\ req[r].pc # "idle" => drift = {}
  <2> SUFFICES ASSUME req[r].pc \notin {"linkDepths", "childDepths"}, req[r].pc # "idle"
               PROVE  drift = {}
    OBVIOUS
  <2>1. \A s \in Request : s # r => req[s].pc = "idle"
    BY DEF DepthsStand, Alone
  <2> QED
    BY <2>1 DEF CapStands
\* What is left to show of a step of r.
<1>8. ASSUME NEW l, req' = [req EXCEPT ![r] = l], l.pc # "idle" \/ req[r].pc # "idle",
             \A x \in live' : Far(live', parent', Tops(live', parent'), x) <= MaxDepth,
             l.pc \notin {"linkDepths", "childDepths"} => drift' = {}, CapLocal(r)'
      PROVE  CapStands'
  <2>1. req'[r] = l
    BY <1>1, <1>8
  <2>2. \A s \in Request : s # r => req'[s].pc = "idle"
    BY <1>6, <1>8, <2>1
  <2>3. \A s \in Request : s # r => CapLocal(s)'
    BY <2>2 DEF CapLocal
  <2> QED
    BY <1>8, <2>1, <2>3 DEF CapStands
<1>9. ASSUME NEW l \in LocalsType, NEW kind, Begin(r, kind, l),
             l.pc \in {"insert", "link", "height", "reparent"},
             l.pc = "insert" => l.depth <= MaxDepth,
             l.pc = "link" => \A x \in Kin(live, parent, {l.page}) :
                                 l.depth + Far(live, parent, {l.page}, x) <= MaxDepth
      PROVE  CapStands'
  <2>1. /\ req' = [req EXCEPT ![r] = l] /\ live' = live /\ parent' = parent /\ drift' = drift
        /\ req[r].pc = "idle"
    BY <1>9 DEF Begin, rows
  <2>2. req'[r] = l
    BY <1>1, <2>1
  <2>3. \A s \in Request : req[s].pc = "idle"
    <3>1. InFlight = {}
      BY <1>9 DEF Begin
    <3> QED
      BY <3>1 DEF InFlight
  <2>4. drift = {}
    BY <2>3 DEF CapStands
  <2>5. CapLocal(r)'
    BY <1>9, <2>1, <2>2 DEF CapLocal
  <2>6. \A x \in live' : Far(live', parent', Tops(live', parent'), x) <= MaxDepth
    BY <1>2, <2>1 DEF D
  <2> QED
    BY <1>8, <1>9, <2>1, <2>4, <2>5, <2>6
\* A request that ends.
<1>10. ASSUME req[r].pc # "idle", Finish(r), drift' = {},
              \A x \in live' : Far(live', parent', Tops(live', parent'), x) <= MaxDepth
       PROVE  CapStands'
  <2>1. req' = [req EXCEPT ![r] = Idle] /\ req'[r] = Idle
    BY <1>1, <1>10 DEF Finish
  <2>2. CapLocal(r)'
    BY <2>1 DEF CapLocal, Idle
  <2> QED
    BY <1>8, <1>10, <2>1, <2>2
<1>11. ASSUME live' = live, parent' = parent
       PROVE  \A x \in live' : Far(live', parent', Tops(live', parent'), x) <= MaxDepth
  BY <1>2, <1>11 DEF D
<1>12. ASSUME NEW q \in Link, CreateLookup(r, q) PROVE CapStands'
  <2>1. CASE q = NoPage /\ Begin(r, "create", [Idle EXCEPT !.pc = "insert"])
    <3> DEFINE l == [Idle EXCEPT !.pc = "insert"]
    <3>1. l \in LocalsType /\ l.pc = "insert" /\ l.depth = 0
      BY DEF Idle, LocalsType, Link
    <3> HIDE DEF l
    <3>2. Begin(r, "create", l)
      BY <2>1 DEF l
    <3>3. 0 <= MaxDepth
      BY <1>1
    <3> QED
      BY <1>9, <3>1, <3>2, <3>3
  <2>2. CASE q \in live /\ CreateFits(q) /\ Begin(r, "create", [Idle EXCEPT !.pc = "insert",
                                                 !.parent = q, !.depth = depth[q] + 1])
    <3> DEFINE l == [Idle EXCEPT !.pc = "insert", !.parent = q, !.depth = depth[q] + 1]
    <3>1. depth[q] + 1 \in Nat
      BY <1>1, <2>2
    <3>2. l \in LocalsType /\ l.pc = "insert" /\ l.depth = depth[q] + 1
      BY <3>1 DEF Idle, LocalsType, Link
    <3> HIDE DEF l
    <3>3. Begin(r, "create", l)
      BY <2>2 DEF l
    <3>4. depth[q] + 1 <= MaxDepth
      BY <2>2 DEF CreateFits
    <3> QED
      BY <1>9, <3>2, <3>3, <3>4
  <2> QED
    BY <1>12, <2>1, <2>2 DEF CreateLookup
<1>13. CASE CreateInsert(r)
  <2>1. Finish(r) /\ req[r].pc = "insert" /\ drift = {}
    BY <1>7, <1>13 DEF CreateInsert
  <2>2. CASE UNCHANGED <<rows, drift>>
    BY <1>10, <1>11, <2>1, <2>2 DEF rows
  <2>3. ASSUME NEW p \in Page \ born, live' = live \cup {p},
               parent' = [parent EXCEPT ![p] = req[r].parent],
               drift' = IF req[r].parent \in drift THEN drift \cup {p} ELSE drift
        PROVE  CapStands'
    <3>1. PICK q : q = req[r].parent
      OBVIOUS
    <3>2. q \in live \cup {NoPage} /\ req[r].depth = Beneath(q) /\ req[r].depth <= MaxDepth
      BY <1>5, <2>1, <3>1 DEF DepthStands, CapLocal
    <3>3. p \notin live /\ p # NoPage /\ p # q /\ p \in Page
      BY <1>1, <2>3, <3>2, SizeIs DEF TreeTyped
    <3>4. parent'[p] = q /\ \A c \in live : parent'[c] = parent[c] /\ parent[c] # p
      BY <1>1, <2>3, <3>1, <3>3
    <3>5. IF q = NoPage THEN req[r].depth = 0 ELSE req[r].depth = D(q) + 1
      BY <1>1, <1>4, <2>1, <3>2 DEF Beneath
    <3> DEFINE d == [x \in live \cup {p} |-> IF x = p THEN req[r].depth ELSE D(x)]
    <3>6. d[p] = req[r].depth /\ \A x \in live : d[x] = D(x)
      BY <3>3
    <3>7. PICK e : e = d
      OBVIOUS
    <3> HIDE DEF d
    <3>8. ASSUME NEW x \in live \cup {p}
          PROVE  e[x] = IF parent'[x] = NoPage THEN 0 ELSE e[parent'[x]] + 1
      <4>1. CASE x = p
        BY <3>2, <3>4, <3>5, <3>6, <3>7, <4>1
      <4>2. CASE x # p
        BY <1>3, <3>4, <3>6, <3>7, <4>2
      <4> QED
        BY <4>1, <4>2
    <3>9. Levels(live', parent', e)
      BY <2>3, <3>8 DEF Levels
    <3>10. Wood(live', parent') /\ Grounded(live', parent')
      BY DEF TreeTyped, ForestStands, Wood
    <3>11. \A x \in live' : Far(live', parent', Tops(live', parent'), x) = e[x]
      BY <3>9, <3>10, DepthOnly
    <3>12. \A x \in live' : e[x] <= MaxDepth
      BY <1>2, <2>3, <3>2, <3>6, <3>7
    <3>13. drift' = {}
      BY <2>1, <2>3
    <3> QED
      BY <1>10, <2>1, <3>11, <3>12, <3>13
  <2> QED
    BY <1>13, <2>2, <2>3 DEF CreateInsert
<1>14. ASSUME NEW p \in Page, NEW q \in Page, MoveCheck(r, p, q) PROVE CapStands'
  <2> DEFINE l == [Idle EXCEPT !.pc = "height", !.page = p, !.parent = q]
  <2>1. l \in LocalsType /\ l.pc = "height"
    BY DEF Idle, LocalsType, Link
  <2>2. Begin(r, "link", l)
    BY <1>14 DEF MoveCheck
  <2> HIDE DEF l
  <2> QED
    BY <1>9, <2>1, <2>2
<1>15. ASSUME NEW p \in Page, Unparent(r, p) PROVE CapStands'
  <2> DEFINE l == [Idle EXCEPT !.pc = "link", !.page = p]
  <2>1. l \in LocalsType /\ l.pc = "link" /\ l.page = p /\ l.depth = 0
    BY DEF Idle, LocalsType, Link
  <2>2. Begin(r, "link", l) /\ p \in live
    BY <1>15 DEF Unparent
  <2> HIDE DEF l
  <2>3. ASSUME NEW x \in Kin(live, parent, {p}) PROVE 0 + Far(live, parent, {p}, x) <= MaxDepth
    <3>1. x \in live /\ Far(live, parent, {p}, x) \in 0..Size /\ Size \in Nat
      BY <1>1, KinShut, FarIs, SizeIs
    <3>2. D(x) = D(p) + Far(live, parent, {p}, x)
      BY <1>1, <2>2, Under DEF D
    <3>3. D(x) <= MaxDepth /\ D(x) \in Nat /\ D(p) \in Nat
      BY <1>2, <1>3, <2>2, <3>1
    <3>4. Far(live, parent, {p}, x) \in Nat
      BY <3>1
    <3> QED
      BY <1>1, <3>2, <3>3, <3>4
  <2> QED
    BY <1>9, <2>1, <2>2, <2>3
<1>16. CASE MoveHeight(r)
  <2>1. live' = live /\ parent' = parent /\ drift' = drift /\ req[r].pc = "height" /\ drift = {}
    BY <1>7, <1>16 DEF MoveHeight, rows
  <2>2. CASE /\ req[r].page \in live /\ req[r].parent \in live
             /\ MoveFits(req[r].page, req[r].parent)
             /\ req' = [req EXCEPT ![r].pc = "link", ![r].depth = depth[req[r].parent] + 1]
    <3>1. PICK l : l = [req[r] EXCEPT !.pc = "link", !.depth = depth[req[r].parent] + 1]
      OBVIOUS
    <3>2. PICK p, b : p = req[r].page /\ b = depth[req[r].parent] + 1
      OBVIOUS
    <3>3. req' = [req EXCEPT ![r] = l]
      BY <2>2, <3>1
    <3>4. l.pc = "link" /\ l.page = p /\ l.depth = b
      BY <1>5, <3>1, <3>2 DEF LocalsType
    <3>5. req'[r] = l /\ b \in Nat /\ p \in live
      <4>1. depth[req[r].parent] \in Nat
        BY <1>1, <2>2
      <4>2. b \in Nat
        BY <3>2, <4>1
      <4> QED
        BY <1>1, <2>2, <3>2, <3>3, <4>2
    <3>6. b + Height(p) <= MaxDepth
      BY <2>2, <3>2 DEF MoveFits
    <3>7. ASSUME NEW x \in Kin(live, parent, {p}) PROVE b + Far(live, parent, {p}, x) <= MaxDepth
      <4>1. Far(live, parent, {p}, x) <= Height(p) /\ Height(p) \in Nat
        BY <3>5, HeightIs
      <4>2. Far(live, parent, {p}, x) \in 0..Size /\ Size \in Nat
        BY <1>1, FarIs, SizeIs
      <4>3. Far(live, parent, {p}, x) \in Nat
        BY <4>2
      <4> QED
        BY <1>1, <3>5, <3>6, <4>1, <4>3
    <3>8. CapLocal(r)'
      BY <2>1, <3>4, <3>5, <3>7 DEF CapLocal
    <3> QED
      BY <1>8, <1>11, <2>1, <3>3, <3>4, <3>8
  <2>3. CASE Finish(r)
    BY <1>10, <1>11, <2>1, <2>3
  <2> QED
    BY <1>16, <2>2, <2>3 DEF MoveHeight
<1>17. CASE MoveWrite(r)
  <2>1. live' = live /\ req[r].pc = "link" /\ drift = {}
    BY <1>7, <1>17 DEF MoveWrite
  <2>2. CASE Finish(r) /\ UNCHANGED <<parent, drift>>
    BY <1>10, <1>11, <2>1, <2>2
  <2>3. CASE /\ req[r].page \in live
             /\ parent' = [parent EXCEPT ![req[r].page] = req[r].parent]
             /\ drift' = drift \cup Subtree({req[r].page}) /\ Goto(r, "linkDepths")
    <3>1. PICK l : l = [req[r] EXCEPT !.pc = "linkDepths"]
      OBVIOUS
    <3>2. PICK p, q, b : p = req[r].page /\ q = req[r].parent /\ b = req[r].depth
      OBVIOUS
    <3>3. req' = [req EXCEPT ![r] = l] /\ req'[r] = l
      BY <1>1, <2>3, <3>1 DEF Goto
    <3>4. l.pc = "linkDepths" /\ l.page = p
      BY <1>5, <3>1, <3>2 DEF LocalsType
    <3>5. /\ q \in live \cup {NoPage} /\ b = Beneath(q) /\ q \notin Kin(live, parent, {p})
          /\ p \in live /\ \A x \in Kin(live, parent, {p}) :
                              b + Far(live, parent, {p}, x) <= MaxDepth
      BY <1>5, <2>1, <2>3, <3>2 DEF DepthStands, LinkStands, CapLocal
    <3>6. b = IF q = NoPage THEN 0 ELSE D(q) + 1
      BY <1>1, <1>4, <2>1, <3>5 DEF Beneath
    <3>7. parent' = [parent EXCEPT ![p] = q] /\ drift' = Kin(live, parent, {p})
      BY <1>0, <2>1, <2>3, <3>2
    <3>8. \A x \in live : Far(live, parent', Tops(live, parent'), x) =
              IF x \in Kin(live, parent, {p}) THEN b + Far(live, parent, {p}, x) ELSE D(x)
      <4>1. Lands(live, parent, q, b)
        BY <3>6 DEF D, Lands
      <4>2. PICK Q : Q = parent'
        OBVIOUS
      <4>3. Moved(parent, p, q, Q)
        BY <3>7, <4>2 DEF Moved
      <4>4. \A x \in live : Far(live, Q, Tops(live, Q), x) =
                IF x \in Kin(live, parent, {p}) THEN b + Far(live, parent, {p}, x)
                ELSE Far(live, parent, Tops(live, parent), x)
        BY <1>1, <3>5, <4>1, <4>3, MoveDepths
      <4> QED
        BY <4>2, <4>4 DEF D
    <3>9. \A x \in live' : Far(live', parent', Tops(live', parent'), x) <= MaxDepth
      BY <1>2, <2>1, <3>5, <3>8
    <3>10. Kin(live, parent', {p}) = Kin(live, parent, {p})
      <4>1. \A c \in live : c \notin {p} => parent'[c] = parent[c]
        BY <1>1, <3>7
      <4> QED
        BY <1>1, <4>1, KinOnly
    <3>11. CapLocal(r)'
      BY <2>1, <3>3, <3>4, <3>7, <3>10 DEF CapLocal
    <3> QED
      BY <1>8, <2>1, <3>3, <3>4, <3>9, <3>11
  <2> QED
    BY <1>17, <2>2, <2>3 DEF MoveWrite
<1>18. CASE MoveRebase(r)
  <2>1. /\ req[r].pc = "linkDepths" /\ live' = live /\ parent' = parent /\ Finish(r)
        /\ drift' = IF req[r].parent \in drift THEN drift
                    ELSE drift \ Kin(live, parent, {req[r].page})
    BY <1>0, <1>18 DEF MoveRebase
  <2>2. /\ drift \subseteq Kin(live, parent, {req[r].page})
        /\ req[r].parent \notin Kin(live, parent, {req[r].page})
    BY <1>5, <2>1 DEF CapLocal, DepthStands
  <2>3. drift' = {}
    BY <2>1, <2>2
  <2> QED
    BY <1>10, <1>11, <2>1, <2>3
<1>19. ASSUME NEW p \in Page, DeleteLookup(r, p) PROVE CapStands'
  <2> DEFINE l == [Idle EXCEPT !.pc = "reparent", !.page = p, !.parent = parent[p],
                               !.depth = depth[p]]
  <2>1. parent[p] \in Link /\ depth[p] \in Nat
    BY <1>1 DEF Link
  <2>2. l \in LocalsType /\ l.pc = "reparent"
    BY <2>1 DEF Idle, LocalsType, Link
  <2>3. Begin(r, "link", l)
    BY <1>19 DEF DeleteLookup
  <2> HIDE DEF l
  <2> QED
    BY <1>9, <2>2, <2>3
<1>20. CASE DeleteReparent(r)
  <2>1. live' = live /\ req[r].pc = "reparent" /\ drift = {}
    BY <1>7, <1>20 DEF DeleteReparent
  <2>2. CASE Finish(r) /\ UNCHANGED <<parent, drift>>
    BY <1>10, <1>11, <2>1, <2>2
  <2>3. PICK p, moved : p = req[r].page /\ moved = Children(p)
    OBVIOUS
  <2>4. CASE /\ parent' = [c \in Page |-> IF c \in moved THEN req[r].parent ELSE parent[c]]
             /\ drift' = drift \cup Subtree(moved)
             /\ req' = [req EXCEPT ![r].pc = "childDepths", ![r].moved = moved]
    <3>1. PICK l : l = [req[r] EXCEPT !.pc = "childDepths", !.moved = moved]
      OBVIOUS
    <3>2. req' = [req EXCEPT ![r] = l]
      BY <2>4, <3>1
    <3>3. l.pc = "childDepths" /\ l.moved = moved /\ req'[r] = l
      BY <1>1, <1>5, <3>1, <3>2 DEF LocalsType
    <3>4. p \in live /\ req[r].parent = parent[p]
      BY <1>5, <2>1, <2>3 DEF LinkStands, LinkPc
    <3>5. parent' = [c \in Page |-> IF c \in {x \in live : parent[x] = p} THEN parent[p]
                                    ELSE parent[c]]
      BY <2>3, <2>4, <3>4 DEF Children
    <3>6. \A x \in live : Far(live, parent', Tops(live, parent'), x) <= D(x)
      BY <1>1, <3>4, <3>5, ReparentDepths DEF D
    <3>7. \A x \in live : Far(live, parent', Tops(live, parent'), x) \in Nat
      <4>1. Wood(live', parent') /\ Grounded(live', parent')
        BY DEF TreeTyped, ForestStands, Wood
      <4> QED
        BY <2>1, <4>1, DepthIs
    <3>8. \A x \in live' : Far(live', parent', Tops(live', parent'), x) <= MaxDepth
      BY <1>1, <1>2, <1>3, <2>1, <3>6, <3>7
    <3>9. Kin(live, parent', moved) = Kin(live, parent, moved)
      <4>1. \A c \in live : c \notin moved => parent'[c] = parent[c]
        BY <1>1, <2>4
      <4> QED
        BY <1>1, <4>1, KinOnly
    <3>10. CapLocal(r)'
      BY <1>0, <2>1, <2>4, <3>3, <3>9 DEF CapLocal
    <3> QED
      BY <1>8, <2>1, <3>2, <3>3, <3>8, <3>10
  <2> QED
    BY <1>20, <2>2, <2>3, <2>4 DEF DeleteReparent
<1>21. CASE DeleteRebase(r)
  <2>1. /\ req[r].pc = "childDepths" /\ live' = live /\ parent' = parent /\ Goto(r, "remove")
        /\ drift' = IF req[r].page \in drift THEN drift
                    ELSE drift \ Kin(live, parent, req[r].moved)
    BY <1>0, <1>21 DEF DeleteRebase
  <2>2. /\ drift \subseteq Kin(live, parent, req[r].moved)
        /\ req[r].page \notin Kin(live, parent, req[r].moved)
    BY <1>5, <2>1 DEF CapLocal, DepthStands
  <2>3. drift' = {}
    BY <2>1, <2>2
  <2>4. PICK l : l = [req[r] EXCEPT !.pc = "remove"]
    OBVIOUS
  <2>5. req' = [req EXCEPT ![r] = l] /\ req'[r] = l
    BY <1>1, <2>1, <2>4 DEF Goto
  <2>6. l.pc = "remove"
    BY <1>5, <2>4 DEF LocalsType
  <2>7. CapLocal(r)'
    BY <2>5, <2>6 DEF CapLocal
  <2> QED
    BY <1>8, <1>11, <2>1, <2>3, <2>5, <2>6, <2>7
<1>22. CASE DeleteRow(r)
  <2>1. PICK p : p = req[r].page
    OBVIOUS
  <2>2. req[r].pc = "remove" /\ Finish(r) /\ live' = live \ {p} /\ Children(p) = {} /\ drift = {}
    BY <1>5, <1>7, <1>22, <2>1 DEF DeleteRow, DepthStands
  <2>3. parent' = [c \in Page |-> IF c = p THEN NoPage ELSE parent[c]]
    BY <1>22, <2>1, <2>2 DEF DeleteRow, RemainingLinks
  <2>4. drift' = {}
    <3>1. Kin(live, parent, {}) \subseteq {}
      <4>1. Shut(live, parent, {})
        BY DEF Shut
      <4> QED
        BY <4>1, KinLeast
    <3> QED
      BY <1>0, <1>22, <2>1, <2>2, <3>1 DEF DeleteRow
  <2>5. \A c \in live' : c # p /\ c \in live /\ parent[c] # p /\ parent'[c] = parent[c]
    BY <1>1, <2>2, <2>3 DEF Children
  <2> DEFINE d == [x \in live |-> D(x)]
  <2>6. \A x \in live : d[x] = D(x)
    OBVIOUS
  <2>7. PICK e : e = d
    OBVIOUS
  <2> HIDE DEF d
  <2>8. Levels(live', parent', e)
    BY <1>1, <1>3, <2>5, <2>6, <2>7 DEF Levels
  <2>9. Wood(live', parent') /\ Grounded(live', parent')
    BY DEF TreeTyped, ForestStands, Wood
  <2>10. \A x \in live' : Far(live', parent', Tops(live', parent'), x) = e[x]
    BY <2>8, <2>9, DepthOnly
  <2>11. \A x \in live' : e[x] <= MaxDepth
    BY <1>2, <2>5, <2>6, <2>7
  <2> QED
    BY <1>10, <2>2, <2>4, <2>10, <2>11
<1>23. CASE RequestEnds(r)
  <2>1. /\ req[r].pc # "idle" /\ Finish(r) /\ live' = live /\ parent' = parent /\ drift' = drift
        /\ req[r].pc \notin {"linkDepths", "childDepths"}
    BY <1>23 DEF RequestEnds, rows
  <2> QED
    BY <1>7, <1>10, <1>11, <2>1
<1> QED
  BY <1>12, <1>13, <1>14, <1>15, <1>16, <1>17, <1>18, <1>19, <1>20, <1>21, <1>22, <1>23

-----------------------------------------------------------------------------
(* The theorems of the tree.                                                *)

TreeInv == ForestInv /\ DepthInv /\ CapInv

LEMMA TreeStarts == TreeSizes /\ Init => TreeInv
<1> SUFFICES ASSUME TreeSizes, Init PROVE TreeInv
  OBVIOUS
<1>1. /\ live = {} /\ drift = {} /\ \A r \in Request : req[r] = Idle /\ req[r].pc = "idle"
      /\ req \in [Request -> LocalsType]
  BY DEF Init, Idle, LocalsType, Link
<1>2. TreeTyped
  BY <1>1 DEF Init, TreeTyped
<1>3. ForestStands
  BY <1>1 DEF ForestStands, Grounded, OneLinks, LinkStands, LinkPc
<1>4. DepthsStand
  BY <1>1 DEF DepthsStand, Alone, Shut, DepthStands
<1>5. CapStands
  BY <1>1 DEF CapStands, CapLocal
<1> QED
  BY <1>2, <1>3, <1>4, <1>5 DEF TreeInv, ForestInv, DepthInv, CapInv

LEMMA OverlapGrows == Next => overlap \subseteq overlap' /\ (halved => halved')
<1>1. \A r, kind, l : Begin(r, kind, l) => overlap \subseteq overlap' /\ UNCHANGED halved
  BY DEF Begin
<1>2. \A r : (\/ \E q \in Link : CreateLookup(r, q)
              \/ \E p, q \in Page : MoveCheck(r, p, q)
              \/ \E p \in Page : Unparent(r, p)
              \/ \E p \in Page : DeleteLookup(r, p))
             => overlap \subseteq overlap' /\ UNCHANGED halved
  BY <1>1 DEF CreateLookup, MoveCheck, Unparent, DeleteLookup
<1>3. \A r : CreateInsert(r) \/ MoveHeight(r) \/ MoveWrite(r) \/ MoveRebase(r)
             => UNCHANGED <<overlap, halved>>
  BY DEF CreateInsert, MoveHeight, MoveWrite, MoveRebase
<1>4. \A r : DeleteReparent(r) \/ DeleteRebase(r) \/ DeleteRow(r) => UNCHANGED <<overlap, halved>>
  BY DEF DeleteReparent, DeleteRebase, DeleteRow
<1>5. \A r : RequestEnds(r) => UNCHANGED overlap /\ (halved => halved')
  BY DEF RequestEnds
<1> QED
  BY <1>2, <1>3, <1>4, <1>5 DEF Next

LEMMA TreeStep == TreeSizes /\ TreeInv /\ (Next \/ UNCHANGED vars) => TreeInv'
<1> SUFFICES ASSUME TreeSizes, TreeInv, Next \/ UNCHANGED vars PROVE TreeInv'
  OBVIOUS
<1>1. CASE UNCHANGED vars
  <2>1. /\ TreeTyped' = TreeTyped /\ ForestStands' = ForestStands
        /\ overlap' = overlap /\ halved' = halved
    BY <1>1 DEF vars, rows, TreeTyped, ForestStands, OneLinks, LinkStands
  <2>2. DepthsStand' = DepthsStand
    BY <1>1 DEF vars, rows, DepthsStand, Alone, DepthStands, Beneath, Children
  <2>3. CapStands' = CapStands
    BY <1>1 DEF vars, rows, CapStands, CapLocal
  <2> QED
    BY <2>1, <2>2, <2>3 DEF TreeInv, ForestInv, DepthInv, CapInv
<1>2. CASE Next
  <2>1. TreeTyped'
    BY <1>2, TreeTypes DEF TreeInv, ForestInv
  <2>2. ASSUME "link" \notin overlap' PROVE ForestStands /\ ForestStands'
    BY <1>2, <2>2, ForestStep, OverlapGrows DEF TreeInv, ForestInv
  <2>3. ASSUME overlap' = {} PROVE DepthsStand /\ DepthsStand'
    <3>1. overlap = {}
      BY <1>2, <2>3, OverlapGrows
    <3>2. ForestStands /\ DepthsStand
      BY <2>2, <2>3, <3>1 DEF TreeInv, DepthInv
    <3> QED
      BY <1>2, <2>3, <3>2, DepthStep DEF TreeInv, ForestInv
  <2>4. ASSUME overlap' = {}, ~halved' PROVE CapStands'
    <3>1. overlap = {} /\ ~halved
      BY <1>2, <2>4, OverlapGrows
    <3>2. CapStands
      BY <3>1 DEF TreeInv, CapInv
    <3> QED
      BY <1>2, <2>1, <2>2, <2>3, <2>4, <3>2, CapStep DEF TreeInv, ForestInv
  <2> QED
    BY <2>1, <2>2, <2>3, <2>4 DEF TreeInv, ForestInv, DepthInv, CapInv
<1> QED
  BY <1>1, <1>2

LEMMA TreeTells == TreeSizes /\ TreeInv => TreeIsAForest /\ DepthsAreTrue
<1> SUFFICES ASSUME TreeSizes, TreeInv PROVE TreeIsAForest /\ DepthsAreTrue
  OBVIOUS
<1>1. TreeTyped /\ (Rooted <=> Grounded(live, parent))
      /\ \A p : TrueDepth(p) = Far(live, parent, Tops(live, parent), p)
  BY TreesAre DEF TreeInv, ForestInv
<1>2. TreeIsAForest
  BY <1>1 DEF TreeInv, ForestInv, ForestStands, TreeIsAForest
<1>3. ASSUME overlap = {} PROVE \A p \in live \ drift : depth[p] = TrueDepth(p)
  <2>1. Grounded(live, parent) /\ DepthsStand
    BY <1>3 DEF TreeInv, ForestInv, ForestStands, DepthInv
  <2> QED
    BY <1>1, <2>1, DepthsTell
<1>4. CapHolds
  BY <1>1 DEF TreeInv, CapInv, CapStands, CapHolds
<1> QED
  BY <1>2, <1>3, <1>4 DEF DepthsAreTrue, DepthIsTrue

LEMMA TreeKept == DocumentsSpec => []TreeInv
<1>1. TreeSizes
  BY DocumentsAssumption
<1>2. DocumentsInit => TreeInv
  BY <1>1, TreeStarts DEF DocumentsInit, DocumentsStart
<1>3. TreeInv /\ [DocumentsNext]_docVars => TreeInv'
  BY <1>1, PartSteps, TreeStep
<1> QED
  BY <1>2, <1>3, PTL DEF DocumentsSpec

(* No page is its own ancestor, for any pages, requests and depths, wherever a request ends, *)
(* as long as no two moves or deletes overlap (page/store.go Update, Delete, Create).       *)
THEOREM TreeStaysAForest == DocumentsSpec => []TreeIsAForest
<1>1. TreeInv => TreeIsAForest
  BY TreeTells, DocumentsAssumption
<1> QED
  BY <1>1, TreeKept, PTL

(* As long as no requests overlap, the depth column is where a page is but under a link      *)
(* whose re-base has not run, and no page is deeper than the cap (page/store.go             *)
(* rebaseSubtreeDepth, MaxDepth).                                                          *)
THEOREM DepthsStayTrue == DocumentsSpec => []DepthsAreTrue
<1>1. TreeInv => DepthsAreTrue
  BY TreeTells, DocumentsAssumption
<1> QED
  BY <1>1, TreeKept, PTL

-----------------------------------------------------------------------------
(* The template library.                                                    *)

TplTyped ==
    /\ saved \subseteq Custom \ spent /\ spent \subseteq Custom
    /\ useCount \in [Templates!Template -> Nat]
    /\ minted \in [Templates!Template -> Nat]
    /\ uncounted \in [Templates!Template -> Nat]
    /\ using \in [User -> [pc : {"rest", "create", "bump"}, of : Templates!Template]]

Bumping(us, t) == {u \in User : us[u] = [pc |-> "bump", of |-> t]}

(* A template nobody has deleted, saved yet or not, has its uses counted. *)
TplInv ==
    /\ TplTyped
    /\ \A t \in Templates!Template \ spent :
          useCount[t] + Cardinality(Bumping(using, t)) + uncounted[t] = minted[t]

LEMMA UsersCount ==
    /\ \A S : Templates!Cardinality(S) = Cardinality(S)
    /\ \A S : Templates!IsFiniteSet(S) <=> IsFiniteSet(S)
BY DEF Templates!Cardinality, Cardinality, Templates!IsFiniteSet, IsFiniteSet

LEMMA InFlightIs == \A t : Templates!InFlight(t) = Cardinality(Bumping(using, t))
BY UsersCount DEF Templates!InFlight, Bumping

LEMMA BumpingCounts ==
    ASSUME Templates!TemplatesSizes, NEW us, NEW t
    PROVE  IsFiniteSet(Bumping(us, t)) /\ Cardinality(Bumping(us, t)) \in Nat
<1>1. IsFiniteSet(User) /\ Bumping(us, t) \subseteq User
  BY UsersCount DEF Templates!TemplatesSizes, Bumping
<1>2. IsFiniteSet(Bumping(us, t))
  BY <1>1, FS_Subset
<1> QED
  BY <1>2, FS_CardinalityType

(* One request comes to the count, or leaves it. *)
LEMMA BumpingMoves ==
    ASSUME Templates!TemplatesSizes, NEW us, NEW vs, NEW u \in User, NEW t,
           \A v \in User : v # u => vs[v] = us[v]
    PROVE  /\ u \notin Bumping(us, t) /\ u \in Bumping(vs, t) =>
                  Cardinality(Bumping(vs, t)) = Cardinality(Bumping(us, t)) + 1
           /\ u \in Bumping(us, t) /\ u \notin Bumping(vs, t) =>
                  Cardinality(Bumping(us, t)) = Cardinality(Bumping(vs, t)) + 1
           /\ (u \in Bumping(us, t) <=> u \in Bumping(vs, t)) =>
                  Bumping(vs, t) = Bumping(us, t)
<1>1. \A v \in User : v # u => (v \in Bumping(us, t) <=> v \in Bumping(vs, t))
  BY DEF Bumping
<1>2. Bumping(us, t) \subseteq User /\ Bumping(vs, t) \subseteq User
  BY DEF Bumping
<1>3. IsFiniteSet(Bumping(us, t)) /\ IsFiniteSet(Bumping(vs, t))
  BY BumpingCounts
<1>4. ASSUME u \notin Bumping(us, t), u \in Bumping(vs, t)
      PROVE  Cardinality(Bumping(vs, t)) = Cardinality(Bumping(us, t)) + 1
  <2>1. Bumping(vs, t) = Bumping(us, t) \cup {u}
    BY <1>1, <1>2, <1>4
  <2> QED
    BY <1>3, <1>4, <2>1, FS_AddElement
<1>5. ASSUME u \in Bumping(us, t), u \notin Bumping(vs, t)
      PROVE  Cardinality(Bumping(us, t)) = Cardinality(Bumping(vs, t)) + 1
  <2>1. Bumping(us, t) = Bumping(vs, t) \cup {u}
    BY <1>1, <1>2, <1>5
  <2> QED
    BY <1>3, <1>5, <2>1, FS_AddElement
<1> QED
  BY <1>1, <1>2, <1>4, <1>5

LEMMA TplStarts == Templates!TemplatesSizes /\ Templates!TemplatesInit => TplInv
<1> SUFFICES ASSUME Templates!TemplatesSizes, Templates!TemplatesInit PROVE TplInv
  OBVIOUS
<1>1. TplTyped
  BY DEF Templates!TemplatesInit, TplTyped, Templates!Rest, Templates!Template
<1>2. \A t : Bumping(using, t) = {}
  BY DEF Templates!TemplatesInit, Bumping, Templates!Rest
<1>3. Cardinality({}) = 0
  BY FS_EmptySet
<1> QED
  BY <1>1, <1>2, <1>3 DEF TplInv, Templates!TemplatesInit

LEMMA TplStep ==
    Templates!TemplatesSizes /\ TplInv /\ (Templates!TemplatesNext \/ UNCHANGED tlVars) => TplInv'
<1> SUFFICES ASSUME Templates!TemplatesSizes, TplInv,
                    Templates!TemplatesNext \/ UNCHANGED tlVars
             PROVE  TplInv'
  OBVIOUS
<1>1. /\ TplTyped /\ Builtin \in Templates!Template /\ Custom \subseteq Templates!Template
      /\ Builtin \notin Custom /\ Templates!Rest.pc = "rest"
      /\ Templates!Rest \in [pc : {"rest", "create", "bump"}, of : Templates!Template]
  BY DEF TplInv, Templates!Template, Templates!TemplatesSizes, Templates!Rest
<1> DEFINE N(us, t) == Cardinality(Bumping(us, t))
<1>2. \A us, t : N(us, t) \in Nat
  BY BumpingCounts
<1>3. \A t \in Templates!Template \ spent :
          useCount[t] + N(using, t) + uncounted[t] = minted[t]
  BY DEF TplInv
<1> HIDE DEF N
<1>4. ASSUME TplTyped', \A t \in Templates!Template \ spent' :
                 useCount'[t] + N(using', t) + uncounted'[t] = minted'[t]
      PROVE  TplInv'
  BY <1>4 DEF TplInv, N
\* What a step of the request u does to how many are about to count t.
<1>5. ASSUME NEW u \in User, NEW l, using' = [using EXCEPT ![u] = l], l.pc # "bump"
      PROVE  \A t \in Templates!Template :
                 N(using, t) = IF using[u] = [pc |-> "bump", of |-> t]
                               THEN N(using', t) + 1 ELSE N(using', t)
  <2>1. using'[u] = l /\ \A v \in User : v # u => using'[v] = using[v]
    BY <1>1, <1>5 DEF TplTyped
  <2>2. \A t : u \notin Bumping(using', t)
    BY <1>5, <2>1 DEF Bumping
  <2>3. \A t : u \in Bumping(using, t) <=> using[u] = [pc |-> "bump", of |-> t]
    BY DEF Bumping
  <2>4. \A t : u \in Bumping(using, t) => N(using, t) = N(using', t) + 1
    BY <2>1, <2>2, BumpingMoves DEF N
  <2>5. \A t : u \notin Bumping(using, t) => N(using, t) = N(using', t)
    <3> SUFFICES ASSUME NEW t, u \notin Bumping(using, t) PROVE N(using, t) = N(using', t)
      OBVIOUS
    <3>1. Bumping(using', t) = Bumping(using, t)
      BY <2>1, <2>2, BumpingMoves
    <3> QED
      BY <3>1 DEF N
  <2> QED
    BY <2>3, <2>4, <2>5
<1>6. \A u \in User : using[u] = [pc |-> using[u].pc, of |-> using[u].of]
                      /\ using[u].of \in Templates!Template
  BY <1>1 DEF TplTyped
<1>7. ASSUME NEW t \in Custom, Templates!CreateFromPage(t) PROVE TplInv'
  BY <1>1, <1>3, <1>4, <1>7 DEF Templates!CreateFromPage, TplTyped
<1>8. ASSUME NEW t \in Custom, Templates!Delete(t) PROVE TplInv'
  <2>1. TplTyped'
    BY <1>1, <1>8 DEF Templates!Delete, TplTyped
  <2>2. \A s \in Templates!Template \ spent' : s \notin spent /\ useCount'[s] = useCount[s]
    BY <1>1, <1>8 DEF Templates!Delete, TplTyped
  <2>3. UNCHANGED <<using, minted, uncounted>>
    BY <1>8 DEF Templates!Delete
  <2> QED
    BY <1>3, <1>4, <2>1, <2>2, <2>3
<1>9. ASSUME NEW u \in User, NEW t \in Templates!Template, Templates!GetByID(u, t) PROVE TplInv'
  <2>1. PICK l : l = [pc |-> "create", of |-> t]
    OBVIOUS
  <2>2. /\ using' = [using EXCEPT ![u] = l] /\ l.pc = "create" /\ using[u].pc = "rest"
        /\ UNCHANGED <<useCount, minted, uncounted, spent, saved>>
    BY <1>9, <2>1 DEF Templates!GetByID
  <2>3. TplTyped'
    BY <1>1, <2>1, <2>2 DEF TplTyped
  <2>4. \A s \in Templates!Template : N(using', s) = N(using, s)
    <3>1. \A s : using[u] # [pc |-> "bump", of |-> s]
      BY <2>2
    <3>2. l.pc # "bump"
      BY <2>2
    <3> QED
      BY <1>5, <2>2, <3>1, <3>2
  <2> QED
    BY <1>3, <1>4, <2>2, <2>3, <2>4
<1>10. ASSUME NEW u \in User, Templates!MintPage(u) PROVE TplInv'
  <2>1. PICK t : t = using[u].of
    OBVIOUS
  <2>2. /\ using[u].pc = "create" /\ minted' = [minted EXCEPT ![t] = @ + 1]
        /\ using' = [using EXCEPT ![u].pc = "bump"]
        /\ UNCHANGED <<useCount, uncounted, spent, saved>> /\ t \in Templates!Template
    BY <1>6, <1>10, <2>1 DEF Templates!MintPage, Templates!More
  <2>3. /\ using'[u] = [pc |-> "bump", of |-> t]
        /\ \A v \in User : v # u => using'[v] = using[v]
    BY <1>1, <1>6, <2>1, <2>2 DEF TplTyped
  <2>4. TplTyped'
    BY <1>1, <2>2 DEF TplTyped
  <2>5. u \notin Bumping(using, t) /\ u \in Bumping(using', t)
    BY <2>2, <2>3 DEF Bumping
  <2>6. N(using', t) = N(using, t) + 1
    BY <2>3, <2>5, BumpingMoves DEF N
  <2>7. ASSUME NEW s \in Templates!Template, s # t PROVE N(using', s) = N(using, s)
    <3>1. u \notin Bumping(using, s) /\ u \notin Bumping(using', s)
      BY <2>2, <2>3, <2>7 DEF Bumping
    <3> QED
      BY <2>3, <3>1, BumpingMoves DEF N
  <2>8. ASSUME NEW s \in Templates!Template \ spent'
        PROVE  useCount'[s] + N(using', s) + uncounted'[s] = minted'[s]
    <3>1. /\ useCount[s] \in Nat /\ uncounted[s] \in Nat /\ minted[s] \in Nat /\ N(using, s) \in Nat
          /\ useCount[s] + N(using, s) + uncounted[s] = minted[s]
      BY <1>1, <1>2, <1>3, <2>2 DEF TplTyped
    <3>2. CASE s = t
      <4>1. minted'[s] = minted[s] + 1
        BY <1>1, <2>2, <3>2 DEF TplTyped
      <4> QED
        BY <2>2, <2>6, <3>1, <3>2, <4>1
    <3>3. CASE s # t
      <4>1. minted'[s] = minted[s]
        BY <1>1, <2>2, <3>3 DEF TplTyped
      <4> QED
        BY <2>2, <2>7, <3>1, <3>3, <4>1
    <3> QED
      BY <3>2, <3>3
  <2> QED
    BY <1>4, <2>4, <2>8
<1>11. ASSUME NEW u \in User, Templates!MintFails(u) PROVE TplInv'
  <2>1. PICK t : t = using[u].of
    OBVIOUS
  <2>2. /\ using[u].pc = "create" /\ using' = [using EXCEPT ![u] = Templates!Rest]
        /\ UNCHANGED <<useCount, spent, saved>> /\ t \in Templates!Template
    BY <1>6, <1>11, <2>1 DEF Templates!MintFails
  <2>3. \/ UNCHANGED <<minted, uncounted>>
        \/ minted' = [minted EXCEPT ![t] = @ + 1] /\ uncounted' = [uncounted EXCEPT ![t] = @ + 1]
    BY <1>11, <2>1 DEF Templates!MintFails, Templates!More
  <2>4. TplTyped'
    BY <1>1, <2>2, <2>3 DEF TplTyped
  <2>5. \A s \in Templates!Template : N(using', s) = N(using, s)
    <3>1. \A s : using[u] # [pc |-> "bump", of |-> s]
      BY <2>2
    <3>2. PICK l : l = Templates!Rest /\ l.pc # "bump"
      BY <1>1
    <3>3. using' = [using EXCEPT ![u] = l]
      BY <2>2, <3>2
    <3> QED
      BY <1>5, <3>1, <3>2, <3>3
  <2>6. ASSUME NEW s \in Templates!Template \ spent'
        PROVE  useCount'[s] + N(using', s) + uncounted'[s] = minted'[s]
    <3>1. /\ useCount[s] \in Nat /\ uncounted[s] \in Nat /\ minted[s] \in Nat /\ N(using, s) \in Nat
          /\ useCount[s] + N(using, s) + uncounted[s] = minted[s]
      BY <1>1, <1>2, <1>3, <2>2 DEF TplTyped
    <3>2. \/ minted'[s] = minted[s] /\ uncounted'[s] = uncounted[s]
          \/ minted'[s] = minted[s] + 1 /\ uncounted'[s] = uncounted[s] + 1
      BY <1>1, <2>3 DEF TplTyped
    <3>3. N(using', s) = N(using, s) /\ useCount'[s] = useCount[s]
      BY <2>2, <2>5
    <3>4. CASE minted'[s] = minted[s] /\ uncounted'[s] = uncounted[s]
      BY <3>1, <3>3, <3>4
    <3>5. CASE minted'[s] = minted[s] + 1 /\ uncounted'[s] = uncounted[s] + 1
      BY <3>1, <3>3, <3>5
    <3> QED
      BY <3>2, <3>4, <3>5
  <2> QED
    BY <1>4, <2>4, <2>6
<1>12. ASSUME NEW u \in User, Templates!Bump(u) PROVE TplInv'
  <2>1. PICK t : t = using[u].of
    OBVIOUS
  <2>2. /\ using[u] = [pc |-> "bump", of |-> t] /\ using' = [using EXCEPT ![u] = Templates!Rest]
        /\ UNCHANGED <<minted, spent, saved>> /\ t \in Templates!Template
    BY <1>6, <1>12, <2>1 DEF Templates!Bump
  <2>3. \/ /\ useCount' = IF t \in spent THEN useCount ELSE [useCount EXCEPT ![t] = @ + 1]
           /\ UNCHANGED uncounted
        \/ uncounted' = [uncounted EXCEPT ![t] = @ + 1] /\ UNCHANGED useCount
    BY <1>12, <2>1 DEF Templates!Bump, Templates!More
  <2>4. TplTyped'
    BY <1>1, <2>2, <2>3 DEF TplTyped
  <2>5. \A s \in Templates!Template :
            N(using, s) = IF s = t THEN N(using', s) + 1 ELSE N(using', s)
    <3>1. \A s : using[u] = [pc |-> "bump", of |-> s] <=> s = t
      BY <2>2
    <3> QED
      BY <1>1, <1>5, <2>2, <3>1
  <2>6. ASSUME NEW s \in Templates!Template \ spent'
        PROVE  useCount'[s] + N(using', s) + uncounted'[s] = minted'[s]
    <3>1. /\ useCount[s] \in Nat /\ uncounted[s] \in Nat /\ minted[s] \in Nat
          /\ N(using, s) \in Nat /\ N(using', s) \in Nat /\ s \notin spent
          /\ useCount[s] + N(using, s) + uncounted[s] = minted[s]
      BY <1>1, <1>2, <1>3, <2>2 DEF TplTyped
    <3>2. CASE s = t
      <4>1. \/ useCount'[s] = useCount[s] + 1 /\ uncounted'[s] = uncounted[s]
            \/ useCount'[s] = useCount[s] /\ uncounted'[s] = uncounted[s] + 1
        BY <1>1, <2>3, <3>1, <3>2 DEF TplTyped
      <4>2. N(using, s) = N(using', s) + 1 /\ minted'[s] = minted[s]
        BY <2>2, <2>5, <3>2
      <4> QED
        BY <3>1, <4>1, <4>2
    <3>3. CASE s # t
      <4>1. useCount'[s] = useCount[s] /\ uncounted'[s] = uncounted[s]
        BY <1>1, <2>3, <3>3 DEF TplTyped
      <4> QED
        BY <2>2, <2>5, <3>1, <3>3, <4>1
    <3> QED
      BY <3>2, <3>3
  <2> QED
    BY <1>4, <2>4, <2>6
<1>13. CASE Templates!Restart
  <2>1. /\ using' = [u \in User |-> Templates!Rest]
        /\ uncounted' = [t \in Templates!Template |-> uncounted[t] + N(using, t)
                                        + IF t = Builtin THEN useCount[t] ELSE 0]
        /\ useCount' = [useCount EXCEPT ![Builtin] = 0]
        /\ UNCHANGED <<saved, spent, minted>>
    BY <1>13, InFlightIs DEF Templates!Restart, N
  <2>2. \A t : N(using', t) = 0
    <3>1. \A t : Bumping(using', t) = {}
      BY <1>1, <2>1 DEF Bumping
    <3> QED
      BY <3>1, FS_EmptySet DEF N
  <2>3. ASSUME NEW s \in Templates!Template
        PROVE  /\ useCount[s] \in Nat /\ uncounted[s] \in Nat /\ minted[s] \in Nat
               /\ N(using, s) \in Nat
               /\ uncounted'[s] = uncounted[s] + N(using, s)
                                  + (IF s = Builtin THEN useCount[s] ELSE 0)
               /\ useCount'[s] = IF s = Builtin THEN 0 ELSE useCount[s]
    BY <1>1, <1>2, <2>1 DEF TplTyped
  <2>4. TplTyped'
    <3>1. uncounted' \in [Templates!Template -> Nat]
      BY <2>1, <2>3
    <3> QED
      BY <1>1, <2>1, <3>1 DEF TplTyped
  <2>5. ASSUME NEW s \in Templates!Template \ spent'
        PROVE  useCount'[s] + N(using', s) + uncounted'[s] = minted'[s]
    <3>1. useCount[s] + N(using, s) + uncounted[s] = minted[s]
      BY <1>3, <2>1
    <3> QED
      BY <2>1, <2>2, <2>3, <3>1
  <2> QED
    BY <1>4, <2>4, <2>5
<1>14. CASE UNCHANGED tlVars
  BY <1>14 DEF tlVars, TplInv, TplTyped
<1> QED
  BY <1>7, <1>8, <1>9, <1>10, <1>11, <1>12, <1>13, <1>14 DEF Templates!TemplatesNext

LEMMA TplTells == Templates!TemplatesSizes /\ TplInv => Templates!UsesAreCounted
<1> SUFFICES ASSUME Templates!TemplatesSizes, TplInv PROVE Templates!UsesAreCounted
  OBVIOUS
<1>1. saved \cup {Builtin} \subseteq Templates!Template \ spent
  BY DEF TplInv, TplTyped, Templates!Template, Templates!TemplatesSizes
<1> QED
  BY <1>1, InFlightIs DEF TplInv, Templates!UsesAreCounted

-----------------------------------------------------------------------------
(* An import.                                                               *)

Paths == {Folders[d] : d \in DOMAIN Folders}

ImPage == [of : File \cup Paths, parent : Nat, there : BOOLEAN]

ImTyped ==
    /\ zip \in [format : {"none", "notion", "confluence"}, sort : [File -> Imports!Sort]]
    /\ left \in SUBSET File
    /\ at \in [pc : {"asked", "refused", "next", "walk", "create", "done", "dead"},
               file : File \cup {"none"}, frames : Nat]
    /\ known \in [DOMAIN Folders -> Nat]
    /\ pages \in Seq(ImPage)
    /\ imported \in Nat /\ skipped \in Nat /\ doubt \in BOOLEAN /\ deletes \in Nat

Busy(a) == a.pc \in {"walk", "create", "dead"}

Readable(f) == zip.sort[f] \in {"text", "quoted"}

(* Every file is left, in hand, or counted. *)
ImCounts ==
    /\ imported + skipped + Cardinality(left) + (IF Busy(at) THEN 1 ELSE 0) = Cardinality(File)
    /\ at.pc = "done" => left = {}
    /\ Busy(at) => at.file \in File \ left /\ Readable(at.file)
    /\ at.pc = "asked" => pages = <<>>

(* The page a folder is known by is that folder's. *)
ImKnows ==
    \A d \in DOMAIN Folders : known[d] # 0 => known[d] \in DOMAIN pages
                                              /\ pages[known[d]].of = Folders[d]

Made(ps) == {f \in File : \E p \in DOMAIN ps : ps[p].of = f}

(* No second page of anything, none of what is still to be made. *)
ImOnce ==
    /\ \A p, q \in DOMAIN pages : pages[p].of = pages[q].of => p = q
    /\ \A p \in DOMAIN pages : pages[p].of \notin left /\ (Busy(at) => pages[p].of # at.file)
    /\ \A p \in DOMAIN pages : pages[p].of \in File => Readable(pages[p].of)
    /\ \A d \in DOMAIN Folders : known[d] = 0 => \A p \in DOMAIN pages : pages[p].of # Folders[d]
    /\ imported = Cardinality(Made(pages))

ImPlaced ==
    \A p \in DOMAIN pages : pages[p].of \in File =>
        IF FolderOf[pages[p].of] = 0 THEN pages[p].parent = 0
        ELSE known[FolderOf[pages[p].of]] # 0
             /\ pages[p].parent = known[FolderOf[pages[p].of]]

ImInv ==
    /\ ImTyped /\ ImCounts /\ ImKnows
    /\ ~doubt => ImOnce
    /\ ~doubt /\ deletes = 0 /\ Imports!FromNotion => ImPlaced

LEMMA FilesCount ==
    /\ \A S : Imports!Cardinality(S) = Cardinality(S)
    /\ \A S : Imports!IsFiniteSet(S) <=> IsFiniteSet(S)
BY DEF Imports!Cardinality, Cardinality, Imports!IsFiniteSet, IsFiniteSet

LEMMA ImSizes ==
    /\ IsFiniteSet(File) /\ "none" \notin File /\ Cardinality(File) \in Nat
    /\ Imports!ToSet(Folders) = Paths /\ Paths \cap File = {}
    /\ Len(Folders) \in Nat /\ DOMAIN Folders = 1..Len(Folders)
    /\ \A d, e \in DOMAIN Folders : Folders[d] = Folders[e] => d = e
    /\ FolderOf \in [File -> 0..Len(Folders)]
<1>1. Imports!ImportsSizes
  BY DocumentsAssumption
<1>2. IsFiniteSet(File) /\ Imports!ToSet(Folders) = Paths
  BY <1>1, FilesCount DEF Imports!ImportsSizes, Imports!ToSet, Paths
<1>3. Cardinality(File) \in Nat
  BY <1>2, FS_CardinalityType
<1>4. Folders \in Seq(Paths)
  BY <1>1, <1>2 DEF Imports!ImportsSizes
<1>5. \A d, e \in DOMAIN Folders : Folders[d] = Folders[e] => d = e
  BY <1>1 DEF Imports!ImportsSizes, Imports!IsInjective
<1> QED
  BY <1>1, <1>2, <1>3, <1>4, <1>5 DEF Imports!ImportsSizes

LEMMA LeftCounts ==
    ASSUME NEW l \in SUBSET File
    PROVE  /\ IsFiniteSet(l) /\ Cardinality(l) \in Nat
           /\ \A f \in l : Cardinality(l \ {f}) = Cardinality(l) - 1
           /\ \A f \in File \ l : Cardinality(l \cup {f}) = Cardinality(l) + 1
<1>1. IsFiniteSet(l)
  BY ImSizes, FS_Subset
<1>2. Cardinality(l) \in Nat
  BY <1>1, FS_CardinalityType
<1>3. \A f \in l : Cardinality(l \ {f}) = Cardinality(l) - 1
  BY <1>1, FS_RemoveElement
<1>4. \A f \in File \ l : Cardinality(l \cup {f}) = Cardinality(l) + 1
  BY <1>1, FS_AddElement
<1> QED
  BY <1>1, <1>2, <1>3, <1>4

LEMMA ImStarts == Imports!ImportsInit => ImInv
<1> SUFFICES ASSUME Imports!ImportsInit PROVE ImInv
  OBVIOUS
<1>1. /\ at = [pc |-> "asked", file |-> "none", frames |-> 0] /\ pages = <<>> /\ left = File
      /\ imported = 0 /\ skipped = 0 /\ doubt = FALSE /\ deletes = 0
      /\ known = [d \in DOMAIN Folders |-> 0]
      /\ zip \in [format : {"none"}, sort : [File -> Imports!Sort]]
  BY DEF Imports!ImportsInit, Imports!Between, Imports!Folder
<1>2. ImTyped
  <2>1. zip \in [format : {"none", "notion", "confluence"}, sort : [File -> Imports!Sort]]
    BY <1>1
  <2>2. at \in [pc : {"asked", "refused", "next", "walk", "create", "done", "dead"},
               file : File \cup {"none"}, frames : Nat]
    BY <1>1
  <2>3. pages \in Seq(ImPage)
    BY <1>1
  <2> QED
    BY <1>1, <2>1, <2>2, <2>3 DEF ImTyped
<1>3. ImCounts
  BY <1>1, ImSizes DEF ImCounts, Busy
<1>4. ImKnows /\ ImPlaced
  BY <1>1 DEF ImKnows, ImPlaced
<1>5. ImOnce
  <2>1. Made(pages) = {}
    BY <1>1 DEF Made
  <2>2. imported = Cardinality(Made(pages))
    BY <1>1, <2>1, FS_EmptySet
  <2> QED
    BY <1>1, <2>2 DEF ImOnce
<1> QED
  BY <1>2, <1>3, <1>4, <1>5 DEF ImInv

LEMMA PagesAppended ==
    ASSUME ImTyped, NEW page \in ImPage, pages' = Append(pages, page)
    PROVE  /\ pages' \in Seq(ImPage) /\ Len(pages) \in Nat /\ Len(pages) + 1 # 0
           /\ DOMAIN pages' = DOMAIN pages \cup {Len(pages) + 1}
           /\ Len(pages) + 1 \notin DOMAIN pages
           /\ pages'[Len(pages) + 1] = page
           /\ \A p \in DOMAIN pages : pages'[p] = pages[p]
<1>1. pages \in Seq(ImPage) /\ Len(pages) \in Nat /\ DOMAIN pages = 1..Len(pages)
  BY DEF ImTyped
<1>2. pages' \in Seq(ImPage) /\ DOMAIN pages' = 1..(Len(pages) + 1)
  BY <1>1
<1>3. pages'[Len(pages) + 1] = page /\ \A p \in DOMAIN pages : pages'[p] = pages[p]
  BY <1>1
<1> QED
  BY <1>1, <1>2, <1>3

(* The least folder without a page is one, and those outside it have theirs. *)
LEMMA LeastMissing ==
    ASSUME NEW f \in File, Imports!Missing(f) # {}
    PROVE  Imports!Min(Imports!Missing(f)) \in Imports!Missing(f)
<1>1. Imports!Missing(f) \in SUBSET Nat
  BY ImSizes DEF Imports!Missing, Imports!Folder
<1>2. PICK d \in Imports!Missing(f) : \A e \in Imports!Missing(f) : d <= e
  BY <1>1, LeastOne
<1> QED
  BY <1>2, Zenon DEF Imports!Min

(* A page more, of something that has none. *)
LEMMA MadeGrows ==
    ASSUME ImTyped, NEW page \in ImPage, pages' = Append(pages, page),
           \A p \in DOMAIN pages : pages[p].of # page.of
    PROVE  /\ page.of \in Paths => Made(pages') = Made(pages)
           /\ page.of \in File => Cardinality(Made(pages')) = Cardinality(Made(pages)) + 1
           /\ (\A p, q \in DOMAIN pages : pages[p].of = pages[q].of => p = q)
              => \A p, q \in DOMAIN pages' : pages'[p].of = pages'[q].of => p = q
<1>1. /\ DOMAIN pages' = DOMAIN pages \cup {Len(pages) + 1}
      /\ Len(pages) + 1 \notin DOMAIN pages
      /\ pages'[Len(pages) + 1] = page
      /\ \A p \in DOMAIN pages : pages'[p] = pages[p]
  BY PagesAppended
<1>2. Paths \cap File = {}
  BY ImSizes
<1>3. page.of \in Paths => Made(pages') = Made(pages)
  BY <1>1, <1>2 DEF Made
<1>4. ASSUME page.of \in File
      PROVE  Cardinality(Made(pages')) = Cardinality(Made(pages)) + 1
  <2>1. Made(pages') = Made(pages) \cup {page.of}
    BY <1>1, <1>4 DEF Made
  <2>2. page.of \in File \ Made(pages) /\ Made(pages) \in SUBSET File
    BY <1>4 DEF Made
  <2> QED
    BY <2>1, <2>2, LeftCounts
<1>5. ASSUME \A p, q \in DOMAIN pages : pages[p].of = pages[q].of => p = q
      PROVE  \A p, q \in DOMAIN pages' : pages'[p].of = pages'[q].of => p = q
  BY <1>1, <1>5
<1> QED
  BY <1>3, <1>4, <1>5

(* The pages are as before, or some were deleted. *)
SamePages ==
    /\ pages' \in Seq(ImPage) /\ DOMAIN pages' = DOMAIN pages
    /\ \A p \in DOMAIN pages : pages'[p].of = pages[p].of
    /\ deletes' = 0 => UNCHANGED pages

LEMMA ImSame ==
    ASSUME ImInv, SamePages, ImTyped', ImCounts',
           UNCHANGED <<known, imported, doubt>>, deletes' = 0 => deletes = 0,
           left' \subseteq left,
           Busy(at') => \/ at'.file \in left
                        \/ Busy(at) /\ at'.file = at.file,
           zip'.sort = zip.sort, at.pc # "asked" => zip'.format = zip.format
    PROVE  ImInv'
<1>1. ImTyped /\ ImCounts /\ ImKnows
  BY DEF ImInv
<1>2. ImKnows'
  BY <1>1 DEF ImKnows, SamePages
<1>3. Made(pages') = Made(pages)
  BY DEF Made, SamePages
<1>4. ASSUME ~doubt' PROVE ImOnce'
  <2>1. ImOnce
    BY <1>4 DEF ImInv
  <2>2. \A p \in DOMAIN pages' : pages'[p].of \notin left' /\ (Busy(at') => pages'[p].of # at'.file)
    BY <2>1 DEF ImOnce, SamePages
  <2> QED
    BY <1>3, <2>1, <2>2 DEF ImOnce, SamePages, Readable
<1>5. ASSUME ~doubt', deletes' = 0, Imports!FromNotion' PROVE ImPlaced'
  <2>1. UNCHANGED pages
    BY <1>5 DEF SamePages
  <2>2. CASE at.pc = "asked"
    BY <1>1, <2>1, <2>2 DEF ImCounts, ImPlaced
  <2>3. CASE at.pc # "asked"
    BY <1>5, <2>1, <2>3 DEF ImInv, ImPlaced, Imports!FromNotion
  <2> QED
    BY <2>2, <2>3
<1> QED
  BY <1>2, <1>4, <1>5 DEF ImInv

LEMMA ImStep == ImInv /\ (Imports!ImportsNext \/ UNCHANGED imVars) => ImInv'
<1> SUFFICES ASSUME ImInv, Imports!ImportsNext \/ UNCHANGED imVars PROVE ImInv'
  OBVIOUS
<1>1. /\ zip \in [format : {"none", "notion", "confluence"}, sort : [File -> Imports!Sort]]
      /\ left \in SUBSET File
      /\ at \in [pc : {"asked", "refused", "next", "walk", "create", "done", "dead"},
                 file : File \cup {"none"}, frames : Nat]
      /\ known \in [DOMAIN Folders -> Nat]
      /\ pages \in Seq(ImPage)
      /\ imported \in Nat /\ skipped \in Nat /\ doubt \in BOOLEAN /\ deletes \in Nat
  BY DEF ImInv, ImTyped
<1>2. ImCounts /\ ImKnows
  BY DEF ImInv
<1>3. Cardinality(left) \in Nat /\ Cardinality(File) \in Nat
      /\ \A f \in left : Cardinality(left \ {f}) = Cardinality(left) - 1
  BY <1>1, ImSizes, LeftCounts
<1>4. UNCHANGED <<pages, deletes>> => SamePages
  BY <1>1 DEF SamePages
<1>5. /\ Imports!Between = [pc |-> "next", file |-> "none", frames |-> 0]
      /\ ~Busy(Imports!Between)
      /\ Imports!Between \in [pc : {"asked", "refused", "next", "walk", "create", "done", "dead"},
                              file : File \cup {"none"}, frames : Nat]
  BY DEF Imports!Between, Busy
\* The file in hand is counted as skipped.
<1>6. ASSUME Busy(at), Imports!Skip, UNCHANGED left PROVE ImInv'
  <2>1. skipped' = skipped + 1 /\ at' = Imports!Between
        /\ UNCHANGED <<zip, known, pages, imported, doubt, deletes, left>>
    BY <1>6 DEF Imports!Skip
  <2>2. ImTyped'
    BY <1>1, <1>5, <2>1 DEF ImTyped
  <2>3. ImCounts'
    BY <1>1, <1>2, <1>3, <1>5, <1>6, <2>1 DEF ImCounts
  <2> QED
    BY <1>4, <1>5, <2>1, <2>2, <2>3, ImSame
<1>7. ASSUME NEW format \in {"notion", "confluence"}, Imports!Upload(format) PROVE ImInv'
  <2>1. /\ at.pc = "asked" /\ zip' = [zip EXCEPT !.format = format]
        /\ at' \in {Imports!Between, [at EXCEPT !.pc = "refused"]}
        /\ UNCHANGED <<left, known, pages, imported, skipped, doubt, deletes>>
    BY <1>7 DEF Imports!Upload
  <2>2. zip' \in [format : {"none", "notion", "confluence"}, sort : [File -> Imports!Sort]]
        /\ zip'.sort = zip.sort
    BY <1>1, <2>1
  <2>3. at' \in [pc : {"asked", "refused", "next", "walk", "create", "done", "dead"},
                 file : File \cup {"none"}, frames : Nat]
        /\ at'.pc \in {"next", "refused"}
    BY <1>1, <1>5, <2>1
  <2>4. ImTyped'
    BY <1>1, <2>1, <2>2, <2>3 DEF ImTyped
  <2>5. ImCounts'
    BY <1>1, <1>2, <1>3, <2>1, <2>3 DEF ImCounts, Busy
  <2> QED
    BY <1>4, <2>1, <2>2, <2>3, <2>4, <2>5, ImSame DEF Busy
<1>8. ASSUME NEW f \in File, Imports!SkipFile(f) PROVE ImInv'
  <2>1. /\ at = Imports!Between /\ f \in left /\ left' = left \ {f} /\ at' = at
        /\ skipped' = skipped + 1
        /\ UNCHANGED <<zip, known, pages, imported, doubt, deletes>>
    BY <1>8 DEF Imports!SkipFile, Imports!Skip
  <2>2. ImTyped'
    BY <1>1, <2>1 DEF ImTyped
  <2>3. ImCounts'
    BY <1>1, <1>2, <1>3, <1>5, <2>1 DEF ImCounts
  <2> QED
    BY <1>4, <1>5, <2>1, <2>2, <2>3, ImSame
<1>9. ASSUME NEW f \in File, Imports!TakeFile(f) PROVE ImInv'
  <2>1. PICK pc \in {"create", "walk"} :
            /\ at = Imports!Between /\ f \in left /\ left' = left \ {f} /\ Readable(f)
            /\ at' = [pc |-> pc, file |-> f, frames |-> 0]
            /\ UNCHANGED <<zip, known, pages, imported, skipped, doubt, deletes>>
    BY <1>9 DEF Imports!TakeFile, Readable
  <2>2. ImTyped'
    BY <1>1, <2>1 DEF ImTyped
  <2>3. ImCounts'
    BY <1>1, <1>2, <1>3, <1>5, <2>1 DEF ImCounts, Busy, Readable
  <2> QED
    BY <1>4, <2>1, <2>2, <2>3, ImSame
<1>10. CASE Imports!Walk
  <2>1. /\ Busy(at) /\ UNCHANGED <<zip, left, known, pages, imported, skipped, doubt, deletes>>
        /\ \/ at' = [at EXCEPT !.pc = "create"] \/ at' = [at EXCEPT !.frames = @ + 1]
           \/ at' = [at EXCEPT !.pc = "dead"]
    BY <1>10 DEF Imports!Walk, Busy
  <2>2. at' \in [pc : {"asked", "refused", "next", "walk", "create", "done", "dead"},
                 file : File \cup {"none"}, frames : Nat]
        /\ Busy(at') /\ at'.file = at.file
    BY <1>1, <2>1 DEF Busy
  <2>3. ImTyped'
    BY <1>1, <2>1, <2>2 DEF ImTyped
  <2>4. ImCounts'
    BY <1>1, <1>2, <1>3, <2>1, <2>2 DEF ImCounts, Busy, Readable
  <2> QED
    BY <1>4, <2>1, <2>2, <2>3, <2>4, ImSame
<1>11. CASE Imports!EnsureFolder
  <2>1. at.pc = "create" /\ at.file \in File /\ Imports!Missing(at.file) # {} /\ Busy(at)
        /\ at.file \notin left /\ Readable(at.file)
    BY <1>2, <1>11 DEF Imports!EnsureFolder, ImCounts, Busy
  <2>2. PICK d : d = Imports!Min(Imports!Missing(at.file))
    OBVIOUS
  <2>3. d \in DOMAIN Folders /\ known[d] = 0 /\ Folders[d] \in Paths
    BY <2>1, <2>2, LeastMissing DEF Imports!Missing, Imports!Folder, Paths
  <2>4. CASE Imports!Skip /\ UNCHANGED left
    BY <1>6, <2>1, <2>4
  <2>5. CASE /\ pages' = Append(pages, Imports!NewPage(Folders[d], Imports!Above(d)))
             /\ known' = Imports!Known(d)
             /\ UNCHANGED <<zip, left, at, imported, skipped, doubt, faults, deletes>>
    <3>1. Imports!Above(d) \in Nat
      <4>1. d # 1 => d - 1 \in DOMAIN Folders
        BY <2>3, ImSizes
      <4> QED
        BY <1>1, <4>1 DEF Imports!Above
    <3>2. PICK page \in ImPage : page = Imports!NewPage(Folders[d], Imports!Above(d))
      BY <2>3, <3>1 DEF Imports!NewPage, ImPage
    <3>3. page.of = Folders[d]
      BY <3>2 DEF Imports!NewPage
    <3>4. pages' = Append(pages, page) /\ known' = [known EXCEPT ![d] = Len(pages) + 1]
      BY <2>5, <3>2 DEF Imports!Known
    <3>5. /\ pages' \in Seq(ImPage) /\ Len(pages) \in Nat /\ Len(pages) + 1 # 0
          /\ DOMAIN pages' = DOMAIN pages \cup {Len(pages) + 1}
          /\ Len(pages) + 1 \notin DOMAIN pages
          /\ pages'[Len(pages) + 1] = page
          /\ \A p \in DOMAIN pages : pages'[p] = pages[p]
      BY <3>4, PagesAppended DEF ImInv
    <3>6. ImTyped'
      <4>1. known' \in [DOMAIN Folders -> Nat]
        BY <1>1, <2>3, <3>4, <3>5
      <4> QED
        BY <1>1, <2>5, <3>5, <4>1 DEF ImTyped
    <3>7. ImCounts'
      BY <1>2, <2>1, <2>5 DEF ImCounts, Readable
    <3>8. /\ known'[d] = Len(pages) + 1
          /\ \A e \in DOMAIN Folders : e # d => known'[e] = known[e]
      BY <1>1, <2>3, <3>4
    <3>9. ImKnows'
      BY <1>2, <3>3, <3>5, <3>8 DEF ImKnows
    <3>10. ASSUME ~doubt' PROVE ImOnce'
      <4>1. ImOnce
        BY <2>5, <3>10 DEF ImInv
      <4>2. \A p \in DOMAIN pages : pages[p].of # page.of
        BY <2>3, <3>3, <4>1 DEF ImOnce
      <4>3. Made(pages') = Made(pages)
            /\ \A p, q \in DOMAIN pages' : pages'[p].of = pages'[q].of => p = q
        BY <2>3, <3>3, <3>4, <4>1, <4>2, MadeGrows DEF ImOnce, ImInv
      <4>4. page.of \notin File
        BY <2>3, <3>3, ImSizes
      <4>5. \A p \in DOMAIN pages' : pages'[p].of \notin left'
                                    /\ (Busy(at') => pages'[p].of # at'.file)
        BY <1>1, <2>1, <2>5, <3>5, <4>1, <4>4 DEF ImOnce
      <4>6. \A p \in DOMAIN pages' : pages'[p].of \in File =>
                                       zip'.sort[pages'[p].of] \in {"text", "quoted"}
        BY <2>5, <3>5, <4>1, <4>4 DEF ImOnce, Readable
      <4>7. \A e \in DOMAIN Folders : known'[e] = 0 =>
                \A p \in DOMAIN pages' : pages'[p].of # Folders[e]
        <5> SUFFICES ASSUME NEW e \in DOMAIN Folders, known'[e] = 0, NEW p \in DOMAIN pages'
                     PROVE  pages'[p].of # Folders[e]
          OBVIOUS
        <5>1. e # d /\ known[e] = 0 /\ Folders[e] # Folders[d]
          BY <2>3, <3>5, <3>8, ImSizes
        <5> QED
          BY <3>3, <3>5, <4>1, <5>1 DEF ImOnce
      <4>8. imported' = Cardinality(Made(pages'))
        BY <2>5, <4>1, <4>3 DEF ImOnce
      <4> QED
        BY <4>3, <4>5, <4>6, <4>7, <4>8 DEF ImOnce, Readable
    <3>11. ASSUME ~doubt', deletes' = 0, Imports!FromNotion' PROVE ImPlaced'
      <4>1. ImPlaced
        BY <2>5, <3>11 DEF ImInv, Imports!FromNotion
      <4>2. page.of \notin File
        BY <2>3, <3>3, ImSizes
      <4>3. \A e \in DOMAIN Folders : known[e] # 0 => known'[e] = known[e]
        BY <2>3, <3>8
      <4>4. \A f \in File : FolderOf[f] # 0 => FolderOf[f] \in DOMAIN Folders
        BY ImSizes
      <4> SUFFICES ASSUME NEW p \in DOMAIN pages, pages[p].of \in File
                   PROVE  IF FolderOf[pages[p].of] = 0 THEN pages[p].parent = 0
                          ELSE known'[FolderOf[pages[p].of]] # 0
                               /\ pages[p].parent = known'[FolderOf[pages[p].of]]
        BY <3>5, <4>2 DEF ImPlaced
      <4> QED
        BY <4>1, <4>3, <4>4 DEF ImPlaced
    <3> QED
      BY <3>6, <3>7, <3>9, <3>10, <3>11 DEF ImInv
  <2> QED
    BY <1>11, <2>2, <2>4, <2>5 DEF Imports!EnsureFolder
<1>12. CASE Imports!CreatePage
  <2>1. at.pc = "create" /\ at.file \in File /\ Imports!Missing(at.file) = {} /\ Busy(at)
        /\ at.file \notin left /\ Readable(at.file)
    BY <1>2, <1>12 DEF Imports!CreatePage, ImCounts, Busy
  <2>2. CASE Imports!Skip /\ UNCHANGED left
    BY <1>6, <2>1, <2>2
  <2>3. CASE /\ pages' = Append(pages, Imports!NewPage(at.file, Imports!ParentOf(at.file)))
             /\ imported' = imported + 1 /\ at' = Imports!Between
             /\ UNCHANGED <<zip, left, known, skipped, doubt, faults, deletes>>
    <3>1. /\ Imports!ParentOf(at.file) \in Nat
          /\ Imports!FromNotion =>
                IF FolderOf[at.file] = 0 THEN Imports!ParentOf(at.file) = 0
                ELSE known[FolderOf[at.file]] # 0
                     /\ Imports!ParentOf(at.file) = known[FolderOf[at.file]]
      <4>1. FolderOf[at.file] # 0 => FolderOf[at.file] \in DOMAIN Folders
            /\ FolderOf[at.file] <= FolderOf[at.file]
        BY <2>1, ImSizes
      <4>2. FolderOf[at.file] # 0 /\ Imports!FromNotion => known[FolderOf[at.file]] # 0
        BY <2>1, <4>1 DEF Imports!Missing, Imports!Folder
      <4> QED
        BY <1>1, <4>1, <4>2 DEF Imports!ParentOf
    <3>2. PICK page \in ImPage : page = Imports!NewPage(at.file, Imports!ParentOf(at.file))
      BY <2>1, <3>1 DEF Imports!NewPage, ImPage
    <3>3. page.of = at.file /\ page.parent = Imports!ParentOf(at.file)
      BY <3>2 DEF Imports!NewPage
    <3>4. pages' = Append(pages, page)
      BY <2>3, <3>2
    <3>5. /\ pages' \in Seq(ImPage) /\ Len(pages) \in Nat /\ Len(pages) + 1 # 0
          /\ DOMAIN pages' = DOMAIN pages \cup {Len(pages) + 1}
          /\ Len(pages) + 1 \notin DOMAIN pages
          /\ pages'[Len(pages) + 1] = page
          /\ \A p \in DOMAIN pages : pages'[p] = pages[p]
      BY <3>4, PagesAppended DEF ImInv
    <3>6. ImTyped'
      BY <1>1, <1>5, <2>3, <3>5 DEF ImTyped
    <3>7. ImCounts'
      BY <1>1, <1>2, <1>3, <1>5, <2>1, <2>3 DEF ImCounts
    <3>8. ImKnows'
      BY <1>2, <2>3, <3>5 DEF ImKnows
    <3>9. ASSUME ~doubt' PROVE ImOnce'
      <4>1. ImOnce
        BY <2>3, <3>9 DEF ImInv
      <4>2. \A p \in DOMAIN pages : pages[p].of # page.of
        BY <2>1, <3>3, <4>1 DEF ImOnce
      <4>3. Cardinality(Made(pages')) = Cardinality(Made(pages)) + 1
            /\ \A p, q \in DOMAIN pages' : pages'[p].of = pages'[q].of => p = q
        BY <2>1, <3>3, <3>4, <4>1, <4>2, MadeGrows DEF ImOnce, ImInv
      <4>4. page.of \notin left /\ page.of \notin Paths
        BY <2>1, <3>3, ImSizes
      <4>5. \A p \in DOMAIN pages' : pages'[p].of \notin left'
                                    /\ (Busy(at') => pages'[p].of # at'.file)
        BY <1>5, <2>3, <3>5, <4>1, <4>4 DEF ImOnce
      <4>6. \A p \in DOMAIN pages' : pages'[p].of \in File =>
                                       zip'.sort[pages'[p].of] \in {"text", "quoted"}
        BY <2>1, <2>3, <3>3, <3>5, <4>1 DEF ImOnce, Readable
      <4>7. \A e \in DOMAIN Folders : known'[e] = 0 =>
                \A p \in DOMAIN pages' : pages'[p].of # Folders[e]
        BY <2>3, <3>5, <4>1, <4>4 DEF ImOnce, Paths
      <4>8. imported' = Cardinality(Made(pages'))
        BY <2>3, <4>1, <4>3 DEF ImOnce
      <4> QED
        BY <4>3, <4>5, <4>6, <4>7, <4>8 DEF ImOnce, Readable
    <3>10. ASSUME ~doubt', deletes' = 0, Imports!FromNotion' PROVE ImPlaced'
      <4>1. ImPlaced /\ Imports!FromNotion
        BY <2>3, <3>10 DEF ImInv, Imports!FromNotion
      <4> QED
        BY <2>3, <3>1, <3>3, <3>5, <4>1 DEF ImPlaced
    <3> QED
      BY <3>6, <3>7, <3>8, <3>9, <3>10 DEF ImInv
  <2> QED
    BY <1>12, <2>2, <2>3 DEF Imports!CreatePage
<1>13. CASE Imports!CreateFails
  <2>1. at.pc = "create" /\ at.file \in File /\ Busy(at)
    BY <1>2, <1>13 DEF Imports!CreateFails, ImCounts, Busy
  <2>2. skipped' = skipped + 1 /\ at' = Imports!Between
        /\ UNCHANGED <<zip, left, known, imported, deletes>>
    BY <1>13 DEF Imports!CreateFails
  <2>3. CASE UNCHANGED <<pages, doubt>>
    <3>1. Imports!Skip /\ UNCHANGED left
      BY <2>2, <2>3 DEF Imports!Skip
    <3> QED
      BY <1>6, <2>1, <3>1
  <2>4. PICK d : d = Imports!Min(Imports!Missing(at.file))
    OBVIOUS
  <2>5. PICK page :
            page = IF Imports!Missing(at.file) = {}
                   THEN Imports!NewPage(at.file, Imports!ParentOf(at.file))
                   ELSE Imports!NewPage(Folders[d], Imports!Above(d))
    OBVIOUS
  <2>6. CASE pages' = Append(pages, page) /\ doubt' = TRUE
    <3>1. page \in ImPage
      <4>1. CASE Imports!Missing(at.file) = {}
        <5>1. FolderOf[at.file] # 0 => FolderOf[at.file] \in DOMAIN Folders
          BY <2>1, ImSizes
        <5>2. Imports!ParentOf(at.file) \in Nat
          BY <1>1, <5>1 DEF Imports!ParentOf
        <5> QED
          BY <2>1, <2>5, <4>1, <5>2 DEF Imports!NewPage, ImPage
      <4>2. CASE Imports!Missing(at.file) # {}
        <5>1. d \in DOMAIN Folders /\ Folders[d] \in Paths
          BY <2>1, <2>4, <4>2, LeastMissing DEF Imports!Missing, Imports!Folder, Paths
        <5>2. d # 1 => d - 1 \in DOMAIN Folders
          BY <5>1, ImSizes
        <5>3. Imports!Above(d) \in Nat
          BY <1>1, <5>2 DEF Imports!Above
        <5> QED
          BY <2>5, <4>2, <5>1, <5>3 DEF Imports!NewPage, ImPage
      <4> QED
        BY <4>1, <4>2
    <3>2. /\ pages' \in Seq(ImPage) /\ DOMAIN pages' = DOMAIN pages \cup {Len(pages) + 1}
          /\ \A p \in DOMAIN pages : pages'[p] = pages[p]
      BY <2>6, <3>1, PagesAppended DEF ImInv
    <3>3. ImTyped'
      BY <1>1, <1>5, <2>2, <2>6, <3>2 DEF ImTyped
    <3>4. ImCounts'
      BY <1>1, <1>2, <1>3, <1>5, <2>1, <2>2 DEF ImCounts
    <3>5. ImKnows'
      BY <1>2, <2>2, <3>2 DEF ImKnows
    <3> QED
      BY <2>6, <3>3, <3>4, <3>5 DEF ImInv
  <2> QED
    BY <1>13, <2>3, <2>4, <2>5, <2>6 DEF Imports!CreateFails
<1>14. CASE Imports!Finish
  <2>1. /\ at = Imports!Between /\ left = {} /\ at' = [at EXCEPT !.pc = "done"]
        /\ UNCHANGED <<zip, left, known, pages, imported, skipped, doubt, deletes>>
    BY <1>14 DEF Imports!Finish
  <2>2. at' \in [pc : {"asked", "refused", "next", "walk", "create", "done", "dead"},
                 file : File \cup {"none"}, frames : Nat]
        /\ ~Busy(at') /\ at'.pc = "done"
    BY <1>1, <2>1 DEF Busy
  <2>3. ImTyped'
    BY <1>1, <2>1, <2>2 DEF ImTyped
  <2>4. ImCounts'
    BY <1>2, <1>5, <2>1, <2>2 DEF ImCounts
  <2> QED
    BY <1>4, <2>1, <2>2, <2>3, <2>4, ImSame
<1>15. ASSUME NEW x \in DOMAIN pages, Imports!DeletePage(x) PROVE ImInv'
  <2>1. /\ deletes' = deletes + 1
        /\ pages' = [q \in DOMAIN pages |->
                        IF q = x THEN [pages[x] EXCEPT !.there = FALSE]
                        ELSE IF pages[q].parent = x
                             THEN [pages[q] EXCEPT !.parent = pages[x].parent]
                        ELSE pages[q]]
        /\ UNCHANGED <<zip, left, at, known, imported, skipped, doubt>>
    BY <1>15 DEF Imports!DeletePage
  <2>2. ASSUME NEW q \in DOMAIN pages PROVE pages'[q] \in ImPage /\ pages'[q].of = pages[q].of
    <3>1. pages[q] \in ImPage /\ pages[x] \in ImPage
      BY <1>1
    <3>2. PICK a, b \in ImPage : a = pages[q] /\ b = pages[x]
      BY <3>1
    <3>3. pages'[q] = IF q = x THEN [a EXCEPT !.there = FALSE]
                      ELSE IF a.parent = x THEN [a EXCEPT !.parent = b.parent] ELSE a
      BY <2>1, <3>2
    <3> QED
      BY <3>2, <3>3 DEF ImPage
  <2>3. DOMAIN pages' = 1..Len(pages) /\ DOMAIN pages = 1..Len(pages) /\ Len(pages) \in Nat
    BY <1>1, <2>1
  <2>4. pages' \in Seq(ImPage)
    <3>1. pages' = [q \in 1..Len(pages) |-> pages'[q]]
      BY <2>1, <2>3
    <3> QED
      BY <2>2, <2>3, <3>1
  <2>5. deletes' \in Nat /\ deletes' # 0
    BY <1>1, <2>1
  <2>6. SamePages
    BY <2>2, <2>3, <2>4, <2>5 DEF SamePages
  <2>7. ImTyped'
    BY <1>1, <2>1, <2>4, <2>5 DEF ImTyped
  <2>8. ImCounts'
    <3>1. pages # <<>>
      BY <1>15
    <3> QED
      BY <1>2, <2>1, <3>1 DEF ImCounts, Readable
  <2> QED
    BY <2>1, <2>5, <2>6, <2>7, <2>8, ImSame
<1>16. CASE UNCHANGED imVars
  BY <1>16 DEF imVars, ImInv, ImTyped, ImCounts, ImKnows, ImOnce, ImPlaced,
               Imports!FromNotion, Readable
<1> QED
  BY <1>7, <1>8, <1>9, <1>10, <1>11, <1>12, <1>13, <1>14, <1>15, <1>16
     DEF Imports!ImportsNext, Imports!Confluence, Imports!Notion

LEMMA ImTells == ImInv => Imports!ImportAccounts
<1> SUFFICES ASSUME ImInv, at.pc = "done" PROVE Imports!ImportAccounts
  BY DEF Imports!ImportAccounts
<1>1. ImTyped /\ ImCounts /\ ImKnows /\ left = {}
  BY DEF ImInv, ImCounts
<1>2. Imports!Read = {f \in File : Readable(f)}
  BY DEF Imports!Read, Readable
<1>3. imported + skipped = Imports!Cardinality(File)
  <2>1. Cardinality(left) = 0 /\ ~Busy(at)
    BY <1>1, FS_EmptySet DEF Busy
  <2>2. imported \in Nat /\ skipped \in Nat
    BY <1>1 DEF ImTyped
  <2> QED
    BY <1>1, <2>1, <2>2, FilesCount DEF ImCounts
<1>4. ASSUME ~doubt
      PROVE  /\ imported = Imports!Cardinality({f \in Imports!Read : Imports!PagesOf(f) # {}})
             /\ \A x \in Imports!Read \cup Imports!ToSet(Folders) :
                   Imports!Cardinality(Imports!PagesOf(x)) <= 1
  <2>1. ImOnce
    BY <1>4 DEF ImInv
  <2>2. {f \in Imports!Read : Imports!PagesOf(f) # {}} = Made(pages)
    BY <1>2, <2>1 DEF ImOnce, Made, Imports!PagesOf
  <2>3. ASSUME NEW x PROVE Cardinality(Imports!PagesOf(x)) <= 1
    <3>1. Imports!PagesOf(x) = {} \/ \E p : Imports!PagesOf(x) = {p}
      BY <2>1 DEF ImOnce, Imports!PagesOf
    <3>2. Cardinality(Imports!PagesOf(x)) \in {0, 1}
      BY <3>1, FS_EmptySet, FS_Singleton
    <3> QED
      BY <3>2
  <2> QED
    BY <2>1, <2>2, <2>3, FilesCount DEF ImOnce
<1>5. ASSUME ~doubt, deletes = 0, Imports!FromNotion,
             NEW f \in Imports!Read, NEW p \in Imports!PagesOf(f)
      PROVE  IF FolderOf[f] = 0 THEN pages[p].parent = 0
             ELSE pages[p].parent \in Imports!PagesOf(Folders[FolderOf[f]])
  <2>1. f \in File /\ p \in DOMAIN pages /\ pages[p].of = f
    BY <1>2, <1>5 DEF Imports!PagesOf
  <2>2. ImPlaced
    BY <1>5 DEF ImInv
  <2>3. FolderOf[f] # 0 => FolderOf[f] \in DOMAIN Folders
    BY <2>1, ImSizes
  <2> QED
    BY <1>1, <2>1, <2>2, <2>3 DEF ImPlaced, ImKnows, Imports!PagesOf
<1> QED
  BY <1>3, <1>4, <1>5 DEF Imports!ImportAccounts

(* What an import or a template made is what was counted, for any zip, any folders and any  *)
(* number of users of a template (importer/importer.go ImportFromNotion,                   *)
(* templatelib/store.go UseTemplate): a failure of the import leaves a page nobody counts   *)
(* only if its answer was lost.                                                           *)
THEOREM MintsCounted == DocumentsSpec => []MintsAreCounted
<1>1. Templates!TemplatesSizes
  BY DocumentsAssumption
<1>2. DocumentsInit => TplInv /\ ImInv
  BY <1>1, TplStarts, ImStarts DEF DocumentsInit, DocumentsStart
<1>3. TplInv /\ ImInv /\ [DocumentsNext]_docVars => (TplInv /\ ImInv)'
  BY <1>1, PartSteps, TplStep, ImStep
<1>4. TplInv /\ ImInv => MintsAreCounted
  BY <1>1, TplTells, ImTells DEF MintsAreCounted
<1> QED
  BY <1>2, <1>3, <1>4, PTL DEF DocumentsSpec

-----------------------------------------------------------------------------
(* The changelog.                                                           *)

Kinds == Changelog!Kind

Requests == [pc : {"rest", "body", "badge", "insert"}, asked : Seq(Issue), at : Nat,
             heard : Changelog!Heard, lines : Seq(Changelog!Line), kinds : SUBSET Kinds, upset : SUBSET Changelog!Upset]

Entries == [there : BOOLEAN, type : Kinds \cup {"other"}, lines : Seq(Changelog!Line),
            asked : Seq(Issue), published : Nat, generated : BOOLEAN, upset : SUBSET Changelog!Upset]

Fetches == [Caller -> {Changelog!Quiet} \cup [issue : Issue, heard : Changelog!Heard]]

ClTyped ==
    /\ label \in [Issue -> Kinds] /\ cache \in [Issue -> Kinds \cup {"cold"}]
    /\ configured \in BOOLEAN /\ clock \in Nat /\ misses \in Nat
    /\ fetches \in Fetches /\ gen \in Requests /\ entries \in Seq(Entries)

\* What a lookup says of the issue of a line as long as nothing was missed since.
Says(line) == IF configured THEN line.kind = cache[line.issue] ELSE line.kind = "improvement"

Issues(lines) == [k \in DOMAIN lines |-> lines[k].issue]

KindsOf(lines, n) == {lines[k].kind : k \in 1..n}

(* The request has read the first at - 1 issues for the body, or for the badge, and every *)
(* line of the body still is what a lookup says; Track is asked for no issue of a line.    *)
GenStands(g) ==
    /\ g.heard # "nothing" =>
          /\ configured /\ g.pc \in {"body", "badge"}
          /\ g.upset # {} \/ \A k \in DOMAIN g.lines : g.lines[k].issue # g.asked[g.at]
    /\ g.upset # {} \/ \A k \in DOMAIN g.lines : Says(g.lines[k])
    /\ g.pc = "body" => /\ g.at \in 1..Len(g.asked) /\ g.kinds = {}
                        /\ Len(g.lines) = g.at - 1
                        /\ \A k \in 1..Len(g.lines) : g.lines[k].issue = g.asked[k]
    /\ g.pc = "badge" => /\ g.at \in 1..Len(g.asked)
                         /\ Issues(g.lines) = g.asked
                         /\ g.upset # {} \/ g.kinds = KindsOf(g.lines, g.at - 1)
    /\ g.pc = "insert" => /\ Issues(g.lines) = g.asked
                          /\ g.upset # {} \/ g.kinds = KindsOf(g.lines, Len(g.lines))

EntryStands(e) ==
    e.there /\ e.generated =>
        /\ Issues(e.lines) = e.asked
        /\ e.upset = {} => e.type = Changelog!dominantType({e.lines[k].kind : k \in DOMAIN e.lines})

ClInv ==
    /\ ClTyped /\ GenStands(gen)
    /\ \A i \in DOMAIN entries : EntryStands(entries[i])

LEMMA DominantIsOne == \A K \in SUBSET Kinds : Changelog!dominantType(K) \in Kinds
<1> SUFFICES ASSUME NEW K \in SUBSET Kinds, K # {} PROVE Changelog!dominantType(K) \in Kinds
  BY DEF Changelog!dominantType, Kinds, Changelog!Kind
<1> DEFINE I == {i \in 1..6 : Changelog!Rank[i] \in K}
<1>1. /\ DOMAIN Changelog!Rank = 1..6
      /\ \A i \in 1..6 : Changelog!Rank[i] \in Kinds
      /\ \A k \in Kinds : \E i \in 1..6 : Changelog!Rank[i] = k
  BY DEF Changelog!Rank, Kinds, Changelog!Kind
<1>2. I \in SUBSET Nat /\ I # {}
  BY <1>1
<1>3. \E i \in I : \A j \in I : i <= j
  <2> HIDE DEF I
  <2> QED
    BY <1>2, LeastOne
<1>4. PICK i \in DOMAIN Changelog!Rank :
          Changelog!Rank[i] \in K
          /\ \A j \in DOMAIN Changelog!Rank : Changelog!Rank[j] \in K => i <= j
  BY <1>1, <1>3
<1>5. (CHOOSE n \in DOMAIN Changelog!Rank :
          Changelog!Rank[n] \in K
          /\ \A j \in DOMAIN Changelog!Rank : Changelog!Rank[j] \in K => n <= j)
      \in DOMAIN Changelog!Rank
  BY <1>4, Zenon
<1> QED
  BY <1>1, <1>5 DEF Changelog!dominantType

LEMMA ClStarts ==
    Changelog!ChangelogInit => ClInv
<1> SUFFICES ASSUME Changelog!ChangelogInit PROVE ClInv
  OBVIOUS
<1>1. /\ gen = [pc |-> "rest", asked |-> <<>>, at |-> 1, heard |-> "nothing", lines |-> <<>>,
                kinds |-> {}, upset |-> {}]
      /\ entries = <<>>
  BY DEF Changelog!ChangelogInit, Changelog!Resting
<1>2. gen \in Requests
  BY <1>1 DEF Requests, Changelog!Heard
<1>3. ClTyped
  BY <1>1, <1>2 DEF Changelog!ChangelogInit, ClTyped, Fetches, Kinds, Changelog!Kind
<1>4. GenStands(gen)
  BY <1>1 DEF GenStands
<1> QED
  BY <1>1, <1>3, <1>4 DEF ClInv

(* One lookup: what it says is what the next one will say, unless it failed. *)
LEMMA LookupSays ==
    ASSUME ClTyped, NEW issue \in Issue, NEW kind \in Kinds \cup {"none"},
           Changelog!lookupIssue(issue, kind), configured' = configured,
           gen.heard # "nothing" => configured
    PROVE  /\ cache' \in [Issue -> Kinds \cup {"cold"}] /\ misses' \in Nat
           /\ Changelog!issueType(kind) \in Kinds
           /\ misses' = misses =>
                 IF configured THEN Changelog!issueType(kind) = cache'[issue]
                 ELSE Changelog!issueType(kind) = "improvement"
           /\ \A line \in Changelog!Line :
                 Says(line) /\ (gen.heard # "nothing" => line.issue # issue) => Says(line)'
           /\ gen.heard = "nothing" =>
                 \A line \in Changelog!Line :
                    Says(line) /\ line.issue = issue /\ misses' = misses
                    => line.kind = Changelog!issueType(kind)
<1>1. /\ cache \in [Issue -> Kinds \cup {"cold"}] /\ misses \in Nat
      /\ "none" \notin Kinds /\ "cold" \notin Kinds /\ "improvement" \in Kinds
      /\ "nothing" \notin Kinds /\ misses + 1 # misses
  BY DEF ClTyped, Kinds, Changelog!Kind
<1>2. \A line \in Changelog!Line : line.issue \in Issue /\ line.kind \in Kinds
  BY DEF Changelog!Line, Kinds
<1>3. CASE ~configured /\ kind = "none" /\ UNCHANGED <<cache, misses>>
  BY <1>1, <1>2, <1>3 DEF Says, Changelog!issueType
<1>4. CASE /\ configured /\ gen.heard = "nothing" /\ cache[issue] # "cold" /\ kind = cache[issue]
           /\ UNCHANGED <<cache, misses>>
  BY <1>1, <1>2, <1>4 DEF Says, Changelog!issueType
<1>5. CASE /\ gen.heard \in Kinds /\ kind = gen.heard
           /\ cache' = [cache EXCEPT ![issue] = kind] /\ UNCHANGED misses
  BY <1>1, <1>2, <1>5 DEF Says, Changelog!issueType
<1>6. CASE /\ gen.heard # "nothing" /\ kind = "none"
           /\ misses' = misses + 1 /\ UNCHANGED cache
  BY <1>1, <1>2, <1>6 DEF Says, Changelog!issueType
<1> QED
  BY <1>3, <1>4, <1>5, <1>6 DEF Changelog!lookupIssue, Changelog!Cached, Kinds

LEMMA ClStep == ClInv /\ (Changelog!ChangelogNext \/ UNCHANGED clVars) => ClInv'
<1> SUFFICES ASSUME ClInv, Changelog!ChangelogNext \/ UNCHANGED clVars PROVE ClInv'
  OBVIOUS
<1>1. /\ label \in [Issue -> Kinds] /\ cache \in [Issue -> Kinds \cup {"cold"}]
      /\ configured \in BOOLEAN /\ clock \in Nat /\ misses \in Nat
      /\ fetches \in Fetches /\ gen \in Requests /\ entries \in Seq(Entries)
      /\ GenStands(gen) /\ \A i \in DOMAIN entries : EntryStands(entries[i])
  BY DEF ClInv, ClTyped
<1>2. /\ gen.pc \in {"rest", "body", "badge", "insert"} /\ gen.asked \in Seq(Issue)
      /\ gen.at \in Nat /\ gen.heard \in Changelog!Heard
      /\ gen.lines \in Seq(Changelog!Line) /\ gen.kinds \in SUBSET Kinds /\ gen.upset \in SUBSET Changelog!Upset
  BY <1>1 DEF Requests
\* Only the entries change, ...
<1>3. ASSUME UNCHANGED <<label, configured, cache, fetches, gen, misses>>, clock' \in Nat,
             entries' \in Seq(Entries), \A i \in DOMAIN entries' : EntryStands(entries'[i])
      PROVE  ClInv'
  BY <1>1, <1>3 DEF ClInv, ClTyped, GenStands, Says
\* ... one of them, to something that is not generated or says the same, ...
<1>4. ASSUME UNCHANGED <<label, configured, cache, fetches, gen, misses>>, clock' \in Nat,
             NEW i \in DOMAIN entries, NEW e \in Entries, entries' = [entries EXCEPT ![i] = e],
             EntryStands(e)
      PROVE  ClInv'
  <2>1. entries' \in Seq(Entries) /\ DOMAIN entries' = DOMAIN entries
    BY <1>1, <1>4
  <2>2. \A j \in DOMAIN entries' : entries'[j] = IF j = i THEN e ELSE entries[j]
    BY <1>1, <1>4
  <2> QED
    BY <1>1, <1>3, <1>4, <2>1, <2>2
<1>5. ASSUME UNCHANGED <<label, configured, cache, fetches, gen, misses>>, clock' \in Nat,
             NEW e \in Entries, entries' = Append(entries, e), EntryStands(e)
      PROVE  ClInv'
  <2>1. entries' \in Seq(Entries) /\ DOMAIN entries' = 1..Len(entries) + 1
        /\ DOMAIN entries = 1..Len(entries) /\ Len(entries) \in Nat
    BY <1>1, <1>5
  <2>2. \A j \in DOMAIN entries' : entries'[j] = IF j = Len(entries) + 1 THEN e ELSE entries[j]
    BY <1>1, <1>5
  <2>3. \A j \in DOMAIN entries' : j = Len(entries) + 1 \/ j \in DOMAIN entries
    BY <2>1
  <2> QED
    BY <1>1, <1>3, <1>5, <2>1, <2>2, <2>3
\* ... or only the request and what it has read do.
<1>6. ASSUME UNCHANGED <<label, configured, entries, clock>>,
             cache' \in [Issue -> Kinds \cup {"cold"}],
             misses' \in Nat, fetches' \in Fetches, gen' \in Requests, GenStands(gen)'
      PROVE  ClInv'
  BY <1>1, <1>6 DEF ClInv, ClTyped
<1>7. gen' = Changelog!Resting => gen' \in Requests /\ GenStands(gen)'
  BY DEF Changelog!Resting, Requests, Changelog!Heard, GenStands
<1>8. ASSUME NEW n \in 0..MaxAsked, NEW asked1 \in [1..n -> Issue], Changelog!Generate(asked1)
      PROVE  ClInv'
  <2>1. PICK pc : pc = IF asked1 = <<>> THEN "insert" ELSE "body"
    OBVIOUS
  <2>2. asked1 \in Seq(Issue)
    OBVIOUS
  <2>3. gen' = [pc |-> pc, asked |-> asked1, at |-> 1, heard |-> "nothing", lines |-> <<>>,
                kinds |-> {}, upset |-> {}]
    BY <1>8, <2>1 DEF Changelog!Generate, Changelog!Resting
  <2>4. gen' \in Requests
    BY <2>1, <2>2, <2>3 DEF Requests, Changelog!Heard
  <2>5. asked1 # <<>> => 1 \in 1..Len(asked1)
    BY <2>2
  <2>6. Issues(<<>>) = <<>> /\ KindsOf(<<>>, Len(<<>>)) = {}
    BY DEF Issues, KindsOf
  <2>7. GenStands(gen)'
    BY <2>1, <2>3, <2>5, <2>6 DEF GenStands
  <2> QED
    BY <1>1, <1>6, <1>8, <2>4, <2>7 DEF Changelog!Generate
<1>9. CASE Changelog!buildContent
  <2>0. PICK issue : issue = gen.asked[gen.at]
    OBVIOUS
  <2>1. PICK kind \in Kinds \cup {"none"} :
            /\ issue = gen.asked[gen.at] /\ Changelog!lookupIssue(issue, kind)
            /\ gen' = [Changelog!Advanced("body", "badge") EXCEPT
                           !.lines = Append(@, [issue |-> issue, kind |-> Changelog!issueType(kind),
                                                named |-> kind # "none"])]
    BY <1>9, <2>0 DEF Changelog!buildContent, Kinds
  <2>2. /\ gen.pc = "body" /\ gen.at \in 1..Len(gen.asked) /\ Len(gen.lines) = gen.at - 1
        /\ gen.kinds = {} /\ \A k \in 1..Len(gen.lines) : gen.lines[k].issue = gen.asked[k]
        /\ UNCHANGED <<label, configured, fetches, entries, clock>>
    BY <1>1, <1>9 DEF Changelog!buildContent, GenStands
  <2>3. issue \in Issue
    BY <1>2, <2>1, <2>2
  <2>4. /\ cache' \in [Issue -> Kinds \cup {"cold"}] /\ misses' \in Nat
        /\ Changelog!issueType(kind) \in Kinds
        /\ misses' = misses =>
              IF configured THEN Changelog!issueType(kind) = cache'[issue]
              ELSE Changelog!issueType(kind) = "improvement"
        /\ \A l \in Changelog!Line :
              Says(l) /\ (gen.heard # "nothing" => l.issue # issue) => Says(l)'
    <3>1. gen.heard # "nothing" => configured
      BY <1>1 DEF GenStands
    <3> QED
      BY <1>1, <2>1, <2>2, <2>3, <3>1, LookupSays DEF ClTyped
  <2>5. PICK line : line = [issue |-> issue, kind |-> Changelog!issueType(kind),
                            named |-> kind # "none"]
    OBVIOUS
  <2>6. line \in Changelog!Line /\ line.issue = issue /\ (misses' = misses => Says(line)')
    BY <2>2, <2>3, <2>4, <2>5 DEF Changelog!Line, Kinds, Says
  <2>7. PICK pc, at1, u : /\ pc = IF gen.at = Len(gen.asked) THEN "badge" ELSE "body"
                          /\ at1 = IF gen.at = Len(gen.asked) THEN 1 ELSE gen.at + 1
                          /\ u = gen.upset \cup IF misses' # misses THEN {"missed"} ELSE {}
    OBVIOUS
  <2>8. gen' = [pc |-> pc, asked |-> gen.asked, at |-> at1, heard |-> "nothing",
                lines |-> Append(gen.lines, line), kinds |-> {}, upset |-> u]
    BY <1>1, <2>1, <2>2, <2>5, <2>7 DEF Changelog!Advanced, Changelog!Missed, Requests
  <2>9. PICK m : m = Append(gen.lines, line)
    OBVIOUS
  <2>10. /\ m \in Seq(Changelog!Line) /\ Len(m) = gen.at /\ DOMAIN m = 1..gen.at
         /\ \A k \in 1..gen.at : m[k] = IF k = gen.at THEN line ELSE gen.lines[k]
    BY <1>2, <2>2, <2>6, <2>9
  <2>11. \A k \in 1..gen.at : k # gen.at => k \in 1..Len(gen.lines) /\ k \in DOMAIN gen.lines
    BY <1>2, <2>2
  <2>12. \A k \in 1..gen.at : m[k].issue = gen.asked[k]
    BY <2>1, <2>2, <2>6, <2>10, <2>11
  <2>13. gen' \in Requests
    <3>1. u \in SUBSET Changelog!Upset
      BY <1>2, <2>7 DEF Changelog!Upset
    <3> QED
      BY <1>2, <2>4, <2>7, <2>8, <2>9, <2>10, <3>1 DEF Requests, Changelog!Heard
  <2>14. u # {} \/ \A k \in DOMAIN m : Says(m[k])'
    <3> SUFFICES ASSUME gen.upset = {}, misses' = misses, NEW k \in 1..gen.at PROVE Says(m[k])'
      BY <2>7, <2>10
    <3>1. k # gen.at => /\ gen.lines[k] \in Changelog!Line /\ Says(gen.lines[k])
                        /\ gen.heard # "nothing" => gen.lines[k].issue # issue
      BY <1>1, <1>2, <2>1, <2>11 DEF GenStands
    <3> QED
      BY <2>4, <2>6, <2>10, <3>1
  <2>15. CASE gen.at = Len(gen.asked)
    <3>1. pc = "badge" /\ at1 = 1 /\ 1 \in 1..Len(gen.asked)
      BY <1>2, <2>2, <2>7, <2>15
    <3>2. Issues(m) = gen.asked
      <4>1. /\ Len(gen.asked) \in Nat /\ DOMAIN gen.asked = 1..Len(gen.asked)
            /\ gen.asked = [k \in 1..Len(gen.asked) |-> gen.asked[k]]
        BY <1>2
      <4>2. Issues(m) = [k \in 1..Len(gen.asked) |-> m[k].issue]
        BY <2>10, <2>15 DEF Issues
      <4> QED
        BY <2>12, <2>15, <4>1, <4>2
    <3>3. KindsOf(m, 1 - 1) = {}
      BY DEF KindsOf
    <3> QED
      <4>1. GenStands(gen)'
        BY <2>8, <2>9, <2>14, <3>1, <3>2, <3>3 DEF GenStands
      <4> QED
        BY <1>1, <1>6, <2>2, <2>4, <2>13, <4>1
  <2>16. CASE gen.at # Len(gen.asked)
    <3>1. pc = "body" /\ at1 = gen.at + 1 /\ at1 \in 1..Len(gen.asked) /\ Len(m) = at1 - 1
      BY <1>2, <2>2, <2>7, <2>10, <2>16
    <3> QED
      <4>1. GenStands(gen)'
        BY <2>8, <2>9, <2>10, <2>12, <2>14, <3>1 DEF GenStands
      <4> QED
        BY <1>1, <1>6, <2>2, <2>4, <2>13, <4>1
  <2> QED
    BY <2>15, <2>16
<1>10. CASE Changelog!CountKind
  <2>0. PICK issue : issue = gen.asked[gen.at]
    OBVIOUS
  <2>1. PICK kind \in Kinds \cup {"none"} :
            /\ issue = gen.asked[gen.at] /\ Changelog!lookupIssue(issue, kind)
            /\ gen' = [Changelog!Advanced("badge", "insert") EXCEPT
                           !.kinds = @ \cup {Changelog!issueType(kind)}]
    BY <1>10, <2>0 DEF Changelog!CountKind, Kinds
  <2>2. /\ gen.pc = "badge" /\ gen.at \in 1..Len(gen.asked) /\ Issues(gen.lines) = gen.asked
        /\ gen.upset # {} \/ gen.kinds = KindsOf(gen.lines, gen.at - 1)
        /\ gen.upset # {} \/ \A k \in DOMAIN gen.lines : Says(gen.lines[k])
        /\ UNCHANGED <<label, configured, fetches, entries, clock>>
    BY <1>1, <1>10 DEF Changelog!CountKind, GenStands
  <2>3. DOMAIN gen.lines = 1..Len(gen.asked) /\ Len(gen.lines) = Len(gen.asked)
        /\ gen.lines[gen.at].issue = issue
        /\ gen.lines[gen.at] \in Changelog!Line /\ issue \in Issue
    <3>1. DOMAIN gen.lines = DOMAIN gen.asked
          /\ \A k \in DOMAIN gen.lines : gen.lines[k].issue = gen.asked[k]
      BY <2>2 DEF Issues
    <3>2. DOMAIN gen.lines = 1..Len(gen.lines) /\ DOMAIN gen.asked = 1..Len(gen.asked)
          /\ Len(gen.lines) \in Nat /\ Len(gen.asked) \in Nat
      BY <1>2
    <3>3. Len(gen.lines) = Len(gen.asked)
      <4>1. PICK a, b \in Nat : a = Len(gen.lines) /\ b = Len(gen.asked)
        BY <3>2
      <4>2. 1..a = 1..b /\ 1 <= b
        <5>1. 1..a = 1..b
          BY <3>1, <3>2, <4>1
        <5>2. gen.at \in 1..b
          BY <2>2, <4>1
        <5>3. 1 <= b
          BY <4>1, <5>2
        <5> QED
          BY <5>1, <5>3
      <4>3. b \in 1..b
        BY <4>2
      <4>4. b <= a /\ a \in 1..a
        BY <4>2, <4>3
      <4>5. a <= b
        BY <4>2, <4>4
      <4> QED
        BY <4>1, <4>4, <4>5
    <3> QED
      BY <1>2, <2>1, <2>2, <3>1, <3>2, <3>3
  <2>4. /\ cache' \in [Issue -> Kinds \cup {"cold"}] /\ misses' \in Nat
        /\ Changelog!issueType(kind) \in Kinds
        /\ gen.heard = "nothing" =>
              /\ \A l \in Changelog!Line : Says(l) => Says(l)'
              /\ \A l \in Changelog!Line :
                    Says(l) /\ l.issue = issue /\ misses' = misses
                    => l.kind = Changelog!issueType(kind)
    <3>1. gen.heard # "nothing" => configured
      BY <1>1 DEF GenStands
    <3> QED
      BY <1>1, <2>1, <2>2, <2>3, <3>1, LookupSays DEF ClTyped
  <2>12. gen.upset # {} \/ gen.heard = "nothing"
    BY <1>1, <2>1, <2>2, <2>3 DEF GenStands
  <2>5. PICK pc, at1, ks, u :
            /\ pc = IF gen.at = Len(gen.asked) THEN "insert" ELSE "badge"
            /\ u = gen.upset \cup IF misses' # misses THEN {"missed"} ELSE {}
            /\ at1 = IF gen.at = Len(gen.asked) THEN 1 ELSE gen.at + 1
            /\ ks = gen.kinds \cup {Changelog!issueType(kind)}
    OBVIOUS
  <2>6. gen' = [pc |-> pc, asked |-> gen.asked, at |-> at1, heard |-> "nothing",
                lines |-> gen.lines, kinds |-> ks, upset |-> u]
    BY <1>1, <2>1, <2>2, <2>5 DEF Changelog!Advanced, Changelog!Missed, Requests
  <2>7. gen' \in Requests
    <3>1. u \in SUBSET Changelog!Upset
      BY <1>2, <2>5 DEF Changelog!Upset
    <3> QED
      BY <1>2, <2>2, <2>4, <2>5, <2>6, <3>1 DEF Requests, Changelog!Heard
  <2>8. u # {} \/ ks = KindsOf(gen.lines, gen.at)
    <3> SUFFICES ASSUME gen.upset = {}, misses' = misses PROVE ks = KindsOf(gen.lines, gen.at)
      BY <2>5
    <3>1. gen.lines[gen.at].kind = Changelog!issueType(kind)
      BY <2>2, <2>3, <2>4, <2>12
    <3>2. 1..gen.at = (1..(gen.at - 1)) \cup {gen.at}
      BY <1>2, <2>2
    <3>3. KindsOf(gen.lines, gen.at) = KindsOf(gen.lines, gen.at - 1) \cup {gen.lines[gen.at].kind}
      BY <3>2 DEF KindsOf
    <3> QED
      BY <2>2, <2>5, <3>1, <3>3
  <2>9. u # {} \/ \A k \in DOMAIN gen'.lines : Says(gen.lines[k])'
    <3> SUFFICES ASSUME gen.upset = {}, NEW k \in DOMAIN gen.lines PROVE Says(gen.lines[k])'
      BY <2>5, <2>6
    <3>1. PICK line \in Changelog!Line : line = gen.lines[k]
      BY <1>2
    <3>2. Says(line)'
      BY <2>2, <2>4, <2>12, <3>1
    <3>3. gen'.lines[k] = line
      BY <2>6, <3>1
    <3> QED
      BY <3>2, <3>3
  <2>10. CASE gen.at = Len(gen.asked)
    <3>1. pc = "insert" /\ KindsOf(gen.lines, gen.at) = KindsOf(gen.lines, Len(gen.lines))
      BY <2>3, <2>5, <2>10
    <3> QED
      <4>1. GenStands(gen)'
        BY <2>2, <2>6, <2>8, <2>9, <3>1 DEF GenStands
      <4> QED
        BY <1>1, <1>6, <2>2, <2>4, <2>7, <4>1
  <2>11. CASE gen.at # Len(gen.asked)
    <3>1. pc = "badge" /\ at1 = gen.at + 1 /\ at1 \in 1..Len(gen.asked) /\ at1 - 1 = gen.at
      BY <1>2, <2>2, <2>5, <2>11
    <3> QED
      <4>1. GenStands(gen)'
        BY <2>2, <2>6, <2>8, <2>9, <3>1 DEF GenStands
      <4> QED
        BY <1>1, <1>6, <2>2, <2>4, <2>7, <4>1
  <2> QED
    BY <2>10, <2>11
<1>11. CASE Changelog!Insert
  <2>1. gen' = Changelog!Resting /\ UNCHANGED <<label, configured, cache, fetches, clock, misses>>
        /\ gen.pc = "insert"
    BY <1>11 DEF Changelog!Insert
  <2>2. gen' \in Requests /\ GenStands(gen)'
    BY <1>7, <2>1
  <2>3. CASE UNCHANGED entries
    BY <1>1, <1>6, <2>1, <2>2, <2>3
  <2> DEFINE type == Changelog!dominantType(gen.kinds)
  <2>4. CASE entries' = Append(entries, Changelog!Entry(type, gen.lines, gen.asked, gen.upset))
    <3>1. PICK e : e = [there |-> TRUE, type |-> type, lines |-> gen.lines, asked |-> gen.asked,
                        published |-> 0, generated |-> TRUE, upset |-> gen.upset]
      OBVIOUS
    <3>2. e \in Entries
      <4>1. type \in Kinds
        BY <1>2, DominantIsOne
      <4> QED
        BY <1>2, <3>1, <4>1 DEF Entries
    <3>3. EntryStands(e)
      <4>1. /\ Issues(gen.lines) = gen.asked
            /\ gen.upset # {} \/ gen.kinds = KindsOf(gen.lines, Len(gen.lines))
        BY <1>1, <2>1 DEF GenStands
      <4>2. KindsOf(gen.lines, Len(gen.lines)) = {gen.lines[k].kind : k \in DOMAIN gen.lines}
        BY <1>2 DEF KindsOf
      <4> QED
        <5>1. /\ e.lines = gen.lines /\ e.asked = gen.asked /\ e.upset = gen.upset
              /\ e.type = Changelog!dominantType(gen.kinds)
          BY <3>1
        <5>2. Issues(e.lines) = e.asked
          BY <4>1, <5>1
        <5>3. e.upset = {} =>
                  e.type = Changelog!dominantType({gen.lines[k].kind : k \in DOMAIN gen.lines})
          BY <4>1, <4>2, <5>1
        <5> QED
          BY <5>1, <5>2, <5>3 DEF EntryStands
    <3>4. entries' = Append(entries, e)
      BY <2>4, <3>1 DEF Changelog!Entry
    <3>5. entries' \in Seq(Entries) /\ DOMAIN entries' = 1..Len(entries) + 1
          /\ DOMAIN entries = 1..Len(entries) /\ Len(entries) \in Nat
      BY <1>1, <3>2, <3>4
    <3>6. \A j \in DOMAIN entries' : entries'[j] = IF j = Len(entries) + 1 THEN e ELSE entries[j]
      BY <1>1, <3>2, <3>4
    <3>7. \A j \in DOMAIN entries' : j = Len(entries) + 1 \/ j \in DOMAIN entries
      BY <3>5
    <3>8. \A j \in DOMAIN entries' : EntryStands(entries'[j])
      BY <1>1, <3>3, <3>6, <3>7
    <3> QED
      BY <1>1, <2>1, <2>2, <3>5, <3>8 DEF ClInv, ClTyped
  <2> QED
    BY <1>11, <2>3, <2>4 DEF Changelog!Insert
<1>12. ASSUME NEW type \in {"feature", "improvement"}, Changelog!CreateEntry(type) PROVE ClInv'
  <2>1. PICK e0 \in Entries : e0 = Changelog!Entry(type, <<>>, <<>>, {})
    <3>1. PICK e0 : e0 = [there |-> TRUE, type |-> type, lines |-> <<>>, asked |-> <<>>,
                          published |-> 0, generated |-> TRUE, upset |-> {}]
      OBVIOUS
    <3>2. e0 \in Entries
      BY <3>1 DEF Entries, Kinds, Changelog!Kind
    <3>3. e0 = Changelog!Entry(type, <<>>, <<>>, {})
      BY <3>1 DEF Changelog!Entry
    <3> QED
      BY <3>2, <3>3
  <2>2. PICK e : e = [e0 EXCEPT !.generated = FALSE]
    OBVIOUS
  <2>3. e \in Entries /\ EntryStands(e)
    BY <2>2 DEF Entries, EntryStands
  <2>4. entries' = Append(entries, e) /\ UNCHANGED <<label, configured, cache, fetches, gen, clock, misses>>
    BY <1>12, <2>1, <2>2 DEF Changelog!CreateEntry
  <2> QED
    BY <1>1, <1>5, <2>3, <2>4
<1>13. \A i \in Changelog!There : i \in DOMAIN entries /\ entries[i] \in Entries
                                 /\ EntryStands(entries[i])
  BY <1>1 DEF Changelog!There
<1>14. ASSUME NEW i, NEW type \in {"feature", "other"}, Changelog!UpdateEntry(i, type) PROVE ClInv'
  <2>1. i \in DOMAIN entries /\ entries[i] \in Entries
    BY <1>13, <1>14 DEF Changelog!UpdateEntry
  <2>2. PICK e : e = [entries[i] EXCEPT !.type = type, !.generated = FALSE]
    OBVIOUS
  <2>3. e \in Entries /\ EntryStands(e)
    BY <2>1, <2>2 DEF Entries, EntryStands, Kinds, Changelog!Kind
  <2>4. /\ entries' = [entries EXCEPT ![i] = e]
        /\ UNCHANGED <<label, configured, cache, fetches, gen, clock, misses>>
    BY <1>1, <1>14, <2>1, <2>2 DEF Changelog!UpdateEntry
  <2> QED
    BY <1>1, <1>4, <2>1, <2>3, <2>4
<1>15. ASSUME NEW i, Changelog!PublishEntry(i) PROVE ClInv'
  <2>1. i \in DOMAIN entries /\ entries[i] \in Entries /\ EntryStands(entries[i])
    BY <1>13, <1>15 DEF Changelog!PublishEntry
  <2>2. PICK e : e = [entries[i] EXCEPT !.published = clock + 1]
    OBVIOUS
  <2>3. e \in Entries /\ EntryStands(e)
    <3>1. PICK e0 \in Entries, t \in Nat : e0 = entries[i] /\ t = clock + 1
      BY <1>1, <2>1
    <3>2. e = [e0 EXCEPT !.published = t]
      BY <2>2, <3>1
    <3>3. /\ e \in Entries /\ e.there = e0.there /\ e.generated = e0.generated
          /\ e.lines = e0.lines /\ e.asked = e0.asked
          /\ e.upset = e0.upset /\ e.type = e0.type
      BY <3>2 DEF Entries
    <3> QED
      BY <2>1, <3>1, <3>3 DEF EntryStands
  <2>4. /\ entries' = [entries EXCEPT ![i] = e] /\ clock' \in Nat
        /\ UNCHANGED <<label, configured, cache, fetches, gen, misses>>
    BY <1>1, <1>15, <2>1, <2>2 DEF Changelog!PublishEntry
  <2> QED
    BY <1>4, <2>1, <2>3, <2>4
<1>16. ASSUME NEW i, Changelog!DeleteEntry(i) PROVE ClInv'
  <2>1. i \in DOMAIN entries /\ entries[i] \in Entries
    BY <1>13, <1>16 DEF Changelog!DeleteEntry
  <2>2. PICK e : e = [entries[i] EXCEPT !.there = FALSE]
    OBVIOUS
  <2>3. e \in Entries /\ EntryStands(e)
    BY <2>1, <2>2 DEF Entries, EntryStands
  <2>4. /\ entries' = [entries EXCEPT ![i] = e]
        /\ UNCHANGED <<label, configured, cache, fetches, gen, clock, misses>>
    BY <1>1, <1>16, <2>1, <2>2 DEF Changelog!DeleteEntry
  <2> QED
    BY <1>1, <1>4, <2>1, <2>3, <2>4
<1>17. ASSUME NEW issue \in Issue, NEW kind \in {"breaking", "bugfix"},
              Changelog!Relabel(issue, kind)
       PROVE  ClInv'
  <2>1. label' \in [Issue -> Kinds] /\ UNCHANGED <<configured, cache, fetches, gen, entries, clock, misses>>
    BY <1>1, <1>17 DEF Changelog!Relabel, Kinds, Changelog!Kind
  <2> QED
    BY <1>1, <2>1 DEF ClInv, ClTyped, GenStands, Says
\* What spoils what the body has read of an issue, and says so.
<1>18. ASSUME NEW issue \in Issue, NEW why \in Changelog!Upset, Changelog!Upsets(why, issue),
              NEW what \in Kinds \cup {"cold"}, cache' = [cache EXCEPT ![issue] = what],
              fetches' \in Fetches, UNCHANGED <<label, configured, entries, clock, misses>>
       PROVE  ClInv'
  <2>1. PICK u \in SUBSET Changelog!Upset :
            u = gen.upset \cup IF Changelog!Listed(issue) THEN {why} ELSE {}
    BY <1>2
  <2>2. gen' = [pc |-> gen.pc, asked |-> gen.asked, at |-> gen.at, heard |-> gen.heard,
                lines |-> gen.lines, kinds |-> gen.kinds, upset |-> u]
    BY <1>1, <1>18, <2>1 DEF Changelog!Upsets, Requests
  <2>3. gen' \in Requests /\ cache' \in [Issue -> Kinds \cup {"cold"}]
    BY <1>1, <1>2, <1>18, <2>1, <2>2 DEF Requests
  <2>4. u = {} => gen.upset = {}
    BY <2>1
  <2>5. u # {} \/ \A k \in DOMAIN gen'.lines : Says(gen.lines[k])'
    <3> SUFFICES ASSUME u = {}, NEW k \in DOMAIN gen.lines PROVE Says(gen.lines[k])'
      BY <2>2
    <3>1. PICK line \in Changelog!Line : line = gen.lines[k]
      BY <1>2
    <3>2. Says(line) /\ line.issue # issue /\ line.issue \in Issue
      BY <1>1, <2>1, <3>1 DEF GenStands, Changelog!Line, Changelog!Listed
    <3>3. Says(line)'
      BY <1>1, <1>18, <3>2 DEF Says
    <3>4. gen'.lines[k] = line
      BY <2>2, <3>1
    <3> QED
      BY <3>3, <3>4
  <2>6. GenStands(gen)'
    BY <1>1, <1>18, <2>2, <2>4, <2>5 DEF GenStands
  <2> QED
    BY <1>1, <1>6, <1>18, <2>3, <2>6
<1>20. ASSUME NEW issue \in Issue, Changelog!Expire(issue) PROVE ClInv'
  <2>1. "cold" \in Changelog!Upset
    BY DEF Changelog!Upset
  <2> QED
    BY <1>1, <1>18, <1>20, <2>1 DEF Changelog!Expire
\* A request that asks Track: none of its lines is of a cold issue.
<1>21. CASE Changelog!Ask \/ Changelog!Answer
  <2>1. PICK h : h = IF Changelog!Ask THEN "asked" ELSE label[gen.asked[gen.at]]
    OBVIOUS
  <2>2. /\ UNCHANGED <<label, configured, cache, fetches, entries, clock, misses>>
        /\ gen' = [gen EXCEPT !.heard = h]
    BY <1>21, <2>1 DEF Changelog!Ask, Changelog!Answer
  <2>3. /\ gen.pc \in {"body", "badge"} /\ configured /\ gen.asked[gen.at] \in Issue
        /\ gen.upset # {} \/ \A k \in DOMAIN gen.lines : gen.lines[k].issue # gen.asked[gen.at]
    <3>1. gen.pc \in {"body", "badge"} /\ configured
      BY <1>1, <1>21 DEF Changelog!Ask, Changelog!Answer, GenStands
    <3>2. gen.asked[gen.at] \in Issue
      BY <1>1, <1>2, <3>1 DEF GenStands
    <3>3. CASE Changelog!Answer
      BY <1>1, <3>1, <3>2, <3>3 DEF Changelog!Answer, GenStands
    <3>4. CASE Changelog!Ask
      <4> SUFFICES ASSUME gen.upset = {}, NEW k \in DOMAIN gen.lines,
                          gen.lines[k].issue = gen.asked[gen.at]
                   PROVE  FALSE
        BY <3>1, <3>2
      <4>1. gen.lines[k].kind = cache[gen.asked[gen.at]]
        BY <1>1, <3>1 DEF GenStands, Says
      <4>2. gen.lines[k].kind \in Kinds /\ cache[gen.asked[gen.at]] = "cold"
        <5>1. gen.lines[k] \in Changelog!Line
          BY <1>2
        <5>2. gen.lines[k].kind \in Kinds
          BY <5>1 DEF Changelog!Line, Kinds
        <5> QED
          BY <3>4, <5>2 DEF Changelog!Ask
      <4> QED
        BY <4>1, <4>2 DEF Kinds, Changelog!Kind
    <3> QED
      BY <1>21, <3>3, <3>4
  <2>4. h \in Changelog!Heard
    BY <1>1, <2>1, <2>3 DEF Changelog!Heard, Kinds
  <2>5. gen' = [pc |-> gen.pc, asked |-> gen.asked, at |-> gen.at, heard |-> h,
                lines |-> gen.lines, kinds |-> gen.kinds, upset |-> gen.upset]
    BY <1>1, <2>2 DEF Requests
  <2>6. gen' \in Requests
    BY <1>2, <2>4, <2>5 DEF Requests
  <2>7. GenStands(gen)'
    BY <1>1, <2>2, <2>3, <2>5 DEF GenStands, Says
  <2> QED
    BY <1>1, <1>6, <2>2, <2>6, <2>7
\* What another caller fetches.
<1>22. ASSUME UNCHANGED <<label, configured, cache, gen, entries, clock, misses>>, fetches' \in Fetches
       PROVE  ClInv'
  BY <1>1, <1>22 DEF ClInv, ClTyped, GenStands, Says
<1>23. ASSUME NEW c \in Caller, fetches[c] # Changelog!Quiet
       PROVE  fetches[c] \in [issue : Issue, heard : Changelog!Heard]
  BY <1>1, <1>23 DEF Fetches
<1>24. ASSUME NEW c \in Caller,
              \/ \E issue \in Issue : Changelog!CallerAsks(c, issue)
              \/ Changelog!CallerAnswered(c) \/ Changelog!CallerFails(c)
       PROVE  ClInv'
  <2>1. CASE \E issue \in Issue : Changelog!CallerAsks(c, issue)
    <3>1. PICK issue \in Issue : Changelog!CallerAsks(c, issue)
      BY <2>1
    <3>2. [issue |-> issue, heard |-> "asked"] \in [issue : Issue, heard : Changelog!Heard]
      BY DEF Changelog!Heard
    <3> QED
      BY <1>1, <1>22, <3>1, <3>2 DEF Changelog!CallerAsks, Fetches
  <2>2. CASE Changelog!CallerAnswered(c)
    <3>1. fetches[c] \in [issue : Issue, heard : Changelog!Heard]
      BY <1>23, <2>2 DEF Changelog!CallerAnswered, Changelog!Quiet
    <3>2. label[fetches[c].issue] \in Changelog!Heard
      BY <1>1, <3>1 DEF Changelog!Heard, Kinds
    <3>3. [fetches[c] EXCEPT !.heard = label[fetches[c].issue]]
              \in [issue : Issue, heard : Changelog!Heard]
      BY <3>1, <3>2
    <3> QED
      BY <1>1, <1>22, <2>2, <3>3 DEF Changelog!CallerAnswered, Fetches
  <2>3. CASE Changelog!CallerFails(c)
    BY <1>1, <1>22, <2>3 DEF Changelog!CallerFails, Fetches
  <2> QED
    BY <1>24, <2>1, <2>2, <2>3
<1>25. ASSUME NEW c \in Caller, Changelog!CallerStores(c) PROVE ClInv'
  <2>1. PICK issue, kind : issue = fetches[c].issue /\ kind = fetches[c].heard
    OBVIOUS
  <2>2. /\ kind \in Kinds /\ cache' = [cache EXCEPT ![issue] = kind]
        /\ IF kind = cache[issue] THEN UNCHANGED gen ELSE Changelog!Upsets("overtaken", issue)
        /\ fetches' = [fetches EXCEPT ![c] = Changelog!Quiet]
        /\ UNCHANGED <<label, configured, entries, clock, misses>>
    BY <1>25, <2>1 DEF Changelog!CallerStores, Kinds
  <2>3. issue \in Issue
    <3>1. fetches[c] # Changelog!Quiet
      BY <2>1, <2>2 DEF Changelog!Quiet, Kinds, Changelog!Kind
    <3> QED
      BY <1>23, <2>1, <3>1
  <2>4. fetches' \in Fetches
    BY <1>1, <2>2 DEF Fetches
  <2>5. CASE kind = cache[issue]
    <3>1. UNCHANGED cache
      BY <1>1, <2>2, <2>3, <2>5
    <3> QED
      BY <1>22, <2>2, <2>4, <2>5, <3>1
  <2>6. CASE kind # cache[issue]
    <3>1. "overtaken" \in Changelog!Upset
      BY DEF Changelog!Upset
    <3> QED
      BY <1>18, <2>2, <2>3, <2>4, <2>6, <3>1
  <2> QED
    BY <2>5, <2>6
<1>19. CASE UNCHANGED clVars
  BY <1>19 DEF clVars, ClInv, ClTyped, GenStands, Says
<1> QED
  BY <1>8, <1>9, <1>10, <1>11, <1>12, <1>14, <1>15, <1>16, <1>17, <1>19, <1>20, <1>21, <1>24, <1>25
     DEF Changelog!ChangelogNext

(* A generated entry's badge is the gravest kind of its body, for any issues and any number  *)
(* of them, unless a lookup failed, or a reference went cold or was overwritten by one of    *)
(* the client's other callers, of any number (changelog/store.go GenerateFromIssues).       *)
THEOREM BadgesMatch == DocumentsSpec => []BadgeMatchesBody
<1>1. DocumentsInit => ClInv
  BY ClStarts DEF DocumentsInit, DocumentsStart
<1>2. ClInv /\ [DocumentsNext]_docVars => ClInv'
  BY PartSteps, ClStep
<1>3. ClInv => BadgeMatchesBody
  BY DEF ClInv, EntryStands, Issues, BadgeMatchesBody, Changelog!BadgeMatchesBody, Changelog!There
<1> QED
  BY <1>1, <1>2, <1>3, PTL DEF DocumentsSpec

-----------------------------------------------------------------------------
(* The state of an export.                                                  *)

LEMMA ExportsCount ==
    /\ \A S : Exports!Cardinality(S) = Cardinality(S)
    /\ \A S : Exports!IsFiniteSet(S) <=> IsFiniteSet(S)
BY DEF Exports!Cardinality, Cardinality, Exports!IsFiniteSet, IsFiniteSet

LEMMA ExportsOrder == \A S, R : Exports!Ordered(S, R) = Ordered(S, R)
<1> SUFFICES ASSUME NEW S, NEW R PROVE Exports!Ordered(S, R) = Ordered(S, R)
  OBVIOUS
<1>1. Exports!Cardinality(S) = Cardinality(S)
  BY ExportsCount
<1> QED
  BY <1>1 DEF Exports!Ordered, Ordered

Item == [id : Child, pos : Nat]

Ids(q) == {q[i].id : i \in DOMAIN q}

Distinct(q) == \A i, j \in DOMAIN q : q[i].id = q[j].id => i = j

Place(us, c) == CHOOSE i \in DOMAIN us : us[i] = c

\* ByPosition, of any children and positions.
Earlier(us, ps) ==
    {p \in Exports!ToSet(us) \X Exports!ToSet(us) :
        \/ ps[p[1]] < ps[p[2]]
        \/ ps[p[1]] = ps[p[2]] /\ Place(us, p[1]) < Place(us, p[2])}

RankIn(us, ps, c) == Cardinality(Preceding(Exports!ToSet(us), Earlier(us, ps), c))

OnceEach(us) == \A i, j \in DOMAIN us : us[i] = us[j] => i = j

ExTyped ==
    /\ under \in Seq(Child) /\ OnceEach(under)
    /\ position \in [Child -> Nat]
    /\ readable \subseteq Child
    /\ exp \in [pc : {"idle", "list", "gate", "sent", "failed"}, offset : Nat,
                listed : Seq(Item), at : Nat \ {0}, out : Seq(Item)]
    /\ constant \subseteq Exports!ToSet(under) /\ constant \subseteq readable
    /\ denied \cap readable = {}
    /\ exp.pc = "idle" => exp = Exports!Unasked /\ constant = {}
    /\ exp.pc = "list" => exp.at = 1 /\ exp.out = <<>>

(* No page is listed twice, and one that stays where it was has been listed    *)
(* or has the offset's worth of pages before it.                               *)
ExListed ==
    /\ exp.pc \in {"list", "gate"} => Distinct(exp.listed)
    /\ exp.pc = "list" /\ ~shifted =>
          \A c \in constant : c \in Ids(exp.listed) \/ exp.offset <= RankIn(under, position, c)
    /\ exp.pc = "gate" /\ ~shifted => constant \subseteq Ids(exp.listed)

(* What is kept is of the pages already asked about, has none that was never   *)
(* readable and each that always was.                                          *)
ExGated ==
    exp.pc \in {"list", "gate"} =>
        /\ exp.at <= Len(exp.listed) + 1
        /\ \A i \in DOMAIN exp.out :
              \E j \in DOMAIN exp.listed : j < exp.at /\ exp.listed[j].id = exp.out[i].id
        /\ Distinct(exp.out)
        /\ Ids(exp.out) \cap denied = {}
        /\ \A j \in DOMAIN exp.listed :
              j < exp.at /\ exp.listed[j].id \in constant => exp.listed[j].id \in Ids(exp.out)

ExSent ==
    exp.pc = "sent" =>
        /\ Distinct(exp.out)
        /\ Ids(exp.out) \cap denied = {}
        /\ \A i, j \in DOMAIN exp.out : i < j => exp.out[i].pos <= exp.out[j].pos
        /\ ~shifted => constant \subseteq Ids(exp.out)

ExInv == ExTyped /\ ExListed /\ ExGated /\ ExSent

LEMMA ByPositionIs ==
    /\ Exports!ByPosition = Earlier(under, position)
    /\ Exports!Seen = Ids(exp.listed)
    /\ \A c : Exports!Index(c) = Place(under, c)
BY DEF Exports!ByPosition, Earlier, Exports!ListedBefore, Exports!Index, Place,
       Exports!Seen, Ids

LEMMA PlaceIs ==
    ASSUME NEW us \in Seq(Child), NEW c \in Exports!ToSet(us)
    PROVE  Place(us, c) \in 1..Len(us) /\ us[Place(us, c)] = c
BY DEF Place, Exports!ToSet

LEMMA EarlierIs ==
    ASSUME NEW us, NEW ps, NEW c, NEW d
    PROVE  <<c, d>> \in Earlier(us, ps) <=>
              /\ c \in Exports!ToSet(us) /\ d \in Exports!ToSet(us)
              /\ \/ ps[c] < ps[d]
                 \/ ps[c] = ps[d] /\ Place(us, c) < Place(us, d)
BY DEF Earlier

LEMMA EarlierIsTotal ==
    ASSUME Exports!ExportsSizes, NEW us \in Seq(Child), NEW ps \in [Child -> Nat]
    PROVE  /\ Exports!ToSet(us) \subseteq Child /\ IsFiniteSet(Exports!ToSet(us))
           /\ TotalOn(Exports!ToSet(us), Earlier(us, ps))
<1> DEFINE S == Exports!ToSet(us)
<1>1. S \subseteq Child
  BY DEF Exports!ToSet
<1>2. IsFiniteSet(Child)
  BY ExportsCount DEF Exports!ExportsSizes
<1>3. IsFiniteSet(S)
  BY <1>1, <1>2, FS_Subset
<1>4. \A c \in S : Place(us, c) \in Nat /\ us[Place(us, c)] = c /\ ps[c] \in Nat
  BY <1>1, PlaceIs
<1>5. \A c, d : <<c, d>> \in Earlier(us, ps) <=>
         /\ c \in S /\ d \in S
         /\ \/ ps[c] < ps[d]
            \/ ps[c] = ps[d] /\ Place(us, c) < Place(us, d)
  BY EarlierIs
<1> HIDE DEF S
<1>6. \A x \in S : <<x, x>> \notin Earlier(us, ps)
  BY <1>4, <1>5
<1>7. ASSUME NEW x \in S, NEW y \in S, NEW z \in S,
             <<x, y>> \in Earlier(us, ps), <<y, z>> \in Earlier(us, ps)
      PROVE  <<x, z>> \in Earlier(us, ps)
  <2>1. /\ ps[x] \in Nat /\ ps[y] \in Nat /\ ps[z] \in Nat
        /\ Place(us, x) \in Nat /\ Place(us, y) \in Nat /\ Place(us, z) \in Nat
    BY <1>4
  <2>2. /\ ps[x] < ps[y] \/ (ps[x] = ps[y] /\ Place(us, x) < Place(us, y))
        /\ ps[y] < ps[z] \/ (ps[y] = ps[z] /\ Place(us, y) < Place(us, z))
    BY <1>5, <1>7
  <2>3. ps[x] < ps[z] \/ (ps[x] = ps[z] /\ Place(us, x) < Place(us, z))
    BY <2>1, <2>2
  <2> QED
    BY <1>5, <2>3
<1>8. ASSUME NEW x \in S, NEW y \in S, x # y
      PROVE  <<x, y>> \in Earlier(us, ps) \/ <<y, x>> \in Earlier(us, ps)
  <2>1. Place(us, x) # Place(us, y)
    BY <1>4, <1>8
  <2>2. /\ ps[x] \in Nat /\ ps[y] \in Nat
        /\ Place(us, x) \in Nat /\ Place(us, y) \in Nat
    BY <1>4
  <2>3. \/ ps[x] < ps[y] \/ (ps[x] = ps[y] /\ Place(us, x) < Place(us, y))
        \/ ps[y] < ps[x] \/ (ps[y] = ps[x] /\ Place(us, y) < Place(us, x))
    BY <2>1, <2>2
  <2> QED
    BY <1>5, <2>3
<1> QED
  BY <1>1, <1>3, <1>6, <1>7, <1>8 DEF S, TotalOn

LEMMA RankIsNat ==
    ASSUME Exports!ExportsSizes, NEW us \in Seq(Child), NEW ps \in [Child -> Nat],
           NEW c \in Exports!ToSet(us)
    PROVE  RankIn(us, ps, c) \in Nat
BY EarlierIsTotal, RanksRise DEF RankIn

Added(us, ps, c, pos, vs, qs) ==
    /\ us \in Seq(Child) /\ OnceEach(us) /\ ps \in [Child -> Nat]
    /\ c \in Child /\ c \notin Exports!ToSet(us) /\ pos \in Nat
    /\ vs = Append(us, c) /\ qs = [ps EXCEPT ![c] = pos]

RanksGrow(us, ps, vs, qs) ==
    /\ vs \in Seq(Child) /\ OnceEach(vs) /\ qs \in [Child -> Nat]
    /\ Exports!ToSet(us) \subseteq Exports!ToSet(vs)
    /\ \A d \in Exports!ToSet(us) : RankIn(us, ps, d) <= RankIn(vs, qs, d)

(* A page that comes last among the children puts none nearer to the front. *)
LEMMA RanksHold ==
    ASSUME Exports!ExportsSizes, NEW us, NEW ps, NEW c, NEW pos, NEW vs, NEW qs,
           Added(us, ps, c, pos, vs, qs)
    PROVE  RanksGrow(us, ps, vs, qs)
<1> USE DEF Added
<1>1. /\ vs \in Seq(Child) /\ Len(vs) = Len(us) + 1 /\ vs[Len(us) + 1] = c
      /\ \A i \in 1..Len(us) : vs[i] = us[i]
  OBVIOUS
<1>2. qs \in [Child -> Nat] /\ \A d \in Child : d # c => qs[d] = ps[d]
  OBVIOUS
<1>3. Exports!ToSet(us) \subseteq Exports!ToSet(vs)
  BY <1>1 DEF Exports!ToSet
<1>4. \A i \in 1..Len(us) : us[i] # c
  BY DEF Exports!ToSet
<1>5. OnceEach(vs)
  BY <1>1, <1>4 DEF OnceEach
<1>6. ASSUME NEW d \in Exports!ToSet(us) PROVE Place(vs, d) = Place(us, d)
  <2>1. Place(us, d) \in 1..Len(us) /\ us[Place(us, d)] = d
    BY PlaceIs
  <2>2. d \in Exports!ToSet(vs)
    BY <1>3
  <2>3. Place(vs, d) \in 1..Len(vs) /\ vs[Place(vs, d)] = d
    BY <1>1, <2>2, PlaceIs
  <2> QED
    BY <1>1, <1>5, <2>1, <2>3 DEF OnceEach
<1>7. ASSUME NEW d \in Exports!ToSet(us) PROVE RankIn(us, ps, d) <= RankIn(vs, qs, d)
  <2> DEFINE A == Preceding(Exports!ToSet(us), Earlier(us, ps), d)
             B == Preceding(Exports!ToSet(vs), Earlier(vs, qs), d)
  <2>1. Exports!ToSet(us) \subseteq Child
    BY EarlierIsTotal
  <2>2. A \subseteq B
    <3> SUFFICES ASSUME NEW e \in A PROVE e \in B
      OBVIOUS
    <3>1. e \in Exports!ToSet(us) /\ <<e, d>> \in Earlier(us, ps)
      BY DEF Preceding
    <3>2. \/ ps[e] < ps[d]
          \/ ps[e] = ps[d] /\ Place(us, e) < Place(us, d)
      BY <3>1, EarlierIs
    <3>3. ps[e] = qs[e] /\ ps[d] = qs[d]
      BY <1>2, <2>1, <3>1
    <3>4. Place(us, e) = Place(vs, e) /\ Place(us, d) = Place(vs, d)
      BY <1>6, <3>1
    <3>5. <<e, d>> \in Earlier(vs, qs)
      BY <1>3, <3>1, <3>2, <3>3, <3>4, EarlierIs
    <3> QED
      BY <1>3, <3>1, <3>5 DEF Preceding
  <2>3. IsFiniteSet(Exports!ToSet(vs)) /\ B \subseteq Exports!ToSet(vs)
    BY <1>1, <1>2, EarlierIsTotal DEF Preceding
  <2>4. IsFiniteSet(B)
    BY <2>3, FS_Subset
  <2>5. Cardinality(A) <= Cardinality(B)
    BY <2>2, <2>4, FS_Subset
  <2> QED
    BY <2>5 DEF RankIn
<1> QED
  BY <1>1, <1>2, <1>3, <1>5, <1>7 DEF RanksGrow

LEMMA RemovedIs ==
    ASSUME NEW us \in Seq(Child), OnceEach(us), NEW c \in Exports!ToSet(us),
           NEW vs, vs = Exports!RemoveAt(us, Place(us, c))
    PROVE  /\ vs \in Seq(Child) /\ OnceEach(vs)
           /\ Exports!ToSet(vs) = Exports!ToSet(us) \ {c}
<1>1. PICK k : k = Place(us, c)
  OBVIOUS
<1>2. k \in 1..Len(us) /\ us[k] = c
  BY <1>1, PlaceIs
<1>3. vs = SubSeq(us, 1, k - 1) \o SubSeq(us, k + 1, Len(us))
  BY <1>1 DEF Exports!RemoveAt
<1>4. PICK a : a = SubSeq(us, 1, k - 1)
  OBVIOUS
<1>5. PICK b : b = SubSeq(us, k + 1, Len(us))
  OBVIOUS
<1>6. a \in Seq(Child) /\ Len(a) = k - 1 /\ \A i \in 1..(k - 1) : a[i] = us[i]
  BY <1>2, <1>4
<1>7. b \in Seq(Child) /\ Len(b) = Len(us) - k /\ \A i \in 1..(Len(us) - k) : b[i] = us[k + i]
  BY <1>2, <1>5
<1>8. /\ vs \in Seq(Child) /\ Len(vs) = Len(us) - 1
      /\ \A i \in 1..(Len(us) - 1) : vs[i] = IF i < k THEN us[i] ELSE us[i + 1]
  <2>1. vs = a \o b
    BY <1>3, <1>4, <1>5
  <2>2. Len(vs) = Len(us) - 1 /\ vs \in Seq(Child)
    BY <1>2, <1>6, <1>7, <2>1
  <2>3. ASSUME NEW i \in 1..(Len(us) - 1)
        PROVE  vs[i] = IF i < k THEN us[i] ELSE us[i + 1]
    <3>1. CASE i < k
      <4>1. i \in 1..(k - 1) /\ i \in 1..Len(a)
        BY <1>2, <1>6, <3>1
      <4> QED
        BY <1>6, <1>7, <2>1, <3>1, <4>1
    <3>2. CASE ~(i < k)
      <4>1. PICK j : j = i - (k - 1)
        OBVIOUS
      <4>2. j \in 1..(Len(us) - k) /\ k + j = i + 1 /\ i = Len(a) + j /\ Len(b) = Len(us) - k
        BY <1>2, <1>6, <1>7, <3>2, <4>1
      <4>3. vs[i] = b[j]
        BY <1>2, <1>6, <1>7, <2>1, <3>2, <4>1, <4>2
      <4>4. b[j] = us[i + 1]
        BY <1>7, <4>2
      <4> QED
        BY <3>2, <4>3, <4>4
    <3> QED
      BY <3>1, <3>2
  <2> QED
    BY <2>2, <2>3
<1>9. OnceEach(vs)
  <2>1. SUFFICES ASSUME NEW i \in 1..Len(vs), NEW j \in 1..Len(vs), vs[i] = vs[j]
                 PROVE  i = j
    BY <1>8 DEF OnceEach
  <2>2. PICK g : g = [n \in 1..(Len(us) - 1) |-> IF n < k THEN n ELSE n + 1]
    OBVIOUS
  <2>3. \A n \in 1..(Len(us) - 1) :
           g[n] \in 1..Len(us) /\ g[n] = (IF n < k THEN n ELSE n + 1) /\ vs[n] = us[g[n]]
    BY <1>2, <1>8, <2>2
  <2>4. i \in 1..(Len(us) - 1) /\ j \in 1..(Len(us) - 1)
    BY <1>8
  <2>5. g[i] = g[j]
    BY <2>1, <2>3, <2>4 DEF OnceEach
  <2> QED
    BY <1>2, <2>3, <2>4, <2>5
<1>10. ASSUME NEW d \in Exports!ToSet(us), d # c PROVE d \in Exports!ToSet(vs)
  <2>1. PICK i \in 1..Len(us) : us[i] = d
    BY DEF Exports!ToSet
  <2>2. \E j \in 1..(Len(us) - 1) : vs[j] = d
    <3>1. CASE i < k
      BY <1>2, <1>8, <2>1, <3>1
    <3>2. CASE i > k
      <4>1. i - 1 \in 1..(Len(us) - 1) /\ ~(i - 1 < k) /\ i - 1 + 1 = i
        BY <1>2, <2>1, <3>2
      <4> QED
        BY <1>8, <2>1, <4>1
    <3> QED
      BY <1>2, <1>10, <2>1, <3>1, <3>2
  <2> QED
    BY <1>8, <2>2 DEF Exports!ToSet
<1>11. ASSUME NEW d \in Exports!ToSet(vs) PROVE d \in Exports!ToSet(us) /\ d # c
  <2>1. PICK i \in 1..(Len(us) - 1) : vs[i] = d
    BY <1>8 DEF Exports!ToSet
  <2>2. PICK j \in 1..Len(us) : j # k /\ us[j] = d
    BY <1>2, <1>8, <2>1
  <2> QED
    BY <1>2, <2>2 DEF Exports!ToSet, OnceEach
<1> QED
  BY <1>8, <1>9, <1>10, <1>11

-----------------------------------------------------------------------------
(* What is listed is added to. *)

LEMMA ItemsJoin ==
    ASSUME NEW q \in Seq(Item), NEW r \in Seq(Item), Distinct(q), Distinct(r),
           Ids(q) \cap Ids(r) = {}
    PROVE  /\ q \o r \in Seq(Item) /\ Distinct(q \o r)
           /\ Ids(q \o r) = Ids(q) \cup Ids(r)
<1>1. PICK s : s = q \o r
  OBVIOUS
<1>2. /\ s \in Seq(Item) /\ Len(s) = Len(q) + Len(r)
      /\ \A i \in 1..Len(q) : i \in 1..Len(s) /\ s[i] = q[i]
      /\ \A i \in 1..Len(r) : Len(q) + i \in 1..Len(s) /\ s[Len(q) + i] = r[i]
  BY <1>1
<1>3. \A k \in 1..Len(s) : k \in 1..Len(q) \/ \E i \in 1..Len(r) : k = Len(q) + i
  <2> TAKE k \in 1..Len(s)
  <2>1. CASE k <= Len(q)
    BY <2>1
  <2>2. CASE k > Len(q)
    <3>1. k - Len(q) \in 1..Len(r) /\ k = Len(q) + (k - Len(q))
      BY <1>2, <2>2
    <3> QED
      BY <3>1
  <2> QED
    BY <2>1, <2>2
<1>4. /\ \A i \in 1..Len(q) : q[i].id \in Ids(q)
      /\ \A i \in 1..Len(r) : r[i].id \in Ids(r)
  BY DEF Ids
<1>5. ASSUME NEW j \in 1..Len(s), NEW k \in 1..Len(s), s[j].id = s[k].id PROVE j = k
  <2>1. CASE j \in 1..Len(q) /\ k \in 1..Len(q)
    <3>1. q[j].id = q[k].id
      BY <1>2, <1>5, <2>1
    <3> QED
      BY <2>1, <3>1 DEF Distinct
  <2>2. CASE j \in 1..Len(q) /\ \E i \in 1..Len(r) : k = Len(q) + i
    BY <1>2, <1>4, <1>5, <2>2
  <2>3. CASE k \in 1..Len(q) /\ \E i \in 1..Len(r) : j = Len(q) + i
    BY <1>2, <1>4, <1>5, <2>3
  <2>4. ASSUME NEW m \in 1..Len(r), NEW n \in 1..Len(r), j = Len(q) + m, k = Len(q) + n
        PROVE  j = k
    <3>1. r[m].id = r[n].id
      BY <1>2, <1>5, <2>4
    <3>2. m = n
      BY <3>1 DEF Distinct
    <3> QED
      BY <2>4, <3>2
  <2> QED
    BY <1>3, <2>1, <2>2, <2>3, <2>4
<1>6. Ids(s) = Ids(q) \cup Ids(r)
  <2>1. ASSUME NEW x \in Ids(s) PROVE x \in Ids(q) \cup Ids(r)
    <3>1. PICK k \in 1..Len(s) : s[k].id = x
      BY <1>2 DEF Ids
    <3> QED
      BY <1>2, <1>3, <1>4, <3>1
  <2>2. ASSUME NEW x \in Ids(q) PROVE x \in Ids(s)
    <3>1. PICK k \in 1..Len(q) : q[k].id = x
      BY DEF Ids
    <3> QED
      BY <1>2, <3>1 DEF Ids
  <2>3. ASSUME NEW x \in Ids(r) PROVE x \in Ids(s)
    <3>1. PICK k \in 1..Len(r) : r[k].id = x
      BY DEF Ids
    <3> QED
      BY <1>2, <3>1 DEF Ids
  <2> QED
    BY <2>1, <2>2, <2>3
<1> QED
  BY <1>1, <1>2, <1>5, <1>6 DEF Distinct

LEMMA ItemsGrow ==
    ASSUME NEW q \in Seq(Item), NEW p \in Item, Distinct(q), p.id \notin Ids(q)
    PROVE  /\ Append(q, p) \in Seq(Item) /\ Distinct(Append(q, p))
           /\ Ids(Append(q, p)) = Ids(q) \cup {p.id}
<1>1. PICK r : r = <<p>>
  OBVIOUS
<1>2. r \in Seq(Item) /\ Len(r) = 1 /\ r[1] = p
  BY <1>1
<1>3. Distinct(r)
  BY <1>2 DEF Distinct
<1>4. Ids(r) = {p.id}
  BY <1>2 DEF Ids
<1>5. Append(q, p) = q \o r
  BY <1>1
<1> QED
  BY <1>2, <1>3, <1>4, <1>5, ItemsJoin

(* A batch has the pages whose rank is from the offset on, up to its size. *)
LEMMA BatchIs ==
    ASSUME Exports!ExportsSizes, ExTyped, NEW b, b = Exports!List(exp.offset)
    PROVE  /\ b \in Seq(Child) /\ Exports!ToSet(b) \subseteq Exports!ToSet(under)
           /\ \A c \in Exports!ToSet(under) :
                 exp.offset <= RankIn(under, position, c) =>
                    \/ c \in Exports!ToSet(b)
                    \/ exp.offset + childBatch <= RankIn(under, position, c)
           /\ Len(b) < childBatch =>
                 \A c \in Exports!ToSet(under) :
                    RankIn(under, position, c) < exp.offset + childBatch
<1> DEFINE S == Exports!ToSet(under)
           R == Earlier(under, position)
           n == Cardinality(S)
<1>1. /\ under \in Seq(Child) /\ position \in [Child -> Nat] /\ exp.offset \in Nat
      /\ childBatch \in Nat \ {0}
  BY DEF ExTyped, Exports!ExportsSizes
<1>2. S \subseteq Child /\ IsFiniteSet(S) /\ TotalOn(S, R)
  BY <1>1, EarlierIsTotal
<1>3. PICK all : all = Exports!Ordered(S, R)
  OBVIOUS
<1>4. /\ n \in Nat
      /\ all \in [1..n -> S]
      /\ \A x \in S : \E i \in 1..n : all[i] = x
      /\ \A k \in 1..n : Cardinality(Preceding(S, R, all[k])) = k - 1
  <2>1. InOrder(all, S, R)
    BY <1>2, <1>3, OrderedIs, ExportsOrder
  <2> QED
    BY <2>1 DEF InOrder
<1>5. all \in Seq(Child) /\ Len(all) = n
  BY <1>2, <1>4
<1>6. PICK f : f = exp.offset
  OBVIOUS
<1>7. PICK m : m = IF f + childBatch < n THEN f + childBatch ELSE n
  OBVIOUS
<1>8. b = SubSeq(all, f + 1, m)
  BY <1>3, <1>5, <1>6, <1>7, ByPositionIs DEF Exports!List
<1>9. f \in Nat /\ m \in Nat /\ m <= n /\ m <= f + childBatch
  BY <1>1, <1>4, <1>6, <1>7
<1>10. /\ b \in Seq(Child) /\ Len(b) = (IF f + 1 <= m THEN m - f ELSE 0)
       /\ \A i \in 1..Len(b) : f + i \in 1..n /\ b[i] = all[f + i]
  <2>1. /\ b \in Seq(Child)
        /\ Len(b) = IF f + 1 <= m THEN m - (f + 1) + 1 ELSE 0
        /\ \A i \in 1..Len(b) : b[i] = all[f + 1 + i - 1]
    BY <1>5, <1>8, <1>9
  <2>2. Len(b) = IF f + 1 <= m THEN m - f ELSE 0
    BY <1>9, <2>1
  <2>3. \A i \in 1..Len(b) : f + i \in 1..n /\ f + 1 + i - 1 = f + i
    BY <1>4, <1>9, <2>2
  <2>4. \A i \in 1..Len(b) : f + i \in 1..n /\ b[i] = all[f + i]
    <3> TAKE i \in 1..Len(b)
    <3>1. b[i] = all[f + 1 + i - 1] /\ f + 1 + i - 1 = f + i
      BY <2>1, <2>3
    <3> QED
      BY <2>3, <3>1
  <2>5. b \in Seq(Child)
    BY <2>1
  <2> QED
    BY <2>2, <2>4, <2>5, Zenon
<1>11. Exports!ToSet(b) \subseteq S
  <2>1. DOMAIN b = 1..Len(b)
    BY <1>10
  <2>2. \A i \in DOMAIN b : b[i] \in S
    BY <1>4, <1>10, <2>1
  <2> QED
    BY <2>2 DEF Exports!ToSet
<1>12. \A k \in 1..n : RankIn(under, position, all[k]) = k - 1
  BY <1>4 DEF RankIn
<1> HIDE DEF S, R, n
<1>13. ASSUME NEW c \in S, f <= RankIn(under, position, c)
       PROVE  c \in Exports!ToSet(b) \/ f + childBatch <= RankIn(under, position, c)
  <2>1. PICK k \in 1..n : all[k] = c
    BY <1>4
  <2>2. RankIn(under, position, c) = k - 1
    BY <1>12, <2>1
  <2>3. CASE k <= f + childBatch
    <3>1. PICK i : i = k - f
      OBVIOUS
    <3>2. k <= m /\ f + 1 <= k /\ k \in Nat
      BY <1>1, <1>4, <1>7, <1>9, <1>13, <2>2, <2>3
    <3>3. i \in 1..Len(b) /\ f + i = k
      BY <1>9, <1>10, <3>1, <3>2
    <3> QED
      BY <1>10, <2>1, <3>3 DEF Exports!ToSet
  <2>4. CASE f + childBatch < k
    BY <1>1, <1>9, <2>2, <2>4
  <2> QED
    BY <1>1, <1>4, <1>9, <2>3, <2>4
<1>14. ASSUME Len(b) < childBatch, NEW c \in S
       PROVE  RankIn(under, position, c) < f + childBatch
  <2>1. PICK k \in 1..n : all[k] = c
    BY <1>4
  <2>2. RankIn(under, position, c) = k - 1
    BY <1>12, <2>1
  <2>3. n < f + childBatch
    BY <1>1, <1>4, <1>7, <1>9, <1>10, <1>14
  <2>4. k - 1 < f + childBatch
    BY <1>1, <1>4, <1>9, <2>3
  <2> QED
    BY <2>2, <2>4
<1> QED
  BY <1>6, <1>10, <1>11, <1>13, <1>14 DEF S

(* What is read of a batch is each page of it that has not been seen. *)
LEMMA UnseenIs ==
    ASSUME Exports!ExportsSizes, ExTyped, NEW b,
           Exports!ToSet(b) \subseteq Exports!ToSet(under),
           NEW r, r = Exports!Read(Exports!Unseen(b))
    PROVE  /\ r \in Seq(Item) /\ Distinct(r)
           /\ Ids(r) = Exports!ToSet(b) \ Ids(exp.listed)
<1> DEFINE S == Exports!ToSet(under)
           R == Earlier(under, position)
           U == Exports!ToSet(b) \ Ids(exp.listed)
           n == Cardinality(U)
<1>1. under \in Seq(Child) /\ position \in [Child -> Nat]
  BY DEF ExTyped
<1>2. S \subseteq Child /\ IsFiniteSet(S) /\ TotalOn(S, R)
  BY <1>1, EarlierIsTotal
<1>3. U \in SUBSET S
  OBVIOUS
<1>4. IsFiniteSet(U) /\ TotalOn(U, R)
  BY <1>2, <1>3, FS_Subset, TotalOnPart
<1>5. PICK u : u = Exports!Ordered(U, R)
  OBVIOUS
<1>6. u = Exports!Unseen(b)
  BY <1>5, ByPositionIs DEF Exports!Unseen
<1> HIDE DEF U, R
<1>7. /\ n \in Nat
      /\ u \in [1..n -> U]
      /\ \A i, j \in 1..n : u[i] = u[j] => i = j
      /\ \A x \in U : \E i \in 1..n : u[i] = x
  <2>1. InOrder(u, U, R)
    BY <1>4, <1>5, OrderedIs, ExportsOrder
  <2> QED
    BY <2>1 DEF InOrder
<1>8. r = [i \in 1..n |-> [id |-> u[i], pos |-> position[u[i]]]]
  BY <1>6, <1>7 DEF Exports!Read
<1>9. \A i \in 1..n : r[i].id = u[i] /\ r[i] \in Item
  BY <1>1, <1>2, <1>3, <1>7, <1>8 DEF Item
<1>10. r \in Seq(Item) /\ DOMAIN r = 1..n
  BY <1>7, <1>8, <1>9
<1>11. Distinct(r)
  BY <1>7, <1>9, <1>10 DEF Distinct
<1>12. Ids(r) = U
  BY <1>7, <1>9, <1>10 DEF Ids
<1> QED
  BY <1>10, <1>11, <1>12 DEF U

-----------------------------------------------------------------------------
(* The other requests keep what an export has so far. *)

LEMMA ExStarts == Exports!ExportsInit => ExInv
<1> SUFFICES ASSUME Exports!ExportsInit PROVE ExInv
  OBVIOUS
<1> USE DEF Exports!ExportsInit
<1>1. exp = Exports!Unasked /\ exp.pc = "idle"
  BY DEF Exports!Unasked
<1>2. exp \in [pc : {"idle", "list", "gate", "sent", "failed"}, offset : Nat,
               listed : Seq(Item), at : Nat \ {0}, out : Seq(Item)]
  <2>1. <<>> \in Seq(Item)
    OBVIOUS
  <2> QED
    BY <2>1 DEF Exports!Unasked
<1>3. under \in Seq(Child) /\ OnceEach(under)
  BY DEF OnceEach
<1>4. position \in [Child -> Nat]
  OBVIOUS
<1> QED
  BY <1>1, <1>2, <1>3, <1>4 DEF ExInv, ExTyped, ExListed, ExGated, ExSent

LEMMA ExUntouched == ExInv /\ UNCHANGED exVars => ExInv'
<1> SUFFICES ASSUME ExInv, UNCHANGED exVars PROVE ExInv'
  OBVIOUS
<1>1. UNCHANGED <<under, position, readable, exp, constant, denied, shifted>>
  BY DEF exVars
<1>2. ExTyped'
  BY <1>1 DEF ExInv, ExTyped
<1>3. ExListed'
  BY <1>1 DEF ExInv, ExListed
<1>4. ExGated'
  BY <1>1 DEF ExInv, ExGated
<1>5. ExSent'
  BY <1>1 DEF ExInv, ExSent
<1> QED
  BY <1>2, <1>3, <1>4, <1>5 DEF ExInv

LEMMA ExCreated ==
    ASSUME Exports!ExportsSizes, ExInv, NEW c \in Child, NEW pos \in 0..MaxPosition,
           Exports!Created(c, pos)
    PROVE  ExInv'
<1>1. /\ under \in Seq(Child) /\ OnceEach(under) /\ position \in [Child -> Nat]
      /\ constant \subseteq Exports!ToSet(under)
  BY DEF ExInv, ExTyped
<1>2. /\ c \notin Exports!ToSet(under)
      /\ under' = Append(under, c) /\ position' = [position EXCEPT ![c] = pos]
      /\ UNCHANGED <<readable, exp, constant, denied, shifted>>
  BY DEF Exports!Created
<1>3. pos \in Nat
  BY DEF Exports!ExportsSizes
<1>4. /\ under' \in Seq(Child) /\ OnceEach(under') /\ position' \in [Child -> Nat]
      /\ Exports!ToSet(under) \subseteq Exports!ToSet(under')
      /\ \A d \in Exports!ToSet(under) :
            RankIn(under, position, d) <= RankIn(under', position', d)
  <2>1. Added(under, position, c, pos, under', position')
    BY <1>1, <1>2, <1>3 DEF Added
  <2>2. RanksGrow(under, position, under', position')
    BY <2>1, RanksHold
  <2> QED
    BY <2>2 DEF RanksGrow
<1>5. ExTyped'
  BY <1>2, <1>4 DEF ExInv, ExTyped
<1>6. ExListed'
  <2>1. (exp.pc \in {"list", "gate"} => Distinct(exp.listed))'
    BY <1>2 DEF ExInv, ExListed
  <2>2. (exp.pc = "gate" /\ ~shifted => constant \subseteq Ids(exp.listed))'
    BY <1>2 DEF ExInv, ExListed
  <2>3. ASSUME exp.pc = "list", ~shifted, NEW d \in constant
        PROVE  d \in Ids(exp.listed) \/ exp.offset <= RankIn(under', position', d)
    <3>1. d \in Ids(exp.listed) \/ exp.offset <= RankIn(under, position, d)
      BY <2>3 DEF ExInv, ExListed
    <3>2. d \in Exports!ToSet(under) /\ d \in Exports!ToSet(under')
      BY <1>1, <1>4, <2>3
    <3>3. /\ exp.offset \in Nat
          /\ RankIn(under, position, d) \in Nat /\ RankIn(under', position', d) \in Nat
      BY <1>1, <1>4, <3>2, RankIsNat DEF ExInv, ExTyped
    <3> QED
      BY <1>4, <3>1, <3>2, <3>3
  <2> QED
    BY <1>2, <2>1, <2>2, <2>3 DEF ExListed
<1>7. ExGated'
  BY <1>2 DEF ExInv, ExGated
<1>8. ExSent'
  BY <1>2 DEF ExInv, ExSent
<1> QED
  BY <1>5, <1>6, <1>7, <1>8 DEF ExInv

LEMMA ExLeaves ==
    ASSUME ExInv, NEW c \in Child, Exports!Leaves(c)
    PROVE  ExInv'
<1>1. /\ under \in Seq(Child) /\ OnceEach(under)
      /\ constant \subseteq Exports!ToSet(under) /\ constant \subseteq readable
  BY DEF ExInv, ExTyped
<1>2. /\ c \in Exports!ToSet(under)
      /\ under' = Exports!RemoveAt(under, Place(under, c))
      /\ constant' = constant \ {c}
      /\ shifted' = (shifted \/ exp.pc = "list")
      /\ UNCHANGED <<position, readable, exp, denied>>
      /\ exp.pc \notin {"sent", "failed"}
  BY ByPositionIs DEF Exports!Leaves, Exports!Upset
<1>3. /\ under' \in Seq(Child) /\ OnceEach(under')
      /\ Exports!ToSet(under') = Exports!ToSet(under) \ {c}
  BY <1>1, <1>2, RemovedIs
<1>4. ExTyped'
  <2>1. constant' \subseteq Exports!ToSet(under') /\ constant' \subseteq readable
    BY <1>1, <1>2, <1>3
  <2> QED
    BY <1>2, <1>3, <2>1 DEF ExInv, ExTyped
<1>5. ExListed'
  BY <1>2 DEF ExInv, ExListed
<1>6. ExGated'
  BY <1>2 DEF ExInv, ExGated
<1>7. ExSent'
  BY <1>2 DEF ExInv, ExSent
<1> QED
  BY <1>4, <1>5, <1>6, <1>7 DEF ExInv

LEMMA ExReordered ==
    ASSUME Exports!ExportsSizes, ExInv, NEW c \in Child, NEW pos \in 0..MaxPosition,
           Exports!Reordered(c, pos)
    PROVE  ExInv'
<1>1. /\ position' = [position EXCEPT ![c] = pos]
      /\ shifted' = (shifted \/ exp.pc = "list")
      /\ UNCHANGED <<under, readable, exp, constant, denied>>
      /\ exp.pc \notin {"sent", "failed"}
  BY DEF Exports!Reordered, Exports!Upset
<1>2. pos \in Nat /\ position \in [Child -> Nat]
  BY DEF Exports!ExportsSizes, ExInv, ExTyped
<1>3. position' \in [Child -> Nat]
  BY <1>1, <1>2
<1>4. ExTyped'
  BY <1>1, <1>3 DEF ExInv, ExTyped
<1>5. ExListed'
  BY <1>1 DEF ExInv, ExListed
<1>6. ExGated'
  BY <1>1 DEF ExInv, ExGated
<1>7. ExSent'
  BY <1>1 DEF ExInv, ExSent
<1> QED
  BY <1>4, <1>5, <1>6, <1>7 DEF ExInv

LEMMA ExRegranted ==
    ASSUME ExInv, NEW c \in Child, Exports!Regranted(c)
    PROVE  ExInv'
<1>1. /\ readable' = (IF c \in readable THEN readable \ {c} ELSE readable \cup {c})
      /\ constant' = constant \ {c} /\ denied' = denied \ {c}
      /\ UNCHANGED <<under, position, exp, shifted>>
      /\ exp.pc \notin {"sent", "failed"}
  BY DEF Exports!Regranted, Exports!Upset
<1>2. /\ readable \subseteq Child /\ denied \cap readable = {}
      /\ constant \subseteq Exports!ToSet(under) /\ constant \subseteq readable
  BY DEF ExInv, ExTyped
<1>3. ExTyped'
  <2>1. /\ readable' \subseteq Child /\ denied' \cap readable' = {}
        /\ constant' \subseteq Exports!ToSet(under) /\ constant' \subseteq readable'
    BY <1>1, <1>2
  <2> QED
    BY <1>1, <2>1 DEF ExInv, ExTyped
<1>4. ExListed'
  BY <1>1 DEF ExInv, ExListed
<1>5. ExGated'
  BY <1>1 DEF ExInv, ExGated
<1>6. ExSent'
  BY <1>1 DEF ExInv, ExSent
<1> QED
  BY <1>3, <1>4, <1>5, <1>6 DEF ExInv

-----------------------------------------------------------------------------
(* The export's own steps. *)

LEMMA ExGathers ==
    ASSUME Exports!ExportsSizes, ExInv, Exports!GatherPages
    PROVE  ExInv'
<1>1. /\ exp.pc = "idle" /\ exp' = [exp EXCEPT !.pc = "list"]
      /\ constant' = Exports!ToSet(under) \cap readable /\ denied' = Child \ readable
      /\ UNCHANGED <<under, position, readable, shifted>>
  BY DEF Exports!GatherPages
<1>2. /\ under \in Seq(Child) /\ position \in [Child -> Nat] /\ exp = Exports!Unasked
      /\ exp \in [pc : {"idle", "list", "gate", "sent", "failed"}, offset : Nat,
                  listed : Seq(Item), at : Nat \ {0}, out : Seq(Item)]
  BY <1>1 DEF ExInv, ExTyped
<1>3. /\ exp.offset = 0 /\ exp.listed = <<>> /\ exp.at = 1 /\ exp.out = <<>>
  BY <1>2 DEF Exports!Unasked
<1>4. /\ exp' \in [pc : {"idle", "list", "gate", "sent", "failed"}, offset : Nat,
                   listed : Seq(Item), at : Nat \ {0}, out : Seq(Item)]
      /\ exp'.pc = "list" /\ exp'.offset = 0 /\ exp'.listed = <<>>
      /\ exp'.at = 1 /\ exp'.out = <<>>
  BY <1>1, <1>2, <1>3
<1>5. ExTyped'
  BY <1>1, <1>4 DEF ExInv, ExTyped
<1>6. ExListed'
  <2>1. Distinct(exp'.listed)
    BY <1>4 DEF Distinct
  <2>2. \A c \in constant' : exp'.offset <= RankIn(under', position', c)
    BY <1>1, <1>2, <1>4, RankIsNat
  <2> QED
    BY <1>4, <2>1, <2>2 DEF ExListed
<1>7. ExGated'
  <2>1. Distinct(exp'.out) /\ Ids(exp'.out) = {}
    BY <1>4 DEF Distinct, Ids
  <2> QED
    BY <1>4, <2>1 DEF ExGated
<1>8. ExSent'
  BY <1>4 DEF ExSent
<1> QED
  BY <1>5, <1>6, <1>7, <1>8 DEF ExInv

(* A page that stayed where it was is in the batch, or before it, or after it. *)
LEMMA ExLists ==
    ASSUME Exports!ExportsSizes, ExInv, Exports!ListChildren
    PROVE  ExInv'
<1>1. PICK b : b = Exports!List(exp.offset)
  OBVIOUS
<1>2. PICK r : r = Exports!Read(Exports!Unseen(b))
  OBVIOUS
<1>3. ExTyped /\ ExListed
  BY DEF ExInv
<1>4. /\ exp.pc = "list"
      /\ exp' = [exp EXCEPT !.listed = exp.listed \o r,
                            !.offset = exp.offset + childBatch,
                            !.pc = IF Len(b) < childBatch THEN "gate" ELSE "list"]
      /\ UNCHANGED <<under, position, readable, constant, denied, shifted>>
  BY <1>1, <1>2 DEF Exports!ListChildren
<1>5. /\ Exports!ToSet(b) \subseteq Exports!ToSet(under)
      /\ \A c \in Exports!ToSet(under) :
            exp.offset <= RankIn(under, position, c) =>
               \/ c \in Exports!ToSet(b)
               \/ exp.offset + childBatch <= RankIn(under, position, c)
      /\ Len(b) < childBatch =>
            \A c \in Exports!ToSet(under) :
               RankIn(under, position, c) < exp.offset + childBatch
      /\ Len(b) \in Nat
  BY <1>1, <1>3, BatchIs
<1>6. /\ r \in Seq(Item) /\ Distinct(r)
      /\ Ids(r) = Exports!ToSet(b) \ Ids(exp.listed)
  BY <1>2, <1>3, <1>5, UnseenIs
<1>7. PICK l : l = exp.listed \o r
  OBVIOUS
<1>8. /\ exp \in [pc : {"idle", "list", "gate", "sent", "failed"}, offset : Nat,
                  listed : Seq(Item), at : Nat \ {0}, out : Seq(Item)]
      /\ exp.at = 1 /\ exp.out = <<>> /\ Distinct(exp.listed)
      /\ under \in Seq(Child) /\ position \in [Child -> Nat]
      /\ constant \subseteq Exports!ToSet(under) /\ childBatch \in Nat
  BY <1>3, <1>4 DEF ExTyped, ExListed, Exports!ExportsSizes
<1>9. l \in Seq(Item) /\ Distinct(l) /\ Ids(l) = Ids(exp.listed) \cup Exports!ToSet(b)
  BY <1>6, <1>7, <1>8, ItemsJoin
<1>10. /\ exp' \in [pc : {"idle", "list", "gate", "sent", "failed"}, offset : Nat,
                    listed : Seq(Item), at : Nat \ {0}, out : Seq(Item)]
       /\ exp'.pc = (IF Len(b) < childBatch THEN "gate" ELSE "list")
       /\ exp'.offset = exp.offset + childBatch /\ exp'.listed = l
       /\ exp'.at = 1 /\ exp'.out = <<>>
  <2>1. PICK next : next = IF Len(b) < childBatch THEN "gate" ELSE "list"
    OBVIOUS
  <2>2. PICK f : f = exp.offset + childBatch
    OBVIOUS
  <2>3. next \in {"idle", "list", "gate", "sent", "failed"} /\ f \in Nat
    BY <1>8, <2>1, <2>2
  <2>4. exp' = [exp EXCEPT !.listed = l, !.offset = f, !.pc = next]
    BY <1>4, <1>7, <2>1, <2>2
  <2>5. /\ exp' \in [pc : {"idle", "list", "gate", "sent", "failed"}, offset : Nat,
                     listed : Seq(Item), at : Nat \ {0}, out : Seq(Item)]
        /\ exp'.pc = next /\ exp'.offset = f /\ exp'.listed = l
        /\ exp'.at = exp.at /\ exp'.out = exp.out
    BY <1>8, <1>9, <2>3, <2>4
  <2> QED
    BY <1>8, <2>1, <2>2, <2>5
<1>11. ExTyped'
  BY <1>3, <1>4, <1>10 DEF ExTyped
<1>12. ExListed'
  <2>1. ASSUME ~shifted, NEW c \in constant
        PROVE  c \in Ids(l) \/ exp.offset + childBatch <= RankIn(under, position, c)
    BY <1>3, <1>4, <1>5, <1>8, <1>9, <2>1 DEF ExListed
  <2>2. ASSUME ~shifted, NEW c \in constant, Len(b) < childBatch
        PROVE  c \in Ids(l)
    <3>1. RankIn(under, position, c) < exp.offset + childBatch
      BY <1>5, <1>8, <2>2
    <3>2. RankIn(under, position, c) \in Nat /\ exp.offset \in Nat
      BY <1>8, RankIsNat
    <3> QED
      BY <1>8, <2>1, <2>2, <3>1, <3>2
  <2> QED
    BY <1>4, <1>9, <1>10, <2>1, <2>2 DEF ExListed
<1>13. ExGated'
  <2>1. Distinct(exp'.out) /\ Ids(exp'.out) = {}
    BY <1>10 DEF Distinct, Ids
  <2>2. Len(l) \in Nat /\ \A j \in DOMAIN l : ~(j < 1)
    BY <1>9
  <2> QED
    BY <1>10, <2>1, <2>2 DEF ExGated
<1>14. ExSent'
  BY <1>10 DEF ExSent
<1> QED
  BY <1>11, <1>12, <1>13, <1>14 DEF ExInv

(* A child is asked about once; what is kept may be read. *)
LEMMA ExAuthorizes ==
    ASSUME ExInv, Exports!AuthorizeNext
    PROVE  ExInv'
<1>1. ExTyped /\ ExListed /\ ExGated
  BY DEF ExInv
<1>2. PICK p : p = exp.listed[exp.at]
  OBVIOUS
<1>3. PICK o : o = IF p.id \in readable THEN Append(exp.out, p) ELSE exp.out
  OBVIOUS
<1>4. /\ exp.pc = "gate" /\ exp.at <= Len(exp.listed)
      /\ exp' = [exp EXCEPT !.at = exp.at + 1, !.out = o]
      /\ UNCHANGED <<under, position, readable, constant, denied, shifted>>
  BY <1>2, <1>3 DEF Exports!AuthorizeNext
<1>5. /\ exp \in [pc : {"idle", "list", "gate", "sent", "failed"}, offset : Nat,
                  listed : Seq(Item), at : Nat \ {0}, out : Seq(Item)]
      /\ constant \subseteq readable /\ denied \cap readable = {}
      /\ Distinct(exp.listed) /\ Distinct(exp.out) /\ Ids(exp.out) \cap denied = {}
      /\ \A i \in DOMAIN exp.out :
            \E j \in DOMAIN exp.listed : j < exp.at /\ exp.listed[j].id = exp.out[i].id
      /\ \A j \in DOMAIN exp.listed :
            j < exp.at /\ exp.listed[j].id \in constant => exp.listed[j].id \in Ids(exp.out)
  BY <1>1, <1>4 DEF ExTyped, ExListed, ExGated
<1>6. p \in Item /\ exp.at \in DOMAIN exp.listed
  BY <1>2, <1>4, <1>5
<1>7. p.id \notin Ids(exp.out)
  <2>1. ASSUME p.id \in Ids(exp.out) PROVE FALSE
    <3>1. PICK i \in DOMAIN exp.out : exp.out[i].id = p.id
      BY <2>1 DEF Ids
    <3>2. PICK j \in DOMAIN exp.listed : j < exp.at /\ exp.listed[j].id = p.id
      BY <1>5, <3>1
    <3>3. j = exp.at
      BY <1>2, <1>5, <1>6, <3>2 DEF Distinct
    <3> QED
      BY <1>5, <3>2, <3>3
  <2> QED
    BY <2>1
<1>8. /\ o \in Seq(Item) /\ Distinct(o)
      /\ Ids(o) = (IF p.id \in readable THEN Ids(exp.out) \cup {p.id} ELSE Ids(exp.out))
  BY <1>3, <1>5, <1>6, <1>7, ItemsGrow
<1>9. /\ exp' \in [pc : {"idle", "list", "gate", "sent", "failed"}, offset : Nat,
                   listed : Seq(Item), at : Nat \ {0}, out : Seq(Item)]
      /\ exp'.pc = "gate" /\ exp'.listed = exp.listed
      /\ exp'.at = exp.at + 1 /\ exp'.out = o
  <2>1. PICK a : a = exp.at + 1
    OBVIOUS
  <2>2. a \in Nat \ {0}
    BY <1>5, <2>1
  <2>3. exp' = [exp EXCEPT !.at = a, !.out = o]
    BY <1>4, <2>1
  <2>4. /\ exp' \in [pc : {"idle", "list", "gate", "sent", "failed"}, offset : Nat,
                     listed : Seq(Item), at : Nat \ {0}, out : Seq(Item)]
        /\ exp'.pc = exp.pc /\ exp'.listed = exp.listed /\ exp'.at = a /\ exp'.out = o
    BY <1>5, <1>8, <2>2, <2>3
  <2> QED
    BY <1>4, <2>1, <2>4
<1>10. ExTyped'
  BY <1>1, <1>4, <1>9 DEF ExTyped
<1>11. ExListed'
  BY <1>1, <1>4, <1>9 DEF ExListed
<1>12. ExGated'
  <2>1. exp.at + 1 <= Len(exp.listed) + 1
    BY <1>4, <1>5
  <2>2. ASSUME NEW i \in DOMAIN o
        PROVE  \E j \in DOMAIN exp.listed : j < exp.at + 1 /\ exp.listed[j].id = o[i].id
    <3>1. o[i].id \in Ids(o)
      BY DEF Ids
    <3>2. o[i].id \in Ids(exp.out) \/ o[i].id = p.id
      BY <1>8, <3>1
    <3>3. CASE o[i].id = p.id
      BY <1>2, <1>5, <1>6, <3>3
    <3>4. CASE o[i].id \in Ids(exp.out)
      <4>1. PICK k \in DOMAIN exp.out : exp.out[k].id = o[i].id
        BY <3>4 DEF Ids
      <4>2. PICK j \in DOMAIN exp.listed : j < exp.at /\ exp.listed[j].id = o[i].id
        BY <1>5, <4>1
      <4>3. j < exp.at + 1
        BY <1>5, <4>2
      <4> QED
        BY <4>2, <4>3
    <3> QED
      BY <3>2, <3>3, <3>4
  <2>3. Ids(o) \cap denied = {}
    BY <1>5, <1>8
  <2>4. ASSUME NEW j \in DOMAIN exp.listed, j < exp.at + 1, exp.listed[j].id \in constant
        PROVE  exp.listed[j].id \in Ids(o)
    <3>1. j < exp.at \/ j = exp.at
      BY <1>5, <2>4
    <3> QED
      BY <1>2, <1>5, <1>8, <2>4, <3>1
  <2> QED
    BY <1>4, <1>8, <1>9, <2>1, <2>2, <2>3, <2>4 DEF ExGated
<1>13. ExSent'
  BY <1>9 DEF ExSent
<1> QED
  BY <1>10, <1>11, <1>12, <1>13 DEF ExInv

(* Sorting keeps each page once. *)
LEMMA SortedIs ==
    ASSUME NEW q \in Seq(Item), Distinct(q), NEW s, s = Exports!Sorted(q)
    PROVE  /\ s \in Seq(Item) /\ Distinct(s) /\ Ids(s) = Ids(q)
           /\ \A i, j \in DOMAIN s : i < j => s[i].pos <= s[j].pos
<1> DEFINE n == Len(q)
           R == Exports!Stably(q)
<1>1. n \in Nat /\ DOMAIN q = 1..n /\ \A i \in 1..n : q[i] \in Item /\ q[i].pos \in Nat
  <2>1. n \in Nat /\ DOMAIN q = 1..n /\ \A i \in 1..n : q[i] \in Item
    OBVIOUS
  <2>2. \A p \in Item : p.pos \in Nat
    BY DEF Item
  <2> QED
    BY <2>1, <2>2
<1>2. IsFiniteSet(DOMAIN q) /\ Cardinality(DOMAIN q) = n
  <2>1. IsFiniteSet(1..n) /\ Cardinality(1..n) = n
    <3>1. 1 \in Int /\ n \in Int /\ n >= 0
      BY <1>1
    <3>2. IsFiniteSet(1..n) /\ Cardinality(1..n) = IF 1 > n THEN 0 ELSE n - 1 + 1
      BY <3>1, FS_Interval
    <3> QED
      BY <3>1, <3>2
  <2> QED
    BY <1>1, <2>1
<1>3. \A i, j : <<i, j>> \in R <=>
         /\ i \in DOMAIN q /\ j \in DOMAIN q
         /\ q[i].pos < q[j].pos \/ (q[i].pos = q[j].pos /\ i < j)
  BY DEF Exports!Stably
<1> HIDE DEF R
<1>4. TotalOn(DOMAIN q, R)
  <2>1. \A i \in DOMAIN q : i \in Nat /\ q[i].pos \in Nat
    BY <1>1
  <2>2. \A x \in DOMAIN q : <<x, x>> \notin R
    BY <1>3, <2>1
  <2>3. \A x, y, z \in DOMAIN q :
           <<x, y>> \in R /\ <<y, z>> \in R => <<x, z>> \in R
    BY <1>3, <2>1
  <2>4. \A x, y \in DOMAIN q : x # y => <<x, y>> \in R \/ <<y, x>> \in R
    BY <1>3, <2>1
  <2> QED
    BY <2>2, <2>3, <2>4 DEF TotalOn
<1>5. PICK o : o = Exports!Ordered(DOMAIN q, R)
  OBVIOUS
<1>6. /\ o \in [1..n -> DOMAIN q]
      /\ \A i, j \in 1..n : i < j => <<o[i], o[j]>> \in R
      /\ \A i, j \in 1..n : o[i] = o[j] => i = j
      /\ \A x \in DOMAIN q : \E i \in 1..n : o[i] = x
  <2>1. PICK S : S = DOMAIN q
    OBVIOUS
  <2>2. IsFiniteSet(S) /\ TotalOn(S, R) /\ o = Exports!Ordered(S, R)
    BY <1>2, <1>4, <1>5, <2>1
  <2>3. InOrder(o, S, R)
    BY <2>2, OrderedIs, ExportsOrder
  <2>4. Cardinality(S) = n /\ S = DOMAIN q
    BY <1>2, <2>1
  <2> QED
    BY <2>3, <2>4 DEF InOrder
<1>7. s = [i \in DOMAIN q |-> q[o[i]]]
  BY <1>5 DEF Exports!Sorted, R
<1>8. /\ s \in Seq(Item) /\ DOMAIN s = 1..n
      /\ \A i \in 1..n : s[i] = q[o[i]] /\ o[i] \in DOMAIN q
  <2>1. s = [i \in 1..n |-> q[o[i]]]
    BY <1>1, <1>7
  <2>2. \A i \in 1..n : o[i] \in DOMAIN q /\ s[i] = q[o[i]] /\ s[i] \in Item
    BY <1>1, <1>6, <2>1
  <2> QED
    BY <1>1, <2>1, <2>2
<1>9. Distinct(s)
  BY <1>6, <1>8 DEF Distinct
<1>10. Ids(s) = Ids(q)
  <2>1. ASSUME NEW x \in Ids(s) PROVE x \in Ids(q)
    <3>1. PICK i \in 1..n : s[i].id = x
      BY <1>8 DEF Ids
    <3> QED
      BY <1>8, <3>1 DEF Ids
  <2>2. ASSUME NEW x \in Ids(q) PROVE x \in Ids(s)
    <3>1. PICK k \in DOMAIN q : q[k].id = x
      BY DEF Ids
    <3>2. PICK i \in 1..n : o[i] = k
      BY <1>6
    <3> QED
      BY <1>8, <3>1, <3>2 DEF Ids
  <2> QED
    BY <2>1, <2>2
<1>11. ASSUME NEW i \in DOMAIN s, NEW j \in DOMAIN s, i < j
       PROVE  s[i].pos <= s[j].pos
  <2>1. <<o[i], o[j]>> \in R
    BY <1>6, <1>8, <1>11
  <2>2. o[i] \in DOMAIN q /\ o[j] \in DOMAIN q
    BY <1>8
  <2>3. q[o[i]].pos <= q[o[j]].pos
    <3>1. q[o[i]].pos < q[o[j]].pos \/ q[o[i]].pos = q[o[j]].pos
      BY <1>3, <2>1
    <3> QED
      BY <1>1, <2>2, <3>1
  <2> QED
    BY <1>8, <2>3
<1> QED
  BY <1>8, <1>9, <1>10, <1>11

LEMMA ExRenders ==
    ASSUME ExInv, Exports!Render
    PROVE  ExInv'
<1>1. ExTyped /\ ExListed /\ ExGated
  BY DEF ExInv
<1>2. PICK o : o = Exports!Sorted(exp.out)
  OBVIOUS
<1>3. /\ exp.pc = "gate" /\ exp.at > Len(exp.listed)
      /\ \/ exp' = [exp EXCEPT !.pc = "failed"]
         \/ exp' = [exp EXCEPT !.pc = "sent", !.out = o]
      /\ UNCHANGED <<under, position, readable, constant, denied, shifted>>
  BY <1>2 DEF Exports!Render
<1>4. /\ exp \in [pc : {"idle", "list", "gate", "sent", "failed"}, offset : Nat,
                  listed : Seq(Item), at : Nat \ {0}, out : Seq(Item)]
      /\ Distinct(exp.out) /\ Ids(exp.out) \cap denied = {}
      /\ \A j \in DOMAIN exp.listed :
            j < exp.at /\ exp.listed[j].id \in constant => exp.listed[j].id \in Ids(exp.out)
      /\ ~shifted => constant \subseteq Ids(exp.listed)
  BY <1>1, <1>3 DEF ExTyped, ExListed, ExGated
<1>5. /\ o \in Seq(Item) /\ Distinct(o) /\ Ids(o) = Ids(exp.out)
      /\ \A i, j \in DOMAIN o : i < j => o[i].pos <= o[j].pos
  BY <1>2, <1>4, SortedIs
<1>6. CASE exp' = [exp EXCEPT !.pc = "failed"]
  <2>1. /\ exp' \in [pc : {"idle", "list", "gate", "sent", "failed"}, offset : Nat,
                     listed : Seq(Item), at : Nat \ {0}, out : Seq(Item)]
        /\ exp'.pc = "failed"
    BY <1>4, <1>6
  <2> QED
    BY <1>1, <1>3, <2>1 DEF ExInv, ExTyped, ExListed, ExGated, ExSent
<1>7. CASE exp' = [exp EXCEPT !.pc = "sent", !.out = o]
  <2>1. /\ exp' \in [pc : {"idle", "list", "gate", "sent", "failed"}, offset : Nat,
                     listed : Seq(Item), at : Nat \ {0}, out : Seq(Item)]
        /\ exp'.pc = "sent" /\ exp'.out = o
    BY <1>4, <1>5, <1>7
  <2>2. ~shifted => constant \subseteq Ids(o)
    <3>1. SUFFICES ASSUME ~shifted, NEW c \in constant PROVE c \in Ids(o)
      OBVIOUS
    <3>2. PICK j \in DOMAIN exp.listed : exp.listed[j].id = c
      BY <1>4, <3>1 DEF Ids
    <3>3. j < exp.at
      BY <1>3, <1>4, <3>2
    <3> QED
      BY <1>4, <1>5, <3>1, <3>2, <3>3
  <2>3. ExSent'
    BY <1>3, <1>4, <1>5, <2>1, <2>2 DEF ExSent
  <2>4. ExTyped' /\ ExListed' /\ ExGated'
    BY <1>1, <1>3, <2>1 DEF ExTyped, ExListed, ExGated
  <2> QED
    BY <2>3, <2>4 DEF ExInv
<1> QED
  BY <1>3, <1>6, <1>7

LEMMA ExStops ==
    ASSUME ExInv, Exports!ExportFails
    PROVE  ExInv'
<1>1. /\ exp' = [exp EXCEPT !.pc = "failed"]
      /\ UNCHANGED <<under, position, readable, constant, denied, shifted>>
  BY DEF Exports!ExportFails
<1>2. /\ exp' \in [pc : {"idle", "list", "gate", "sent", "failed"}, offset : Nat,
                   listed : Seq(Item), at : Nat \ {0}, out : Seq(Item)]
      /\ exp'.pc = "failed"
  BY <1>1 DEF ExInv, ExTyped
<1> QED
  BY <1>1, <1>2 DEF ExInv, ExTyped, ExListed, ExGated, ExSent

LEMMA ExStep ==
    ASSUME Exports!ExportsSizes, ExInv, Exports!ExportsNext \/ UNCHANGED exVars
    PROVE  ExInv'
BY ExUntouched, ExCreated, ExLeaves, ExReordered, ExRegranted, ExGathers, ExLists,
   ExAuthorizes, ExRenders, ExStops DEF Exports!ExportsNext

(* As many pages are sent as there are entries, each being once. *)
LEMMA ExTells == ExInv => ExportHasEveryChild
<1> SUFFICES ASSUME ExInv, exp.pc = "sent"
             PROVE  LET sent == {exp.out[i].id : i \in DOMAIN exp.out}
                    IN /\ Exports!Cardinality(sent) = Len(exp.out)
                       /\ sent \cap denied = {}
                       /\ \A i, j \in DOMAIN exp.out :
                             i < j => exp.out[i].pos <= exp.out[j].pos
                       /\ ~shifted => constant \subseteq sent
  BY DEF ExportHasEveryChild, Exports!ExportHasEveryChild
<1>1. PICK o : o = exp.out
  OBVIOUS
<1>2. /\ o \in Seq(Item) /\ Distinct(o) /\ Ids(o) \cap denied = {}
      /\ \A i, j \in DOMAIN o : i < j => o[i].pos <= o[j].pos
      /\ ~shifted => constant \subseteq Ids(o)
  BY <1>1 DEF ExInv, ExTyped, ExSent
<1>3. PICK f : f = [i \in 1..Len(o) |-> o[i].id]
  OBVIOUS
<1>4. f \in Bijection(1..Len(o), Ids(o))
  <2>1. f \in [1..Len(o) -> Ids(o)] /\ \A i \in 1..Len(o) : f[i] = o[i].id
    BY <1>2, <1>3 DEF Ids
  <2>2. \A i, j \in 1..Len(o) : f[i] = f[j] => i = j
    BY <1>2, <2>1 DEF Distinct
  <2>3. \A x \in Ids(o) : \E i \in 1..Len(o) : f[i] = x
    BY <1>2, <2>1 DEF Ids
  <2> QED
    BY <2>1, <2>2, <2>3 DEF Bijection, Injection, IsInjective, Surjection
<1>5. IsFiniteSet(1..Len(o)) /\ Cardinality(1..Len(o)) = Len(o)
  <2>1. 1 \in Int /\ Len(o) \in Int /\ Len(o) >= 0
    BY <1>2
  <2>2. /\ IsFiniteSet(1..Len(o))
        /\ Cardinality(1..Len(o)) = IF 1 > Len(o) THEN 0 ELSE Len(o) - 1 + 1
    BY <2>1, FS_Interval
  <2> QED
    BY <2>1, <2>2
<1>6. Cardinality(Ids(o)) = Len(o)
  BY <1>4, <1>5, FS_Bijection DEF ExistsBijection
<1>7. Exports!Cardinality(Ids(o)) = Len(o)
  BY <1>6, ExportsCount
<1> QED
  BY <1>1, <1>2, <1>7 DEF Ids

(* What an export sends has no page twice, none the caller could not read all along, and *)
(* every child that was there and readable all along, unless one left or changed its     *)
(* place meanwhile, for any number of children, size of a batch and order of the other   *)
(* requests (export/exporter.go gatherPages, listChildren).                              *)
THEOREM ExportComplete == DocumentsSpec => []ExportHasEveryChild
<1>1. Exports!ExportsSizes
  BY DocumentsAssumption
<1>2. DocumentsInit => ExInv
  BY ExStarts DEF DocumentsInit, DocumentsStart
<1>3. ExInv /\ [DocumentsNext]_docVars => ExInv'
  BY <1>1, PartSteps, ExStep
<1>4. ExInv => ExportHasEveryChild
  BY ExTells
<1> QED
  BY <1>2, <1>3, <1>4, PTL DEF DocumentsSpec

====
