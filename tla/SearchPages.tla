----------------------------- MODULE SearchPages -----------------------------
(***************************************************************************)
(* A reader walks a search's answer page by page: the two ranked halves, the *)
(* merge, the access filter and the two places an offset may be applied      *)
(* (search/handler.go Search).  The store does not change during a walk.     *)
(***************************************************************************)
EXTENDS Orders, SequencesExt

CONSTANTS Rows,          \* pages 1..Rows, in the order of their ids
          MaxScore,      \* ranks and similarities, 0 for a page a half does not match
          MaxFetchFactor, MaxFetchRows, \* the code's 4 and 50
          MaxLimit

SearchSizes == {Rows, MaxScore, MaxFetchFactor, MaxFetchRows, MaxLimit} \subseteq Nat \ {0}

VARIABLES
    rank, sim, \* what each half gives each page
    hidden,    \* pages the reader may not view
    kind, limit, \* of the walk
    offset,    \* of its next request
    shown,     \* the rows it was answered with
    ended      \* an answer was empty

seVars == <<rank, sim, hidden, kind, limit, offset, shown, ended>>

Row == 1..Rows
OneAnswer == {"search_docs", "ask_docs", "ask"}
Kind == {"all", "fulltext", "semantic"} \cup OneAnswer

SearchInit ==
    /\ rank \in [Row -> 0..MaxScore]
    /\ sim \in [Row -> 0..MaxScore]
    /\ hidden \in SUBSET Row
    /\ kind \in Kind
    /\ limit \in 1..MaxLimit
    /\ offset = 0 /\ shown = <<>> /\ ended = FALSE

-----------------------------------------------------------------------------
Descending(score) ==
    {p \in Row \X Row : \/ score[p[1]] > score[p[2]]
                       \/ (score[p[1]] = score[p[2]] /\ p[1] < p[2])}

Ranked(score) == Ordered({r \in Row : score[r] > 0}, Descending(score))

\* LIMIT and OFFSET
Cut(rows, from, n) == SubSeq(rows, from + 1, Min({from + n, Len(rows)}))

\* ORDER BY rank DESC, p.id
SearchWithRank(n, from) == Cut(Ranked(rank), from, n)

\* ORDER BY distance, page_id, and the similarity threshold
SemanticSearch(n, from) == Cut(Ranked(sim), from, n)

\* Where a row is among rows, which differ.
Place(rows, r) == CHOOSE i \in DOMAIN rows : rows[i] = r

Score(r, ft, sem) == Max({IF r \in ft THEN 3 * rank[r] ELSE 0, IF r \in sem THEN 2 * sim[r] ELSE 0})

\* merge: the full-text rows, then the semantic ones they lack, sorted by the higher of
\* 0.6 of the rank and 0.4 of the similarity; the insertion sort is stable.
Merge(ft, sem) ==
    LET both == ToSet(ft) \cup ToSet(sem)
        At(r) == IF r \in ToSet(ft) THEN Place(ft, r) ELSE Len(ft) + Place(sem, r)
        S(r) == Score(r, ToSet(ft), ToSet(sem))
    IN Ordered(both, {p \in both \X both : \/ S(p[1]) > S(p[2])
                                          \/ (S(p[1]) = S(p[2]) /\ At(p[1]) < At(p[2]))})

\* The rows that are left keep their order.
VisibleTo(rows) ==
    Ordered(ToSet(rows) \ hidden,
            {p \in ToSet(rows) \X ToSet(rows) : Place(rows, p[1]) < Place(rows, p[2])})

\* Mutant: the offset is pushed into both halves.
OffsetInHalves(from) == from

\* With two halves the answer's own order exists only after the merge.
SqlOffset(from) == IF kind = "all" THEN 0 ELSE from

AtMost(n) == Min({n, MaxFetchRows})

\* How many merged rows the caller's page needs; a sum that overflows is clamped too.
Window(from) == IF kind = "all" THEN AtMost(from + limit) ELSE limit

FetchLimit(from) == AtMost(Window(from) * MaxFetchFactor)

\* Handler.Search
Answer(from) ==
    LET n == FetchLimit(from)
        ft == IF kind = "semantic" THEN <<>> ELSE SearchWithRank(n, SqlOffset(from))
        sem == IF kind = "fulltext" THEN <<>> ELSE SemanticSearch(n, SqlOffset(from))
        rows == VisibleTo(Merge(ft, sem))
    IN Cut(rows, IF kind = "all" THEN from ELSE 0, limit)

\* The tools' and the prompt's window: what is fetched, less what is hidden, cut.
FirstVisible(rows) == Cut(VisibleTo(rows), 0, limit)

ToolSearchDocs == FirstVisible(SearchWithRank(AtMost(limit * MaxFetchFactor), 0))

\* limit is askContextPages here.
ToolAskDocs == FirstVisible(SearchWithRank(AtMost(limit * MaxFetchFactor), 0))

\* Store.Search, the newest first; rows are numbered in that order here.
Search(n) == Cut(Ordered({r \in Row : rank[r] > 0}, {p \in Row \X Row : p[1] < p[2]}), 0, n)

\* ai.Handler.Ask
Ask == FirstVisible(Search(limit * MaxFetchFactor))

-----------------------------------------------------------------------------
NextPage ==
    /\ ~ended /\ kind \notin OneAnswer
    /\ LET rows == Answer(offset)
       IN /\ shown' = shown \o rows
          /\ ended' = (rows = <<>>)
    /\ offset' = offset + limit
    /\ UNCHANGED <<rank, sim, hidden, kind, limit>>

OnlyAnswer ==
    /\ ~ended /\ kind \in OneAnswer
    /\ shown' = CASE kind = "search_docs" -> ToolSearchDocs
                  [] kind = "ask_docs" -> ToolAskDocs
                  [] kind = "ask" -> Ask
    /\ ended' = TRUE
    /\ UNCHANGED <<rank, sim, hidden, kind, limit, offset>>

SearchNext == NextPage \/ OnlyAnswer

SearchSpec == SearchInit /\ [][SearchNext]_seVars

-----------------------------------------------------------------------------
\* Two rows of one score are in the order of the halves, which grow with the offset.
Tied == \E a, b \in Row : a # b /\ Score(a, Row, Row) = Score(b, Row, Row) /\ Score(a, Row, Row) > 0

Matched == {r \in Row : \/ kind # "semantic" /\ rank[r] > 0
                        \/ kind \in {"all", "semantic"} /\ sim[r] > 0}

(* A walk through the pages of a search answers no row twice, and when it ends it  *)
(* has answered every matching page the reader may view, as long as the whole     *)
(* answer fits the fetch window, the hidden pages fit the over-fetch and no two    *)
(* scores tie; for a walk of one half, as long as nothing is hidden.  An answer    *)
(* given once, to a tool or into a prompt, is as full as the readable matches      *)
(* allow under the same over-fetch (handler.go Search, "where the offset is        *)
(* applied"; mcp/server.go toolSearchDocs, toolAskDocs; ai/handler.go Ask).       *)
WalkShowsEachOnce ==
    /\ Cardinality(Matched) <= MaxFetchRows /\ (kind = "all" => ~Tied)
    /\ hidden # {} => /\ kind \notin {"fulltext", "semantic"}
                      /\ Cardinality(hidden) <= (MaxFetchFactor - 1) * limit
    =>
        /\ IsInjective(shown) /\ ToSet(shown) \subseteq Matched \ hidden
        /\ ended => Len(shown) = IF kind \in OneAnswer THEN Min({limit, Cardinality(Matched \ hidden)})
                                 ELSE Cardinality(Matched \ hidden)

(* What the handler says of rows the reader may not view, for every walk: they do  *)
(* not shift the page boundary (handler.go "a page they cannot read ... must not   *)
(* shift the page boundary either").                                             *)
NoRowTwice == IsInjective(shown)

=============================================================================
