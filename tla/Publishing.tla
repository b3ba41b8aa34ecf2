----------------------------- MODULE Publishing -----------------------------
(***************************************************************************)
(* What a page's readers rely on after a save: its approval, the issue links *)
(* and cost taken from its content, and its place in a search. A save starts *)
(* the link reconciliation without waiting for it, approval and search read  *)
(* the stored page; none waits for another, so a behaviour is one of theirs. *)
(***************************************************************************)
EXTENDS Approval, FiniteSets, TLC

CONSTANTS Issue, Saver, Syncer, MaxEdits, MaxSpend, MaxMisses,
          Rows, MaxScore, MaxFetchFactor, MaxFetchRows, MaxLimit

VARIABLES
    focus,                                            \* whose behaviour this is
    embeds, links, savers, spent, cache, syncs, total, edits, misses, settled, wished, last,
    rank, sim, hidden, kind, limit, offset, shown, ended

L == INSTANCE Links
S == INSTANCE SearchPages

ASSUME PublishingAssumption == L!LinksSizes /\ S!SearchSizes

linkVars == <<embeds, links, savers, spent, cache, syncs, total, edits, misses,
              settled, wished, last>>
seVars == <<rank, sim, hidden, kind, limit, offset, shown, ended>>

\* The parts that are not looked at start, and stay, in one state.
NoSearch ==
    /\ rank = <<>> /\ sim = <<>> /\ hidden = {} /\ kind = "all" /\ limit = 1
    /\ offset = 0 /\ shown = <<>> /\ ended = TRUE

PublishingInit ==
    /\ focus \in {"approval", "links", "search"}
    /\ Init /\ L!LinksInit
    /\ Cardinality(wished) = IF focus = "links" THEN 1 ELSE 0
    /\ IF focus = "search" THEN S!SearchInit ELSE NoSearch

PublishingNext ==
    \/ focus = "approval" /\ Next /\ UNCHANGED <<focus, linkVars, seVars>>
    \/ focus = "links" /\ L!LinksNext /\ UNCHANGED <<focus, vars, seVars>>
    \/ focus = "search" /\ S!SearchNext /\ UNCHANGED <<focus, vars, linkVars>>

PublishingSpec == PublishingInit /\ [][PublishingNext]_<<focus, vars, linkVars, seVars>>

\* Reviewers are interchangeable, and so are handlers, issues and savers.
Symmetry == Permutations(Member) \cup Permutations(Handler)
                \cup Permutations(Issue) \cup Permutations(Saver)

-----------------------------------------------------------------------------
(* Approval: TypeOK and its four invariants, and the following.              *)

(* Links: what a lone, complete reconciliation leaves is the content's embeds  *)
(* and the links made by hand (pagelink/store.go SyncLinks).                  *)
LinksFollowContent == L!LinksFollowContent

(* Cost: a sweep never lowers a total because some issue could not be read     *)
(* (trackintegration/syncer.go).                                             *)
NoWriteDown == L!NoWriteDown

(* Search: a walk answers each readable match once (search/handler.go).       *)
WalkShowsEachOnce == focus = "search" => S!WalkShowsEachOnce

=============================================================================
