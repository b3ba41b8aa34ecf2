------------------------------ MODULE PageTree ------------------------------
(***************************************************************************)
(* The tree of pages a space keeps in pages.parent_id, and the depth column *)
(* that caps it: page.Store.Create, the parent_id half of Update, Delete    *)
(* and rebaseSubtreeDepth (internal/page/store.go).  Every statement is a   *)
(* step of its own: none of these operations runs in a transaction.         *)
(*                                                                         *)
(* All pages are of one workspace.  The slug loop of Create repeats the     *)
(* same INSERT until the address is free and is not told apart from it.     *)
(***************************************************************************)
EXTENDS Naturals, FiniteSets, FiniteSetsExt

CONSTANTS Page, NoPage,
          Request,      \* goroutines serving a request
          MaxDepth,     \* page.MaxDepth (5)
          MaxMoves,     \* bound: moves and deletes begun
          MaxFailures   \* bound: requests that end half-way

\* The module that composes this one assumes it.
TreeSizes ==
    /\ IsFiniteSet(Page) /\ NoPage \notin Page
    /\ MaxDepth \in Nat /\ MaxMoves \in Nat /\ MaxFailures \in Nat

VARIABLES
    born,    \* the ids given out so far
    live,    \* pages: the rows there are
    parent,  \* pages.parent_id
    depth,   \* pages.depth
    req,     \* the locals of each request
    drift,   \* history: pages whose link, or an ancestor's, was written after
             \* their depth was
    halved,  \* history: some request ended between its link and its depths
    overlap, \* history: "link" once two requests that write parent_id were in
             \* flight together, "create" once a Create was with any other
    moves, failures

rows == <<born, live, parent, depth>>
vars == <<rows, req, drift, halved, overlap, moves, failures>>

Link == Page \cup {NoPage}

Idle == [pc |-> "idle", page |-> NoPage, parent |-> NoPage, depth |-> 0, moved |-> {}]

TypeOK ==
    /\ born \subseteq Page /\ live \subseteq born
    /\ parent \in [Page -> live \cup {NoPage}]
    /\ depth \in [Page -> Nat]
    /\ req \in [Request -> [pc: {"idle", "insert", "height", "link", "linkDepths",
                                 "reparent", "childDepths", "remove"},
                            page: Link, parent: Link, depth: Nat, moved: SUBSET Page]]
    /\ drift \subseteq live
    /\ halved \in BOOLEAN /\ overlap \subseteq {"link", "create"}
    /\ moves \in 0..MaxMoves /\ failures \in 0..MaxFailures

Init ==
    /\ born = {} /\ live = {}
    /\ parent = [p \in Page |-> NoPage]
    /\ depth = [p \in Page |-> 0]
    /\ req = [r \in Request |-> Idle]
    /\ drift = {}
    /\ halved = FALSE /\ overlap = {}
    /\ moves = 0 /\ failures = 0

-----------------------------------------------------------------------------
(* The recursive queries.  Below(R)[n] is R and what is at most n links      *)
(* under it; no path of a forest is longer than the number of its pages.     *)

Expanded(S) == S \cup {c \in live : parent[c] \in S}

Below(R) ==
    LET below[n \in 0..Cardinality(Page)] ==
            IF n = 0 THEN R \cap live ELSE Expanded(below[n - 1])
    IN  below

Subtree(R) == Below(R)[Cardinality(Page)]

(* min(rel): how far p is under R. *)
Rel(R, p) == Min({n \in 0..Cardinality(Page) : p \in Below(R)[n]})

(* max(rel): on a ring the walk stops when it is back at p. *)
Height(p) == Max({Rel({p}, c) : c \in Subtree({p})}
                 \cup {Rel({p}, c) + 1 : c \in Subtree({p}) \cap {parent[p]}})

(* Where a page really is, as opposed to what its depth column says. *)
TrueDepth(p) == Rel({q \in live : parent[q] = NoPage}, p)

(* rebaseSubtreeDepth: one UPDATE over the roots and everything under them. *)
RebasedRootsOnly(R, base) ==   \* mutant: the pages beneath are forgotten
    [p \in Page |-> IF p \in R THEN base ELSE depth[p]]

Rebased(R, base) ==
    [p \in Page |-> IF p \in Subtree(R) THEN base + Rel(R, p) ELSE depth[p]]

Goto(r, pc) == req' = [req EXCEPT ![r].pc = pc]

Finish(r) == req' = [req EXCEPT ![r] = Idle]

InFlight == {r \in Request : req[r].pc # "idle"}

Begin(r, kind, locals) ==
    /\ req[r].pc = "idle"
    /\ \/ kind = "create" /\ UNCHANGED moves
       \/ kind = "link" /\ moves < MaxMoves /\ moves' = moves + 1
    /\ req' = [req EXCEPT ![r] = locals]
    /\ overlap' = overlap \cup
           {IF kind = "link" /\ req[o].pc # "insert" THEN "link" ELSE "create" : o \in InFlight}
    /\ UNCHANGED <<rows, drift, halved, failures>>

-----------------------------------------------------------------------------
(* Create *)

(* The cap is checked against the parent's depth column. *)
CreateFits(q) == depth[q] + 1 <= MaxDepth

CreateLookup(r, q) ==
    \/ /\ q = NoPage
       /\ Begin(r, "create", [Idle EXCEPT !.pc = "insert"])
    \/ /\ q \in live /\ CreateFits(q)
       /\ Begin(r, "create", [Idle EXCEPT !.pc = "insert", !.parent = q,
                                          !.depth = depth[q] + 1])

(* parent_id REFERENCES pages(id) *)
LinkExists(q) == q = NoPage \/ q \in live

CreateInsert(r) ==
    LET q == req[r].parent
    IN  /\ req[r].pc = "insert"
        /\ \/ \E p \in Page \ born :
                 /\ LinkExists(q)
                 /\ born' = born \cup {p}
                 /\ live' = live \cup {p}
                 /\ parent' = [parent EXCEPT ![p] = q]
                 /\ depth' = [depth EXCEPT ![p] = req[r].depth]
                 /\ drift' = IF q \in drift THEN drift \cup {p} ELSE drift
           \/ /\ ~LinkExists(q)
              /\ UNCHANGED <<rows, drift>>
        /\ Finish(r)
        /\ UNCHANGED <<halved, overlap, moves, failures>>

-----------------------------------------------------------------------------
(* Update with a parent_id *)

WouldCycleSelfOnly(p, q) == p = q   \* mutant: only the self-link is refused

WouldCycle(p, q) == q \in Subtree({p})

MoveCheck(r, p, q) ==
    /\ p \in live /\ q \in live /\ ~WouldCycle(p, q)
    /\ Begin(r, "link", [Idle EXCEPT !.pc = "height", !.page = p, !.parent = q])

(* The move is judged by where its deepest page would land. *)
MoveFits(p, q) == depth[q] + 1 + Height(p) <= MaxDepth

MoveHeight(r) ==
    LET p == req[r].page
        q == req[r].parent
    IN  /\ req[r].pc = "height"
        /\ \/ /\ p \in live /\ q \in live /\ MoveFits(p, q)
              /\ req' = [req EXCEPT ![r].pc = "link", ![r].depth = depth[q] + 1]
           \/ /\ ~(p \in live /\ q \in live /\ MoveFits(p, q))
              /\ Finish(r)
        /\ UNCHANGED <<rows, drift, halved, overlap, moves, failures>>

(* parent_id: null is neither looked up nor refused. *)
Unparent(r, p) ==
    /\ p \in live
    /\ Begin(r, "link", [Idle EXCEPT !.pc = "link", !.page = p])

MoveWrite(r) ==
    LET p == req[r].page
        q == req[r].parent
    IN  /\ req[r].pc = "link"
        /\ \/ /\ p \in live /\ LinkExists(q)
              /\ parent' = [parent EXCEPT ![p] = q]
              /\ drift' = drift \cup Subtree({p})
              /\ Goto(r, "linkDepths")
           \/ /\ ~(p \in live /\ LinkExists(q))
              /\ Finish(r)
              /\ UNCHANGED <<parent, drift>>
        /\ UNCHANGED <<born, live, depth, halved, overlap, moves, failures>>

MoveRebase(r) ==
    LET p == req[r].page
    IN  /\ req[r].pc = "linkDepths"
        /\ depth' = Rebased({p}, req[r].depth)
        /\ drift' = IF req[r].parent \in drift THEN drift ELSE drift \ Subtree({p})
        /\ Finish(r)
        /\ UNCHANGED <<born, live, parent, halved, overlap, moves, failures>>

-----------------------------------------------------------------------------
(* Delete *)

DeleteLookup(r, p) ==
    /\ p \in live
    /\ Begin(r, "link", [Idle EXCEPT !.pc = "reparent", !.page = p,
                                     !.parent = parent[p], !.depth = depth[p]])

Children(p) == {c \in live : parent[c] = p}

DeleteReparent(r) ==
    LET p == req[r].page
        q == req[r].parent
        moved == Children(p)
    IN  /\ req[r].pc = "reparent"
        /\ \/ /\ moved = {} \/ LinkExists(q)
              /\ parent' = [c \in Page |-> IF c \in moved THEN q ELSE parent[c]]
              /\ drift' = drift \cup Subtree(moved)
              /\ req' = [req EXCEPT ![r].pc = "childDepths", ![r].moved = moved]
           \/ /\ moved # {} /\ ~LinkExists(q)
              /\ Finish(r)
              /\ UNCHANGED <<parent, drift>>
        /\ UNCHANGED <<born, live, depth, halved, overlap, moves, failures>>

DeleteRebase(r) ==
    LET moved == req[r].moved
    IN  /\ req[r].pc = "childDepths"
        /\ depth' = Rebased(moved, req[r].depth)
        /\ drift' = IF req[r].page \in drift THEN drift ELSE drift \ Subtree(moved)
        /\ Goto(r, "remove")
        /\ UNCHANGED <<born, live, parent, halved, overlap, moves, failures>>

(* parent_id ... ON DELETE SET NULL, for a child that came in the meantime. *)
RemainingLinks(p) ==
    [c \in Page |-> IF c \in Children(p) \cup {p} THEN NoPage ELSE parent[c]]

DeleteRow(r) ==
    LET p == req[r].page
    IN  /\ req[r].pc = "remove"
        /\ live' = live \ {p}
        /\ parent' = RemainingLinks(p)
        /\ depth' = [depth EXCEPT ![p] = 0]
        /\ drift' = (drift \cup Subtree(Children(p))) \ {p}
        /\ Finish(r)
        /\ UNCHANGED <<born, halved, overlap, moves, failures>>

-----------------------------------------------------------------------------
(* A statement fails or the process dies: the request ends where it is. *)
RequestEnds(r) ==
    /\ req[r].pc # "idle"
    /\ failures < MaxFailures
    /\ failures' = failures + 1
    /\ halved' = (halved \/ req[r].pc \in {"linkDepths", "childDepths"})
    /\ Finish(r)
    /\ UNCHANGED <<rows, drift, overlap, moves>>

Next ==
    \E r \in Request :
       \/ \E q \in Link : CreateLookup(r, q)
       \/ CreateInsert(r)
       \/ \E p, q \in Page : MoveCheck(r, p, q)
       \/ \E p \in Page : Unparent(r, p)
       \/ MoveHeight(r) \/ MoveWrite(r) \/ MoveRebase(r)
       \/ \E p \in Page : DeleteLookup(r, p)
       \/ DeleteReparent(r) \/ DeleteRebase(r) \/ DeleteRow(r)
       \/ RequestEnds(r)

Spec == Init /\ [][Next]_vars

-----------------------------------------------------------------------------
(* No page is its own ancestor, whatever is moved, deleted and created and   *)
(* wherever a request ends, as long as no two moves or deletes overlap       *)
(* (store.go Update, ErrParentCycle).                                        *)
Rooted == live = Subtree({p \in live : parent[p] = NoPage})

TreeIsAForest == "link" \notin overlap => Rooted

(* As long as no requests overlap, the depth column says where a page is,    *)
(* except under a link whose re-base has not run: the move or the delete     *)
(* that completes repairs what an earlier one left behind (store.go          *)
(* rebaseSubtreeDepth).                                                      *)
DepthIsTrue == overlap = {} => \A p \in live \ drift : depth[p] = TrueDepth(p)

(* As long as no requests overlap, no page is ever deeper than MaxDepth, not *)
(* even between two statements of a move, unless some request ended between  *)
(* its link and its depths (store.go MaxDepth).                              *)
CapHolds == overlap = {} /\ ~halved => \A p \in live : TrueDepth(p) <= MaxDepth

(* Both: the column Create and Update judge by is the truth, and the cap they *)
(* judge holds (store.go Create, Update, rebaseSubtreeDepth).                 *)
DepthsAreTrue == DepthIsTrue /\ CapHolds

-----------------------------------------------------------------------------
(* What comments of the code say and the code does not do.                 *)

(* store.go Update: rings written before the guard are still on disk, and    *)
(* "the guard is what stops new ones".                                       *)
NoNewRing == Rooted
=============================================================================
