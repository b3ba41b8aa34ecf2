------------------------------- MODULE Exports --------------------------------
(***************************************************************************)
(* One export of a page with its children, listed batch by batch while other *)
(* requests create, delete, move and reorder them and change who may read    *)
(* them (internal/export/exporter.go gatherPages, listChildren, handler.go). *)
(***************************************************************************)
EXTENDS Orders, SequencesExt

CONSTANTS Child,        \* pages that are, or may come to be, under the root
          childBatch,
          MaxPosition,
          MaxPages,     \* how many pages fit in MaxExportBytes
          MaxUpsets     \* bound: changes while the export runs

ExportsSizes ==
    /\ IsFiniteSet(Child)
    /\ childBatch \in Nat \ {0} /\ {MaxPosition, MaxPages, MaxUpsets} \subseteq Nat

VARIABLES
    under,    \* the root's children, in the order they were created
    position, \* pages.position
    readable, \* those the caller may read
    exp,      \* the export: where it is, and what it has
    constant, \* history: the children under the root, and readable, all along
    denied,   \* history: those the caller could not read all along
    shifted,  \* history: one left or changed its place while they were listed
    upsets

exVars == <<under, position, readable, exp, constant, denied, shifted, upsets>>

Unasked == [pc |-> "idle", offset |-> 0, listed |-> <<>>, at |-> 1, out |-> <<>>]

ExportsTypeOK ==
    /\ under \in SeqOf(Child, Cardinality(Child)) /\ IsInjective(under)
    /\ position \in [Child -> 0..MaxPosition]
    /\ readable \subseteq Child
    /\ exp.pc \in {"idle", "list", "gate", "sent", "failed"}
    /\ constant \subseteq ToSet(under) /\ denied \cap readable = {}
    /\ upsets \in 0..MaxUpsets

ExportsInit ==
    /\ under = <<>> /\ position = [c \in Child |-> 0] /\ readable = Child
    /\ exp = Unasked
    /\ constant = {} /\ denied = {} /\ shifted = FALSE /\ upsets = 0

Running == exp.pc \in {"list", "gate"}

-----------------------------------------------------------------------------
(* The other requests.                                                      *)

Upset == exp.pc \notin {"sent", "failed"} /\ upsets < MaxUpsets /\ upsets' = upsets + 1

Created(c, pos) ==
    /\ Upset /\ c \notin ToSet(under)
    /\ under' = Append(under, c) /\ position' = [position EXCEPT ![c] = pos]
    /\ UNCHANGED <<readable, exp, constant, denied, shifted>>

Index(c) == CHOOSE i \in DOMAIN under : under[i] = c

\* Deleted, or moved to another parent.
Leaves(c) ==
    /\ Upset /\ c \in ToSet(under)
    /\ under' = RemoveAt(under, Index(c))
    /\ constant' = constant \ {c}
    /\ shifted' = (shifted \/ exp.pc = "list")
    /\ UNCHANGED <<position, readable, exp, denied>>

Reordered(c, pos) ==
    /\ Upset /\ c \in ToSet(under) /\ position[c] # pos
    /\ position' = [position EXCEPT ![c] = pos]
    /\ shifted' = (shifted \/ exp.pc = "list")
    /\ UNCHANGED <<under, readable, exp, constant, denied>>

Regranted(c) ==
    /\ Upset
    /\ readable' = IF c \in readable THEN readable \ {c} ELSE readable \cup {c}
    /\ constant' = constant \ {c} /\ denied' = denied \ {c}
    /\ UNCHANGED <<under, position, exp, shifted>>

-----------------------------------------------------------------------------
(* The export.                                                              *)

\* The root is read, and its children are asked for.
GatherPages ==
    /\ exp.pc = "idle"
    /\ exp' = [exp EXCEPT !.pc = "list"]
    /\ constant' = ToSet(under) \cap readable /\ denied' = Child \ readable
    /\ UNCHANGED <<under, position, readable, shifted, upsets>>

\* page.Store.List: ORDER BY position, created_at.
ListedBefore(c, d) == position[c] < position[d] \/ (position[c] = position[d] /\ Index(c) < Index(d))
ByPosition == {p \in ToSet(under) \X ToSet(under) : ListedBefore(p[1], p[2])}
List(offset) ==
    LET all == Ordered(ToSet(under), ByPosition)
    IN SubSeq(all, offset + 1, IF offset + childBatch < Len(all) THEN offset + childBatch ELSE Len(all))

Read(batch) == [i \in DOMAIN batch |-> [id |-> batch[i], pos |-> position[batch[i]]]]

\* Mutant: a page that moved into the next batch is listed again.
Undeduped(batch) == batch

Seen == {exp.listed[i].id : i \in DOMAIN exp.listed}

Unseen(batch) == Ordered(ToSet(batch) \ Seen, ByPosition)

ListChildren ==
    /\ exp.pc = "list"
    /\ LET batch == List(exp.offset)
       IN exp' = [exp EXCEPT !.listed = @ \o Read(Unseen(batch)),
                             !.offset = @ + childBatch,
                             !.pc = IF Len(batch) < childBatch THEN "gate" ELSE "list"]
    /\ UNCHANGED <<under, position, readable, constant, denied, shifted, upsets>>

\* AuthorizePageRead, child by child.
AuthorizeNext ==
    /\ exp.pc = "gate" /\ exp.at <= Len(exp.listed)
    /\ LET p == exp.listed[exp.at]
       IN exp' = [exp EXCEPT !.at = @ + 1,
                             !.out = IF p.id \in readable THEN Append(@, p) ELSE @]
    /\ UNCHANGED <<under, position, readable, constant, denied, shifted, upsets>>

\* sort.SliceStable by the position that was read.
Stably(s) == {p \in (DOMAIN s) \X (DOMAIN s) :
                 s[p[1]].pos < s[p[2]].pos \/ (s[p[1]].pos = s[p[2]].pos /\ p[1] < p[2])}
Sorted(s) == LET order == Ordered(DOMAIN s, Stably(s)) IN [i \in DOMAIN s |-> s[order[i]]]

\* The root and its children are written; past the cap the answer is a 413.
Render ==
    /\ exp.pc = "gate" /\ exp.at > Len(exp.listed)
    /\ exp' = IF Len(exp.out) + 1 > MaxPages THEN [exp EXCEPT !.pc = "failed"]
              ELSE [exp EXCEPT !.pc = "sent", !.out = Sorted(@)]
    /\ UNCHANGED <<under, position, readable, constant, denied, shifted, upsets>>

\* A query fails; nothing is sent but the error.
ExportFails ==
    /\ exp.pc = "list"
    /\ exp' = [exp EXCEPT !.pc = "failed"]
    /\ UNCHANGED <<under, position, readable, constant, denied, shifted, upsets>>

ExportsNext ==
    \/ \E c \in Child : \/ Leaves(c) \/ Regranted(c)
                        \/ \E pos \in 0..MaxPosition : Created(c, pos) \/ Reordered(c, pos)
    \/ GatherPages \/ ListChildren \/ AuthorizeNext \/ Render \/ ExportFails

-----------------------------------------------------------------------------
(* What is sent has no page twice and none the caller could not read all        *)
(* along, in the order of the positions read; and every child that was there,   *)
(* and readable, all along, whatever pages come meanwhile, unless one left or    *)
(* changed its place between two batches (exporter.go listChildren "EVERY        *)
(* direct child of root").                                                     *)
ExportHasEveryChild ==
    exp.pc = "sent" =>
        LET sent == {exp.out[i].id : i \in DOMAIN exp.out}
        IN /\ Cardinality(sent) = Len(exp.out)
           /\ sent \cap denied = {}
           /\ \A i, j \in DOMAIN exp.out : i < j => exp.out[i].pos <= exp.out[j].pos
           /\ ~shifted => constant \subseteq sent
=============================================================================
