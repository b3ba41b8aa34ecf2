----------------------------- MODULE MCDocuments ------------------------------
(***************************************************************************)
(* Documents for TLC, with the conversions of a document between its formats *)
(* as one more part: they are recursive operators, and keep no state that     *)
(* another part reads.                                                       *)
(***************************************************************************)
EXTENDS Documents, TLC

CONSTANTS Word, Ascii
ASSUME WordsAssumption == Ascii \subseteq Word

VARIABLES source, made
Markup == INSTANCE Markup

muVars == <<source, made>>

MCInit == DocumentsStart(Part \cup {"markup"}) /\ Markup!MarkupInit

MCNext ==
    \/ DocumentsNext /\ UNCHANGED muVars
    \/ focus = "markup" /\ Markup!MarkupNext /\ UNCHANGED docVars

MCSpec == MCInit /\ [][MCNext]_<<docVars, muVars>>

\* Page ids are interchangeable, and so are requests; issues, users and the
\* templates saved from pages are given the requests' names.
Symmetry == Permutations(Page) \cup Permutations(Request)

-----------------------------------------------------------------------------
(* Conversions: what a format has a place for is in it (export/exporter.go,    *)
(* importer/importer.go, mcp/markdown.go).                                    *)
ConversionsKeepText == Markup!ConversionsKeepText
=============================================================================
