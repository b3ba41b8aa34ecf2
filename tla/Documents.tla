------------------------------ MODULE Documents -------------------------------
(***************************************************************************)
(* What a space holds beside a page's own saves: the tree its pages hang in,  *)
(* their tables, the changelog, the pages an import or a template makes, and  *)
(* the way out through an export. These share the pages table but no column of *)
(* it that two of them write: a behaviour is of one of them.                  *)
(***************************************************************************)
EXTENDS PageTree

CONSTANTS Column, Editor, Written, Filter, SortColumn, MaxColumns, MaxRows, MaxOps,
          Issue, MaxAsked, Caller, MaxEntries, MaxChanges, MaxMisses,
          File, Folders, FolderOf, StackLimit, MaxFaults, MaxDeletes,
          Custom, Builtin, User, MaxUses, MaxMishaps,
          Child, childBatch, MaxPosition, MaxPages, MaxUpsets

VARIABLES
    focus,                                            \* whose behaviour this is
    schema, tableRows, view, edits, asked, shown, wanted, torn, tbOps,
    label, configured, cache, fetches, gen, entries, clock, changes, misses,
    zip, left, at, known, pages, imported, skipped, doubt, faults, deletes,
    saved, spent, useCount, using, minted, uncounted, uses, mishaps,
    under, position, readable, exp, constant, denied, shifted, upsets

Tables == INSTANCE Tables WITH rows <- tableRows
Changelog == INSTANCE Changelog
Imports == INSTANCE Imports
Templates == INSTANCE Templates
Exports == INSTANCE Exports

ASSUME DocumentsAssumption ==
    /\ TreeSizes /\ Tables!TablesSizes /\ Changelog!ChangelogSizes
    /\ Imports!ImportsSizes /\ Templates!TemplatesSizes /\ Exports!ExportsSizes

tbVars == <<schema, tableRows, view, edits, asked, shown, wanted, torn, tbOps>>
clVars == <<label, configured, cache, fetches, gen, entries, clock, changes, misses>>
imVars == <<zip, left, at, known, pages, imported, skipped, doubt, faults, deletes>>
tlVars == <<saved, spent, useCount, using, minted, uncounted, uses, mishaps>>
exVars == <<under, position, readable, exp, constant, denied, shifted, upsets>>
docVars == <<focus, vars, tbVars, clVars, imVars, tlVars, exVars>>

\* The parts that are not looked at start, and stay, in one state.
DocumentsStart(parts) ==
    /\ focus \in parts
    /\ Init /\ Tables!TablesInit /\ Changelog!ChangelogInit /\ Imports!ImportsInit
    /\ Templates!TemplatesInit /\ Exports!ExportsInit
    /\ focus # "changelog" => configured /\ label = [i \in Issue |-> "improvement"]
    /\ focus # "import" => zip = [format |-> "none", sort |-> [f \in File |-> "text"]]

Part == {"tree", "tables", "changelog", "import", "templates", "export"}
DocumentsInit == DocumentsStart(Part)

DocumentsNext ==
    /\ UNCHANGED focus
    /\ \/ /\ focus = "tree" /\ Next
          /\ UNCHANGED <<tbVars, clVars, imVars, tlVars, exVars>>
       \/ /\ focus = "tables" /\ Tables!TablesNext
          /\ UNCHANGED <<vars, clVars, imVars, tlVars, exVars>>
       \/ /\ focus = "changelog" /\ Changelog!ChangelogNext
          /\ UNCHANGED <<vars, tbVars, imVars, tlVars, exVars>>
       \/ /\ focus = "import" /\ Imports!ImportsNext
          /\ UNCHANGED <<vars, tbVars, clVars, tlVars, exVars>>
       \/ /\ focus = "templates" /\ Templates!TemplatesNext
          /\ UNCHANGED <<vars, tbVars, clVars, imVars, exVars>>
       \/ /\ focus = "export" /\ Exports!ExportsNext
          /\ UNCHANGED <<vars, tbVars, clVars, imVars, tlVars>>

DocumentsSpec == DocumentsInit /\ [][DocumentsNext]_docVars

WrittenValues == {[a |-> "none", b |-> "ten"], [a |-> "ten", b |-> "none"],
                  [a |-> "nine", b |-> "word"]}
SentFilters == {[col |-> "b", op |-> "neq", value |-> "ten"],
                [col |-> "a", op |-> "gt", value |-> "nine"]}
TwoFolders == <<"outer", "inner">>
FoldersAbove == [f1 |-> 2, f2 |-> 2, f3 |-> 1]

-----------------------------------------------------------------------------
(* Tree: TreeIsAForest and DepthsAreTrue, and the following.                  *)

(* Tables: no cell is lost and a listing is in order (database/store.go        *)
(* UpdateRow, ListRows).                                                      *)
TablesKept == Tables!TablesKept

(* Changelog: an entry's badge is its body's (changelog/store.go               *)
(* GenerateFromIssues).                                                       *)
BadgeMatchesBody == Changelog!BadgeMatchesBody

(* Import and templates: what was made is what was counted                    *)
(* (importer/importer.go ImportFromNotion, templatelib/store.go UseTemplate).  *)
MintsAreCounted == Imports!ImportAccounts /\ Templates!UsesAreCounted

(* importer.go "a single bad asset shouldn't abort a 1000-page import".        *)
NoFileAborts == Imports!NoFileAborts

(* Export: every child, once and in order (export/exporter.go listChildren).   *)
ExportHasEveryChild == Exports!ExportHasEveryChild
=============================================================================
