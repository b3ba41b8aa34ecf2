------------------------------ MODULE Imports -------------------------------
(***************************************************************************)
(* One import of a zip into a space, file by file, while others delete pages *)
(* (internal/importer/importer.go, handler.go). A Notion export makes a page  *)
(* of every folder above a file, a Confluence export is flat. A step is one   *)
(* file's reading, one page.Store.Create, or one frame of the HTML walk.      *)
(* Files are taken in any order: a folder is made when it is first needed.    *)
(***************************************************************************)
EXTENDS Naturals, Sequences, FiniteSets, SequencesExt

CONSTANTS File,
          Folders,       \* the paths of folders each in the one before
          FolderOf,      \* how many of them each file is under
          MaxDepth,      \* page.MaxDepth
          StackLimit,    \* frames the runtime gives a goroutine
          MaxFaults, MaxDeletes \* bounds

ImportsSizes ==
    /\ {MaxDepth, StackLimit, MaxFaults, MaxDeletes} \subseteq Nat
    /\ IsFiniteSet(File) /\ "none" \notin File
    /\ Folders \in Seq(ToSet(Folders)) /\ IsInjective(Folders) /\ ToSet(Folders) \cap File = {}
    /\ FolderOf \in [File -> 0..Len(Folders)]

VARIABLES
    zip,      \* what the export is, once it is known, and what each file is
    left,     \* files not begun
    at,       \* the file being imported and how far it is
    known,    \* folderCache.known: the page of each folder, 0 while there is none
    pages,    \* the pages made, in order
    imported, skipped, \* ImportResult
    doubt,    \* history: a Create that took effect was answered with an error
    faults, deletes

imVars == <<zip, left, at, known, pages, imported, skipped, doubt, faults, deletes>>

Folder == DOMAIN Folders
Sort == {"text", "quoted", "asset", "broken"}
Between == [pc |-> "next", file |-> "none", frames |-> 0]

ImportsTypeOK ==
    /\ zip \in [format : {"none", "notion", "confluence"}, sort : [File -> Sort]]
    /\ left \subseteq File
    /\ at.pc \in {"asked", "refused", "next", "walk", "create", "done", "dead"}
    /\ known \in [Folder -> 0..Len(pages)]
    /\ imported \in 0..Cardinality(File) /\ skipped \in 0..Cardinality(File)

ImportsInit ==
    /\ zip \in [format : {"none"}, sort : [File -> Sort]]
    /\ left = File /\ at = [Between EXCEPT !.pc = "asked"]
    /\ known = [d \in Folder |-> 0] /\ pages = <<>>
    /\ imported = 0 /\ skipped = 0
    /\ doubt = FALSE /\ faults = 0 /\ deletes = 0

FromNotion == zip.format = "notion"
Living == {p \in DOMAIN pages : pages[p].there}

-----------------------------------------------------------------------------
(* The request: who may not edit the space, or sends what is no zip, is refused. *)

Upload(format) ==
    /\ at.pc = "asked"
    /\ zip' = [zip EXCEPT !.format = format]
    /\ at' \in {Between, [at EXCEPT !.pc = "refused"]}
    /\ UNCHANGED <<left, known, pages, imported, skipped, doubt, faults, deletes>>

Confluence == Upload("confluence")
Notion == Upload("notion")

-----------------------------------------------------------------------------
(* A file.                                                                  *)

Skip == /\ skipped' = skipped + 1
        /\ at' = Between
        /\ UNCHANGED <<zip, known, pages, imported, doubt, deletes>>

\* A file of another extension is counted, and so is one that cannot be read.
SkipFile(f) ==
    /\ at = Between /\ f \in left /\ zip.sort[f] \in {"asset", "broken"}
    /\ left' = left \ {f}
    /\ Skip /\ UNCHANGED faults

TakeFile(f) ==
    /\ at = Between /\ f \in left /\ zip.sort[f] \in {"text", "quoted"}
    /\ left' = left \ {f}
    /\ at' = [pc |-> IF FromNotion THEN "create" ELSE "walk", file |-> f, frames |-> 0]
    /\ UNCHANGED <<zip, known, pages, imported, skipped, doubt, faults, deletes>>

\* htmlWalker.walk: a blockquote has a walker of its own walk that blockquote.
Walk ==
    /\ at.pc = "walk"
    /\ \/ zip.sort[at.file] = "text" /\ at' = [at EXCEPT !.pc = "create"]
       \/ /\ zip.sort[at.file] = "quoted" /\ at.frames < StackLimit
          /\ at' = [at EXCEPT !.frames = @ + 1]
       \/ /\ zip.sort[at.file] = "quoted" /\ at.frames = StackLimit
          /\ at' = [at EXCEPT !.pc = "dead"]
    /\ UNCHANGED <<zip, left, known, pages, imported, skipped, doubt, faults, deletes>>

-----------------------------------------------------------------------------
(* page.Store.Create, as the importer sees it.                               *)

Depth[p \in 0..Len(pages)] == IF p = 0 THEN 0 ELSE 1 + Depth[pages[p].parent]

Accepts(parent) == parent = 0 \/ (parent \in Living /\ Depth[parent] <= MaxDepth)

NewPage(of, parent) == [of |-> of, parent |-> parent, there |-> TRUE]

Fault == faults < MaxFaults /\ faults' = faults + 1

\* The folders above a file that have no page yet; the outermost is made first.
Missing(f) == {d \in Folder : FromNotion /\ d <= FolderOf[f] /\ known[d] = 0}

\* Mutant: a folder's page is not remembered.
KnownBefore(d) == known

Known(d) == [known EXCEPT ![d] = Len(pages) + 1]

Above(d) == IF d = 1 THEN 0 ELSE known[d - 1]

\* folderCache.ensure: one folder.
EnsureFolder ==
    /\ at.pc = "create" /\ Missing(at.file) # {}
    /\ LET d == Min(Missing(at.file))
       IN \/ /\ Accepts(Above(d))
             /\ pages' = Append(pages, NewPage(Folders[d], Above(d)))
             /\ known' = Known(d)
             /\ UNCHANGED <<zip, left, at, imported, skipped, doubt, faults, deletes>>
          \/ /\ ~Accepts(Above(d))
             /\ Skip /\ UNCHANGED <<left, faults>>

ParentOf(f) == IF FromNotion /\ FolderOf[f] # 0 THEN known[FolderOf[f]] ELSE 0

CreatePage ==
    /\ at.pc = "create" /\ Missing(at.file) = {}
    /\ \/ /\ Accepts(ParentOf(at.file))
          /\ pages' = Append(pages, NewPage(at.file, ParentOf(at.file)))
          /\ imported' = imported + 1
          /\ at' = Between
          /\ UNCHANGED <<zip, left, known, skipped, doubt, faults, deletes>>
       \/ /\ ~Accepts(ParentOf(at.file))
          /\ Skip /\ UNCHANGED <<left, faults>>

\* A statement fails, before or after it took effect, and the file is skipped.
CreateFails ==
    /\ at.pc = "create" /\ Fault
    /\ skipped' = skipped + 1 /\ at' = Between
    /\ LET d == Min(Missing(at.file))
           page == IF Missing(at.file) = {} THEN NewPage(at.file, ParentOf(at.file))
                                            ELSE NewPage(Folders[d], Above(d))
       IN \/ UNCHANGED <<pages, doubt>>
          \/ Accepts(page.parent) /\ pages' = Append(pages, page) /\ doubt' = TRUE
    /\ UNCHANGED <<zip, left, known, imported, deletes>>

Finish ==
    /\ at = Between /\ left = {}
    /\ at' = [at EXCEPT !.pc = "done"]
    /\ UNCHANGED <<zip, left, known, pages, imported, skipped, doubt, faults, deletes>>

\* Another request deletes a page; its children move up.
DeletePage(p) ==
    /\ deletes < MaxDeletes /\ p \in Living /\ at.pc \notin {"refused", "done", "dead"}
    /\ deletes' = deletes + 1
    /\ pages' = [q \in DOMAIN pages |->
                    IF q = p THEN [pages[p] EXCEPT !.there = FALSE]
                    ELSE IF pages[q].parent = p THEN [pages[q] EXCEPT !.parent = pages[p].parent]
                    ELSE pages[q]]
    /\ UNCHANGED <<zip, left, at, known, imported, skipped, doubt, faults>>

ImportsNext ==
    \/ Confluence \/ Notion
    \/ \E f \in File : SkipFile(f) \/ TakeFile(f)
    \/ Walk \/ EnsureFolder \/ CreatePage \/ CreateFails \/ Finish
    \/ \E p \in DOMAIN pages : DeletePage(p)

-----------------------------------------------------------------------------
PagesOf(x) == {p \in DOMAIN pages : pages[p].of = x}
Read == {f \in File : zip.sort[f] \in {"text", "quoted"}}

(* An import that ends has counted every file once; as many pages are there as *)
(* it says it imported, one for each of so many readable files, and one page    *)
(* at most for each folder above them, with nobody's deletion in between: each   *)
(* file is under its folder's page (importer.go ImportFromNotion, ensure).      *)
ImportAccounts ==
    at.pc = "done" =>
        /\ imported + skipped = Cardinality(File)
        /\ ~doubt => /\ imported = Cardinality({f \in Read : PagesOf(f) # {}})
                     /\ \A x \in Read \cup ToSet(Folders) : Cardinality(PagesOf(x)) <= 1
        /\ ~doubt /\ deletes = 0 /\ FromNotion =>
              \A f \in Read : \A p \in PagesOf(f) :
                  IF FolderOf[f] = 0 THEN pages[p].parent = 0
                  ELSE pages[p].parent \in PagesOf(Folders[FolderOf[f]])

(* importer.go "a single bad asset shouldn't abort a 1000-page import".        *)
NoFileAborts == at.pc # "dead"
=============================================================================
