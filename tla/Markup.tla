------------------------------- MODULE Markup -------------------------------
(***************************************************************************)
(* What becomes of a page's text when it crosses a format: Markdown and     *)
(* Confluence HTML into the editor's document, and the document out to       *)
(* Markdown, HTML, PDF and DOCX (mcp/markdown.go, importer/importer.go,      *)
(* export/exporter.go). A node is its type and its children, a text is one   *)
(* of a few words, each in ASCII or wholly outside it; marks, levels,          *)
(* indentation and escapes are left out.                                      *)
(***************************************************************************)
EXTENDS Naturals, SequencesExt

CONSTANTS
    Word,  \* the texts there are
    Ascii  \* those of them a PDF has letters for

VARIABLES
    source, \* what was converted, and by what
    made    \* what came of it

muVars == <<source, made>>

Nothing == <<>>
Text(w) == [t |-> "text", w |-> w, c |-> Nothing]
Node(t, c) == [t |-> t, w |-> "", c |-> c]
Each(Op(_), c) == FlattenSeq([i \in DOMAIN c |-> Op(c[i])])

\* readText, textContent: every text under a node. Raw HTML is not text.
RECURSIVE Words(_)
Words(n) == IF n.t = "text" THEN <<n.w>> ELSE Each(Words, n.c)
AllWords(c) == Each(Words, c)

\* collect, collectInline: the texts under a node, whatever they are wrapped in.
Collect(n) == [i \in DOMAIN Words(n) |-> Text(Words(n)[i])]

Lists == {"bullet_list", "ordered_list"}
Lines == {"heading", "paragraph", "code_block"}

-----------------------------------------------------------------------------
(* Out of the editor's document. A type that is not named writes nothing.     *)

\* renderInline, plainTextOf: the texts right in a node, and nothing below.
Inline(c) == Each(LAMBDA n : IF n.t = "text" THEN <<n.w>> ELSE Nothing, c)
Tight(n) == [i \in DOMAIN Inline(n.c) |-> Text(Inline(n.c)[i])]

RECURSIVE ToMarkdown(_), ToHTML(_), ToPDF(_), ToDocx(_), Headings(_)

ToMarkdown(n) ==
    CASE n.t \in Lines -> Inline(n.c)
      [] n.t \in {"doc", "blockquote", "list_item"} \cup Lists -> Each(ToMarkdown, n.c)
      [] OTHER -> Nothing

\* An item of one paragraph is written without it.
ItemHTML(n) == IF Len(n.c) = 1 /\ n.c[1].t = "paragraph" THEN Tight(n.c[1]) ELSE Each(ToHTML, n.c)

ToHTML(n) ==
    CASE n.t \in Lines -> <<Node(n.t, Tight(n))>>
      [] n.t \in {"doc", "blockquote"} \cup Lists -> <<Node(n.t, Each(ToHTML, n.c))>>
      [] n.t = "list_item" -> <<Node("list_item", ItemHTML(n))>>
      [] n.t = "horizontal_rule" -> <<n>>
      [] OTHER -> Nothing

\* The first block of an item only, and only the texts right in it.
FirstBlock(n) == IF n.c = Nothing THEN Nothing ELSE Inline(n.c[1].c)

\* What is not ASCII is dropped, and nothing put in its place.
ensureASCII(texts) == SelectSeq(texts, LAMBDA w : w \in Ascii)

ToPDF(n) ==
    CASE n.t \in Lines -> ensureASCII(Inline(n.c))
      [] n.t \in {"doc", "blockquote"} \cup Lists -> Each(ToPDF, n.c)
      [] n.t = "list_item" -> ensureASCII(FirstBlock(n))
      [] OTHER -> Nothing

\* quoteChildren: a paragraph of a quotation is written in its style.
ToDocx(n) ==
    CASE n.t \in Lines -> Inline(n.c)
      [] n.t \in {"doc", "blockquote"} \cup Lists -> Each(ToDocx, n.c)
      [] n.t = "list_item" -> FirstBlock(n)
      [] OTHER -> Nothing

\* walkHeadings, the table of contents: wherever a heading stands.
Headings(n) == IF n.t = "heading" THEN Inline(n.c) ELSE Each(Headings, n.c)

-----------------------------------------------------------------------------
(* Into it, from goldmark's tree.                                           *)

OrEmpty(body) == IF body = Nothing THEN <<Node("paragraph", Nothing)>> ELSE body

RECURSIVE ConvertBlock(_)

\* A block of no kind the editor has becomes a paragraph of its text: raw HTML
\* has none.
ConvertBlock(n) ==
    CASE n.t \in {"heading", "code_block"} -> <<Node(n.t, Collect(n))>>
      [] n.t = "horizontal_rule" -> <<n>>
      [] n.t \in {"doc", "blockquote"} \cup Lists -> <<Node(n.t, Each(ConvertBlock, n.c))>>
      [] n.t = "list_item" -> <<Node("list_item", OrEmpty(Each(ConvertBlock, n.c)))>>
      [] OTHER -> IF Words(n) = Nothing THEN Nothing ELSE <<Node("paragraph", Collect(n))>>

-----------------------------------------------------------------------------
(* Into it, from HTML.                                                       *)

RECURSIVE Walk(_), htmlListItems(_)

\* collectInline: the texts under an element, as collect has them.
inlineText(n) == Collect(n)

\* Mutant: an item is the texts right in it.
ShallowItem(n) == <<Node("paragraph", Tight(n))>>

\* The texts of the whole item, and its lists again below it.
ItemBody(n) ==
    (IF Words(n) = Nothing THEN Nothing ELSE <<Node("paragraph", inlineText(n))>>)
        \o Each(LAMBDA m : IF m.t \in Lists THEN <<Node(m.t, htmlListItems(m))>> ELSE Nothing, n.c)

\* What is in a list and in no item of it is left out.
htmlListItems(n) ==
    Each(LAMBDA m : IF m.t = "list_item" THEN <<Node("list_item", OrEmpty(ItemBody(m)))>>
                    ELSE Nothing, n.c)

\* A text that no block is around is left out. (A quotation: see Imports.)
Walk(n) ==
    CASE n.t \in Lines -> IF Words(n) = Nothing THEN Nothing ELSE <<Node(n.t, inlineText(n))>>
      [] n.t \in Lists -> IF htmlListItems(n) = Nothing THEN Nothing
                          ELSE <<Node(n.t, htmlListItems(n))>>
      [] n.t = "horizontal_rule" -> <<n>>
      [] n.t = "skipped" -> Nothing
      [] OTHER -> Each(Walk, n.c)

-----------------------------------------------------------------------------
(* The documents that are converted.                                         *)

Line == [t : Lines, w : {""}, c : {<<Text(w)>> : w \in Word}]
Rule == Node("horizontal_rule", Nothing)
Nested == {Node("ordered_list", <<Node("list_item", <<l>>)>>) : l \in Line}
Item == {Node("list_item", b) : b \in SeqOf(Line \cup Nested, 2)}
List == {Node("bullet_list", <<i>>) : i \in Item} \cup Nested
Quote == {Node("blockquote", <<b>>) : b \in Line \cup Nested}
Callout == {Node("callout", <<l>>) : l \in Line}
RawHTML == {Node("html", Nothing)}
Wrapper == {Node("div", <<b>>) : b \in Line \cup Nested \cup {Text(w) : w \in Word}}
Skipped == {Node("skipped", <<Text(w)>>) : w \in Word}
Bare == {Node("bullet_list", <<Node("list_item", <<Text(w)>> \o l)>>) :
             w \in Word, l \in {<<n>> : n \in Nested} \cup {Nothing}}

Doc(blocks) == {Node("doc", <<b>> \o r) : b \in blocks, r \in SeqOf(Line \cup {Rule}, 1)}

MarkupInit == source = [from |-> "none", tree |-> Node("doc", Nothing)] /\ made = Nothing

Begin(from, tree) == source' = [from |-> from, tree |-> tree]

Export(tree) ==
    /\ Begin("editor", tree)
    /\ made' = [markdown |-> ToMarkdown(tree), html |-> ToHTML(tree), pdf |-> ToPDF(tree),
                docx |-> ToDocx(tree), contents |-> Headings(tree)]

MarkdownToProseMirror(tree) == Begin("markdown", tree) /\ made' = ConvertBlock(tree)

htmlToProseMirror(tree) == Begin("html", tree) /\ made' = Walk(tree)

\* A behaviour converts one document.
MarkupNext ==
    /\ source.from = "none"
    /\ \/ \E tree \in Doc(Line \cup List \cup Quote \cup Callout) : Export(tree)
       \/ \E tree \in Doc(Line \cup List \cup Quote \cup RawHTML) : MarkdownToProseMirror(tree)
       \/ \E tree \in Doc(Line \cup List \cup Wrapper \cup Skipped \cup Bare) :
             htmlToProseMirror(tree)

-----------------------------------------------------------------------------
Without(types, n) == [n EXCEPT !.c = SelectSeq(@, LAMBDA m : m.t \notin types)]
Blocks(types) == SelectSeq(source.tree.c, LAMBDA m : m.t \in types)

(* HTML and Markdown show every text outside a callout once and in order, DOCX  *)
(* too where there is no list or quotation; PDF what DOCX shows, and of it the     *)
(* ASCII texts only; the table of contents lists headings the page shows           *)
(* (exporter.go).                                                                *)
ExportShowsText ==
    LET page == Words(Without({"callout"}, source.tree))
    IN /\ made.markdown = page /\ AllWords(made.html) = page
       /\ Blocks(Lists \cup {"blockquote"}) = Nothing => made.docx = page
       /\ made.pdf = SelectSeq(made.docx, LAMBDA w : w \in Ascii)
       /\ Blocks({"callout"}) = Nothing => ToSet(made.contents) \subseteq ToSet(page)

(* What was exported as HTML and is imported again has every text it showed,    *)
(* and what no list was in an item of another, once and in order.               *)
ReimportKeepsText ==
    LET back == AllWords(Each(Walk, made.html))
    IN Blocks({"blockquote"}) = Nothing =>
          /\ ToSet(back) = ToSet(AllWords(made.html))
          /\ \A i \in DOMAIN source.tree.c :
                LET b == source.tree.c[i]
                IN (\A k \in DOMAIN b.c : \A j \in DOMAIN b.c[k].c : b.c[k].c[j].t \notin Lists)
                      => AllWords(Each(Walk, ToHTML(b))) = AllWords(ToHTML(b))

(* A text is in a block of the page if it is in a block of the HTML.            *)
HTMLKeepsBlocks ==
    \A i \in DOMAIN source.tree.c :
        LET b == source.tree.c[i]
        IN b.t \in Lines \cup Lists => ToSet(Words(b)) \subseteq ToSet(AllWords(made))

(* Of a text outside ASCII a PDF has a placeholder (exporter.go ensureASCII "we   *)
(* transliterate the most common cases (emojis become a placeholder").            *)
PDFHasPlaceholders == source.from = "editor" => Len(made.pdf) = Len(made.docx)

(* No conversion loses a text it has a place for, in any direction, but a PDF    *)
(* what is not ASCII (export/exporter.go, mcp/markdown.go, importer/importer.go). *)
ConversionsKeepText ==
    CASE source.from = "editor" -> ExportShowsText /\ ReimportKeepsText
      [] source.from = "markdown" -> AllWords(made) = Words(source.tree)
      [] source.from = "html" -> HTMLKeepsBlocks
      [] OTHER -> TRUE
=============================================================================
