------------------------------ MODULE Extract ------------------------------
(***************************************************************************)
(* From a fetched page to its description: which reader its kind selects,  *)
(* and the title, outline, links and terms that reader finds.              *)
(*                                                                         *)
(* The DOM of an HTML page is the scraper crate's: here a sequence of      *)
(* elements [name, text] in document order, where the text of an element   *)
(* is that of everything inside it.  Language, snippet, keywords and the   *)
(* text handed to the embedder are left out.                               *)
(***************************************************************************)
EXTENDS LinkScan

CONSTANTS
  Extension(_),   \* of a path segment: what follows its last dot, or all of it
  Tag(_),         \* of a path segment: <<tag>>, or <<>> when it gives none
  MaxHeadings,    \* MAX_HEADINGS
  MaxTags,        \* how many tags a document keeps (4)
  MaxTerms        \* MAX_BM25_TERMS

ASSUME ExtractAssumption == {MaxHeadings, MaxTags, MaxTerms} \subseteq Nat

Take(seq, n) == SubSeq(seq, 1, IF n < Len(seq) THEN n ELSE Len(seq))

-----------------------------------------------------------------------------
(***************************************************************************)
(* The kind of a page.                                                     *)
(***************************************************************************)

\* ResourceKind::from_content_type; "" is no header.
FromContentType(header) ==
  CASE header = "text/html"        -> "html"
    [] header = "text/markdown"    -> "markdown"
    [] header = "application/json" -> "json"
    [] header = "application/pdf"  -> "pdf"
    [] header = "text/plain"       -> "text"
    [] header = "text/x-rust"      -> "code"
    [] OTHER                       -> "unknown"

\* ResourceKind::from_path: by the extension of the last segment.
FromPath(path) ==
  LET ext == IF path = <<>> THEN "" ELSE Extension(Last(path))
  IN CASE ext \in {"html", "htm"} -> "html"
       [] ext \in {"md", "mdx"}   -> "markdown"
       [] ext = "json"            -> "json"
       [] ext = "pdf"             -> "pdf"
       [] ext = "txt"             -> "text"
       [] ext \in {"rs", "py"}    -> "code"
       [] OTHER                   -> "unknown"

\* refine_with_path: a header that says nothing specific yields to the path.
Refined(kind, path) ==
  IF kind \in {"text", "unknown"} /\ FromPath(path) # "unknown" THEN FromPath(path) ELSE kind

-----------------------------------------------------------------------------
(***************************************************************************)
(* The readers.                                                            *)
(***************************************************************************)

\* select_one_text: the first such element, when it has any text.
FirstText(dom, name) ==
  LET hits == SelectSeq(dom, LAMBDA e : e.name = name)
  IN IF hits = <<>> THEN <<>> ELSE Trim(hits[1].text)

HtmlTitle(dom) == IF FirstText(dom, "title") # <<>> THEN FirstText(dom, "title")
                  ELSE FirstText(dom, "h1")

Level(name) == CASE name = "h1" -> 1 [] name = "h2" -> 2 [] OTHER -> 3

HtmlHeadings(dom) ==
  LET found == Take(SelectSeq(dom, LAMBDA e : e.name \in {"h1", "h2", "h3"} /\ Trim(e.text) # <<>>),
                    MaxHeadings)
  IN [i \in DOMAIN found |-> [text |-> Trim(found[i].text), level |-> Level(found[i].name)]]

\* The elements whose text counts.  One inside another counts twice.
Content == {"p", "h1", "h2", "h3", "li", "a"}

HtmlBody(dom) ==
  LET shown == SelectSeq(dom, LAMBDA e : e.name \in Content)
  IN FlattenSeq([i \in DOMAIN shown |-> shown[i].text])

ReadHtml(text, dom) ==
  [ title |-> HtmlTitle(dom), outline |-> HtmlHeadings(dom), body |-> HtmlBody(dom),
    links |-> HtmlLinks(text) ]

\* extract_markdown
ReadMarkdown(text) ==
  LET split == SplitFrontMatter(text)
  IN [ title |-> MdTitle(split), outline |-> AtxHeadings(split.body, MaxHeadings),
       body |-> split.body, links |-> MdLinks(split.body) ]

\* extract_code: the title is the file's name.
ReadCode(text, path) ==
  LET names == SelectSeq(path, LAMBDA s : s # "")
  IN [ title |-> IF names = <<>> THEN <<>> ELSE <<Last(names)>>, outline |-> <<>>,
       body |-> text, links |-> <<>> ]

\* extract_plain: the title is the first line that is not blank.
ReadPlain(text) ==
  LET lines == SelectSeq(Lines(text), LAMBDA l : Trim(l) # <<>>)
  IN [ title |-> IF lines = <<>> THEN <<>> ELSE Trim(lines[1]), outline |-> <<>>,
       body |-> text, links |-> <<>> ]

\* AutoExtractor
Read(kind, path, text, dom) ==
  CASE kind = "html"     -> ReadHtml(text, dom)
    [] kind = "markdown" -> ReadMarkdown(text)
    [] kind = "code"     -> ReadCode(text, path)
    [] OTHER             -> ReadPlain(text)

-----------------------------------------------------------------------------
(***************************************************************************)
(* Distilling.                                                             *)
(***************************************************************************)

Words(text) == SelectSeq(text, Word)

\* The terms of a document: title, headings, body, then cut.
Terms(page) ==
  Take(Words(page.title)
         \o FlattenSeq([i \in DOMAIN page.outline |-> Words(page.outline[i].text)])
         \o Take(Words(page.body), MaxTerms), MaxTerms)

\* path_tags, and the few that into_document keeps.
PathTags(path) ==
  LET Add(tags, segment) ==
        IF Tag(segment) = <<>> \/ Contains(tags, Tag(segment)[1]) THEN tags
        ELSE tags \o Tag(segment)
  IN Take(FoldLeft(Add, <<>>, path), MaxTags)
=============================================================================
