------------------------------ MODULE LinkScan ------------------------------
(***************************************************************************)
(* How links are read out of a page: the one-pass HTML scanner and the     *)
(* Markdown scanner.                                                       *)
(*                                                                         *)
(* A page is a sequence of tokens: a punctuation character is a token of   *)
(* its own, and so is a run of letters and digits; "\n" and a blank are    *)
(* tokens too, "!--" behind a "<", "-->", and "---" on a line of its own.  *)
(* An href is the sequence of its tokens.                                  *)
(***************************************************************************)
EXTENDS Naturals, Sequences, FiniteSets, SequencesExt

At(page, i) == IF i \in DOMAIN page THEN page[i] ELSE "end"

\* The first position from i on whose token is in S; one past the end if none.
NextIn(page, i, S) ==
  LET places == {j \in i..Len(page) : page[j] \in S}
  IN IF places = {} THEN Len(page) + 1 ELSE CHOOSE j \in places : \A k \in places : j <= k

\* The first position from i on whose token is not in S.
NextNotIn(page, i, S) ==
  LET places == {j \in i..Len(page) : page[j] \notin S}
  IN IF places = {} THEN Len(page) + 1 ELSE CHOOSE j \in places : \A k \in places : j <= k

Blank == {" ", "\n"}

\* str::trim
Trim(s) ==
  LET kept == {i \in DOMAIN s : s[i] \notin Blank}
  IN IF kept = {} THEN <<>>
     ELSE SubSeq(s, CHOOSE i \in kept : \A j \in kept : i <= j,
                    CHOOSE i \in kept : \A j \in kept : i >= j)

\* split_whitespace().next()
FirstWord(s) == LET t == Trim(s) IN SubSeq(t, 1, NextIn(t, 1, Blank) - 1)

-----------------------------------------------------------------------------
(***************************************************************************)
(* HTML.                                                                   *)
(***************************************************************************)

Marks == {"<", ">", "/", "!", "?", "=", "!--", "-->", "-", "&", ";", "#", "\"", "'", "[", "]",
          "(", ")", ":", "---", "...", "end"}
Word(token) == token \notin Marks \cup Blank

\* eq_ignore_ascii_case
Lower(token) ==
  CASE token = "A" -> "a" [] token = "HREF" -> "href" [] token = "SCRIPT" -> "script"
    [] OTHER -> token

\* What a named or numeric entity stands for.
Entity(body) ==
  CASE body = <<"amp">>     -> <<"&">>
    [] body = <<"#", "32">> -> <<" ">>
    [] OTHER                -> <<>>

\* decode_entities: what is no known entity stays as it is.
RECURSIVE DecodeEntities(_)
DecodeEntities(s) ==
  LET semi == NextIn(s, 1, {";"})
  IN IF s = <<>> THEN <<>>
     ELSE IF s[1] = "&" /\ semi \in DOMAIN s /\ Entity(SubSeq(s, 2, semi - 1)) # <<>>
       THEN Entity(SubSeq(s, 2, semi - 1)) \o DecodeEntities(SubSeq(s, semi + 1, Len(s)))
     ELSE <<s[1]>> \o DecodeEntities(Tail(s))

\* push_href
PushHref(links, raw) ==
  LET href == Trim(DecodeEntities(Trim(raw)))
  IN IF href = <<>> THEN links ELSE Append(links, href)

\* The value that starts at i: quoted, up to the same quote or the end of the
\* page, or bare, up to a blank or the end of the tag.
Value(page, i) ==
  LET quoted == At(page, i) \in {"\"", "'"}
      close == IF quoted THEN NextIn(page, i + 1, {At(page, i)})
                         ELSE NextIn(page, i, Blank \cup {">"})
  IN [ val |-> SubSeq(page, IF quoted THEN i + 1 ELSE i, close - 1),
       after |-> IF quoted THEN close + 1 ELSE close ]

\* scan_tag: from behind the tag's name to behind its ">", with the first
\* href found, as <<>> or <<value>>.
RECURSIVE ScanTag(_, _, _)
ScanTag(page, pos, href) ==
  LET name_end == NextIn(page, pos, {"=", ">", "/"} \cup Blank)
      name == SubSeq(page, pos, name_end - 1)
      probe == NextNotIn(page, name_end, Blank)
      value == Value(page, NextNotIn(page, probe + 1, Blank))
      found == IF href = <<>> /\ Len(name) = 1 /\ Lower(name[1]) = "href"
                 THEN <<value.val>> ELSE href
  IN CASE pos > Len(page)                   -> [href |-> href, next |-> Len(page) + 1]
       [] At(page, pos) = ">"               -> [href |-> href, next |-> pos + 1]
       [] At(page, pos) \in Blank \cup {"/"} -> ScanTag(page, pos + 1, href)
       [] OTHER ->
            IF At(page, probe) # "="
              THEN ScanTag(page, IF name_end > pos THEN name_end ELSE pos + 1, href)
            ELSE IF NextNotIn(page, probe + 1, Blank) > Len(page)
              THEN [href |-> href, next |-> Len(page) + 1]
            ELSE ScanTag(page, value.after, found)

\* The close tag of a raw-text element: find_ci.
CloseTag(page, i, name) ==
  LET places == {j \in i..(Len(page) - 2) :
                   page[j] = "<" /\ page[j + 1] = "/" /\ Lower(page[j + 2]) = name}
  IN IF places = {} THEN Len(page) + 1 ELSE CHOOSE j \in places : \A k \in places : j <= k

\* extract_links
RECURSIVE ScanHtml(_, _, _)
ScanHtml(page, i, links) ==
  LET lt == NextIn(page, i, {"<"})
      name == Lower(At(page, lt + 1))
      ends == At(page, lt + 2) \in Blank \cup {">", "/", "end"}
      tag == ScanTag(page, lt + 2, <<>>)
      resume == CASE name = "!--"               -> NextIn(page, lt + 2, {"-->"}) + 1
                  [] name \in {"/", "!", "?"}   -> NextIn(page, lt + 1, {">"}) + 1
                  [] name \in {"script", "style"} -> CloseTag(page, lt + 2, name)
                  [] ~Word(name)                -> lt + 1
                  [] OTHER                      -> tag.next
  IN IF lt >= Len(page) THEN links
     ELSE ScanHtml(page, resume, IF name = "a" /\ ends /\ tag.href # <<>>
                                   THEN PushHref(links, tag.href[1]) ELSE links)

HtmlLinks(page) == ScanHtml(page, 1, <<>>)

-----------------------------------------------------------------------------
(***************************************************************************)
(* Markdown.                                                               *)
(***************************************************************************)

\* str::split_inclusive('\n')
RECURSIVE Lines(_)
Lines(body) ==
  LET nl == NextIn(body, 1, {"\n"})
  IN IF body = <<>> THEN <<>>
     ELSE <<SubSeq(body, 1, nl)>> \o Lines(SubSeq(body, nl + 1, Len(body)))

IsTarget(target) == target # <<>> /\ target[1] # "#"
PushTarget(links, target) == IF IsTarget(target) THEN Append(links, target) ELSE links

\* The bracket that a "](" at i closes belongs to an image: the last "[" in
\* front of it follows a "!".
IsImage(body, i) ==
  LET opens == {j \in 1..(i - 1) : body[j] = "["}
      open == CHOOSE j \in opens : \A k \in opens : k <= j
  IN opens # {} /\ open > 1 /\ body[open - 1] = "!"

\* The inline links and autolinks of extract_md_links, in order.
RECURSIVE ScanInline(_, _, _)
ScanInline(body, i, links) ==
  LET close == NextIn(body, i + 2, {")"})
      gt == NextIn(body, i + 1, {">"})
      auto == SubSeq(body, i + 1, gt - 1)
  IN IF i >= Len(body) THEN links
     ELSE IF body[i] = "]" /\ body[i + 1] = "("
       THEN ScanInline(body, i + 2,
              IF ~IsImage(body, i) /\ close <= Len(body)
                THEN PushTarget(links, FirstWord(SubSeq(body, i + 2, close - 1)))
                ELSE links)
     ELSE IF body[i] = "<" /\ body[i + 1] \in {"http", "https"} /\ gt <= Len(body)
       THEN ScanInline(body, gt,
              IF ToSet(auto) \cap Blank = {} THEN Append(links, auto) ELSE links)
     ELSE ScanInline(body, i + 1, links)

\* Reference definitions: "[id]: url" at the start of a line.
Reference(line) ==
  LET t == Trim(line)
      closes == {j \in 1..(Len(t) - 1) : t[j] = "]" /\ t[j + 1] = ":"}
      close == CHOOSE j \in closes : \A k \in closes : j <= k
  IN IF At(t, 1) = "[" /\ closes # {}
       THEN FirstWord(SubSeq(t, close + 2, Len(t))) ELSE <<>>

\* extract_md_links: inline links first, then the definitions.
MdLinks(body) ==
  FoldLeft(LAMBDA links, line : PushTarget(links, Reference(line)),
           ScanInline(body, 1, <<>>), Lines(body))

\* split_front_matter: front is <<>> or <<the lines of the block>>, body the
\* text behind it.
SplitFrontMatter(text) ==
  LET lines == Lines(text)
      Closes(line) == SubSeq(line, 1, NextIn(line, 1, {"\n"}) - 1) \in {<<"---">>, <<"...">>}
      ends == {j \in 2..Len(lines) : Closes(lines[j])}
      end == CHOOSE j \in ends : \A k \in ends : j <= k
  IN IF lines # <<>> /\ lines[1] = <<"---", "\n">> /\ ends # {}
       THEN [front |-> <<SubSeq(lines, 2, end - 1)>>,
             body |-> FlattenSeq(SubSeq(lines, end + 1, Len(lines)))]
       ELSE [front |-> <<>>, body |-> text]

\* front_matter_title: the first line with the label and a value.
FrontTitle(front) ==
  LET Val(line) == LET t == Trim(line)
                   IN IF At(t, 1) = "title" /\ At(t, 2) = ":" THEN Trim(SubSeq(t, 3, Len(t)))
                      ELSE <<>>
      hits == {j \in DOMAIN front : Val(front[j]) # <<>>}
  IN IF hits = {} THEN <<>> ELSE Val(front[CHOOSE j \in hits : \A k \in hits : j <= k])

Hashes(line) == NextNotIn(Trim(line), 1, {"#"}) - 1
HeadingText(line) == LET t == Trim(line) IN Trim(SubSeq(t, Hashes(line) + 1, Len(t)))

\* atx_headings, at most `max' of them, with their depths.
AtxHeadings(body, max) ==
  LET headings == SelectSeq(Lines(body), LAMBDA l : Hashes(l) \in 1..3 /\ HeadingText(l) # <<>>)
      n == IF Len(headings) < max THEN Len(headings) ELSE max
  IN [i \in 1..n |-> [text |-> HeadingText(headings[i]), level |-> Hashes(headings[i])]]

\* The title of a Markdown page: the front matter's, or the first heading of
\* any depth (first_atx_heading).
MdTitle(split) ==
  LET named == IF split.front = <<>> THEN <<>> ELSE FrontTitle(split.front[1])
      heads == SelectSeq(Lines(split.body), LAMBDA l : Hashes(l) > 0 /\ HeadingText(l) # <<>>)
  IN IF named # <<>> THEN named
     ELSE IF heads = <<>> THEN <<>> ELSE HeadingText(heads[1])
=============================================================================
