------------------------------- MODULE MCPages -------------------------------
(***************************************************************************)
(* A site of four pages, one of them under two URLs and one whose path     *)
(* ends in two slashes, and the ways a link stands in a page.  "/n" is a   *)
(* link that is none: it stands in a comment, a script, an attribute of    *)
(* another element, an image.                                              *)
(***************************************************************************)
EXTENDS Pages

Url(scheme, host, path, query) ==
  [ scheme |-> scheme, user |-> "", host |-> host, port |-> "", path |-> path,
    query |-> query, fragment |-> "" ]
Site(path, query) == Url("https", "h", path, query)

Doc == Site(<<"d", "a.md">>, <<1, 2>>)
Alias == [Site(<<"d", "a.md", "">>, <<2, 0, 1>>) EXCEPT !.user = "u", !.fragment = "f"]
OtherPort == [Doc EXCEPT !.port = "81"]
DocSlashes == Site(<<"d", "a.md", "", "">>, <<1, 2>>)
Home == Site(<<"">>, <<>>)

\* Three of the pages at a time, each pair of them in some way of serving them.
MCServed ==
  { [header |-> "text/html", written |-> "html", urls |-> {Doc, Alias, OtherPort, Home}],
    [header |-> "text/plain", written |-> "markdown", urls |-> {Doc, Alias, DocSlashes, Home}],
    [header |-> "text/x-rust", written |-> "markdown",
     urls |-> {Doc, Alias, DocSlashes, OtherPort}] }

MCExtension(segment) == IF segment = "a.md" THEN "md" ELSE ""
MCTag(segment) == CASE segment = "a.md" -> <<"a">> [] segment = "d" -> <<"d">> [] OTHER -> <<>>

X == <<"/", "x">>
Y == <<"/", "y", "?", "q", "&", "r">>
Z == <<"http", ":", "z">>
N == <<"/", "n">>
Slashed == <<"/", "x", "/">>
Mail == <<"mailto", ":", "m">>
Here == <<"#", "t">>
Near == <<"x">>

MCJoin(base, href) ==
  CASE href = X       -> <<Site(<<"x">>, <<>>)>>
    [] href = Slashed -> <<Site(<<"x", "">>, <<>>)>>
    [] href = Y       -> <<Site(<<"y">>, <<4, 3>>)>>
    [] href = Z       -> <<Url("http", "z", <<"">>, <<>>)>>
    [] href = N       -> <<Site(<<"n">>, <<>>)>>
    [] href = Mail    -> <<Url("mailto", "", <<"m">>, <<>>)>>
    [] href = Here    -> <<[base EXCEPT !.fragment = "t"]>>
    [] href = Near    -> <<[base EXCEPT !.path = Front(@) \o Near, !.query = <<>>]>>
    [] OTHER          -> <<>>

Html(text, links, elements) ==
  [text |-> text, links |-> links, definitions |-> <<>>, headings |-> <<>>, front |-> <<>>,
   elements |-> elements, words |-> FlattenSeq([i \in DOMAIN elements |-> elements[i].text])]
Element(name, text) == [name |-> name, text |-> text]
Anchor(text) == <<Element("a", text)>>

Close == <<"<", "/", "a", ">">>

HtmlFragments ==
  { Html(<<"<", "a", " ", "href", "=", "\"">> \o X \o <<"\"", ">", "x">> \o Close, <<X>>,
         Anchor(<<"x">>)),
    Html(<<"<", "A", " ", "HREF", " ", "=", "\n", "'", "/", "y", "?", "q", "&", "amp", ";", "r",
           "'", ">">> \o Close, <<Y>>, Anchor(<<>>)),
    Html(<<"<", "a", " ", "b", "=", "c", " ", "href", "=">> \o Slashed \o <<">">> \o Close,
         <<Slashed>>, Anchor(<<>>)),
    Html(<<"<", "p", ">", "u", "<", "a", " ", "t", "=", "\"", "x", ">", "y", "\"", "href", "=",
           "'">> \o Z \o <<"'", "href", "=", "n", ">", "v">> \o Close \o <<"<", "/", "p", ">">>,
         <<Z>>, <<Element("p", <<"u", "v">>), Element("a", <<"v">>)>>),
    Html(<<"<", "!--", "<", "a", " ", "href", "=", "'">> \o N \o <<"'", ">", "-->">>, <<>>, <<>>),
    Html(<<"<", "SCRIPT", ">", "'", "<", "a", " ", "href", "=">> \o N
           \o <<">", "<", "/", "script", ">">>, <<>>, <<>>),
    Html(<<"<", "img", " ", "alt", "=", "\"", ">", "<", "a", " ", "href", "=", "'">> \o N
           \o <<"'", ">", "\"", "/", ">">>, <<>>, <<>>),
    Html(<<"<", "abbr", " ", "href", "=">> \o N \o <<">">>, <<>>, <<>>),
    Html(<<"<", "a", "-", "b", " ", "href", "=">> \o N \o <<">">>, <<>>, <<>>),
    Html(<<"x", "<", " ", "y", "<", "!", "d", ">">>, <<>>, <<>>),
    Html(<<"<", "a", " ", "href", "=", "\"", "\"", ">", "<", "a", " ", "href", "/", ">">> \o Close,
         <<>>, Anchor(<<>>) \o Anchor(<<>>)),
    Html(<<"<", "a", " ", "href", "=", "\"">> \o Mail \o <<"\"", ">">> \o Close, <<Mail>>,
         Anchor(<<>>)),
    Html(<<"<", "a", " ", "href", "=", "\"", " ">> \o Here \o <<" ", "\"", ">">> \o Close, <<Here>>,
         Anchor(<<>>)),
    Html(<<"<", "a", " ", "href", "=">> \o Near \o <<">">> \o Close, <<Near>>, Anchor(<<>>)),
    [Html(<<"<", "title", ">", "t", "<", "/", "title", ">">>, <<>>, <<>>)
       EXCEPT !.front = <<"t">>, !.elements = <<Element("title", <<"t">>)>>],
    [Html(<<"<", "h1", ">", "g", "<", "/", "h1", ">">>, <<>>, <<Element("h1", <<"g">>)>>)
       EXCEPT !.headings = <<[text |-> <<"g">>, level |-> 1]>>],
    [Html(<<"<", "h3", ">", " ", "i", "<", "/", "h3", ">">>, <<>>, <<Element("h3", <<" ", "i">>)>>)
       EXCEPT !.headings = <<[text |-> <<"i">>, level |-> 3]>>, !.words = <<"i">>] }

Md(text, links, words) ==
  [ text |-> Append(text, "\n"), links |-> links, definitions |-> <<>>, headings |-> <<>>,
    front |-> <<>>, elements |-> <<>>, words |-> words ]
Heading(name, level) ==
  [Md([i \in 1..level |-> "#"] \o <<" ", name>>, <<>>, <<name>>)
     EXCEPT !.headings = <<[text |-> <<name>>, level |-> level]>>]

MdFragments ==
  { Md(<<"[", "x", "]", "(">> \o X \o <<")">>, <<X>>, <<"x", "x">>),
    Md(<<"[", "x", "]", "(">> \o Slashed \o <<" ", "'", "t", "'", ")", "[", "y", "]", "(">>
         \o Y \o <<")">>, <<Slashed, Y>>, <<"x", "x", "t", "y", "y", "q", "r">>),
    Md(<<"!", "[", "x", "]", "(">> \o N \o <<")">>, <<>>, <<"x", "n">>),
    Md(<<"[", "x", "]", "(">> \o Here \o <<")", "]", " ", "(">>, <<>>, <<"x", "t">>),
    Md(<<"<">> \o Z \o <<">", "<", "http", " ", "n", ">">>, <<Z>>, <<"http", "z", "http", "n">>),
    Md(<<"[", "]", "(">> \o Near \o <<")">>, <<Near>>, <<"x">>),
    [Md(<<" ", "[", "1", "]", ":", " ">> \o Z \o <<" ", "t">>, <<>>, <<"1", "http", "z", "t">>)
       EXCEPT !.definitions = <<Z>>],
    Md(<<"x", "[", "1", "]", ":", " ">> \o N, <<>>, <<"x", "1", "n">>),
    [Md(<<"---", "\n", "title", ":", " ", "t", "\n", "[", "x", "]", "(", ")", "\n", "---">>, <<>>,
        <<"title", "t", "x">>) EXCEPT !.front = <<"t">>],
    Heading("g", 1), Heading("h", 3), Heading("i", 4),
    Md(<<"#", " ">>, <<>>, <<>>) }

MCFragments == [html |-> HtmlFragments, markdown |-> MdFragments]
=============================================================================
