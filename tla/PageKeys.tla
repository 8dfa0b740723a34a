------------------------------ MODULE PageKeys ------------------------------
(***************************************************************************)
(* The canonical form of a URL, which is the identity of a page in the     *)
(* index and in the link graph.                                            *)
(*                                                                         *)
(* A URL is one the url crate has parsed: the scheme is lower case, the    *)
(* default port is absent.  Its path is the sequence of what stands        *)
(* between slashes, so that a path that ends with a slash ends with "".    *)
(* Query segments are numbers in the order of their bytes, 0 the empty     *)
(* one.  The key is a hash of the canonical form; here it is that form.    *)
(***************************************************************************)
EXTENDS Naturals, Sequences, FiniteSets, SequencesExt

\* Query segments, without the empty ones, sorted.
CanonicalQuery(query) == SortSeq(SelectSeq(query, LAMBDA q : q # 0), <)

\* Mutant: a trailing slash is another page.
CanonicalPath_Slash(path) == path

\* One trailing slash is stripped, except that of the root.
CanonicalPath(path) ==
  IF path = <<>> THEN <<"">>
  ELSE IF Len(path) > 1 /\ Last(path) = "" THEN Front(path) ELSE path

\* canonical_chunks: userinfo and fragment are dropped.
Canonical(url) ==
  [ scheme |-> url.scheme, user |-> "", host |-> url.host, port |-> url.port,
    path |-> CanonicalPath(url.path), query |-> CanonicalQuery(url.query),
    fragment |-> "" ]

\* UrlKey::from_url
KeyOf(url) == Canonical(url)
=============================================================================
