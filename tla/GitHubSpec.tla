----------------------------- MODULE GitHubSpec -----------------------------
(***************************************************************************)
(* What a caller writes to name a repository, and which entries of its     *)
(* tree that admits.                                                       *)
(*                                                                         *)
(* A spelling is [form, parts]: of the form "url" the path segments behind *)
(* the host, of the form "ref" the tokens behind "github:", where "/",     *)
(* "//" and "@" are tokens.  A path is the sequence of its segments.       *)
(***************************************************************************)
EXTENDS Naturals, Sequences, SequencesExt

CONSTANTS
  WithoutGit(_),   \* a repository's name without the suffix ".git"
  Encoded(_)       \* a path segment as the URL parser leaves it: with spaces,
                   \* non-ASCII characters and the like percent-encoded

Segments(tokens) == SelectSeq(tokens, LAMBDA t : t \notin {"/", "//", ""})

\* split_once: what stands before and behind the first `sep', <<>> if none.
SplitOnce(tokens, sep) ==
  LET places == {i \in DOMAIN tokens : tokens[i] = sep}
      at == CHOOSE i \in places : \A j \in places : i <= j
  IN IF places = {} THEN <<>>
     ELSE <<SubSeq(tokens, 1, at - 1), SubSeq(tokens, at + 1, Len(tokens))>>

\* GithubSpec::parse_ref_grammar: owner/repo@ref//subdir.
ParseRefGrammar(tokens) ==
  LET cut == SplitOnce(tokens, "//")
      locator == IF cut = <<>> THEN tokens ELSE cut[1]
      named == SplitOnce(locator, "@")
      path == IF named = <<>> THEN locator ELSE named[1]
      owned == SplitOnce(path, "/")
  IN IF \/ named # <<>> /\ named[2] = <<>>
        \/ owned = <<>>
        \/ owned # <<>> /\ (owned[1] = <<>> \/ owned[2] = <<>> \/ Contains(owned[2], "/"))
       THEN <<>>
     ELSE <<[ owner |-> owned[1][1], repo |-> owned[2][1],
              ref |-> IF named = <<>> THEN <<>> ELSE named[2],
              subdir |-> IF cut = <<>> THEN <<>> ELSE Segments(cut[2]) ]>>

\* GithubSpec::parse_url: owner/repo, owner/repo/tree/ref/subdir...  Nothing is
\* decoded again.
ParseUrl(parts) ==
  LET given == Segments(parts)
      segs == [i \in DOMAIN given |-> Encoded(given[i])]
      bare == Len(segs) = 2
      tree == Len(segs) >= 4 /\ segs[3] \in {"tree", "blob"}
  IN IF ~bare /\ ~tree THEN <<>>
     ELSE <<[ owner |-> segs[1], repo |-> WithoutGit(segs[2]),
              ref |-> IF bare THEN <<>> ELSE <<segs[4]>>,
              subdir |-> IF bare THEN <<>> ELSE SubSeq(segs, 5, Len(segs)) ]>>

\* GithubSpec::parse: <<spec>>, or <<>> when it is none.
Parse(spelling) ==
  IF spelling.form = "ref" THEN ParseRefGrammar(spelling.parts) ELSE ParseUrl(spelling.parts)

\* GitHubSource::admit.  The entry that is the subdirectory itself, a file, is
\* not below it.
Admit(entry, subdir, limits) ==
  /\ entry.type = "blob"
  /\ subdir # <<>> => IsStrictPrefix(subdir, entry.path)
  /\ Len(entry.path) - Len(subdir) - 1 <= limits.depth
  /\ entry.size <= limits.max_bytes
  /\ entry.kind \notin {"pdf", "unknown"}
  /\ limits.extensions # {} => entry.ext \in limits.extensions
=============================================================================
