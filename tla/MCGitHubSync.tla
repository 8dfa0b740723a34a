---------------------------- MODULE MCGitHubSync ----------------------------
(***************************************************************************)
(* A repository with one file for each reason to leave a file out, and     *)
(* three kinds of sync: many spellings and limits on a repository that     *)
(* stands still; few files on a branch that moves; few files with a token  *)
(* that ends during the sync.                                              *)
(***************************************************************************)
EXTENDS GitHubSync

MCFiles == {"dir", "sa", "sb", "deep", "near", "big", "pdf", "py", "top", "spaced"}
MCEntry ==
  LET Blob(path, ext) == [type |-> "blob", path |-> path, size |-> 2, kind |-> "markdown", ext |-> ext]
  IN [ dir |-> [Blob(<<"s">>, "") EXCEPT !.type = "tree"],
       sa |-> Blob(<<"s", "a">>, "md"), sb |-> Blob(<<"s", "b">>, "md"),
       deep |-> Blob(<<"s", "t", "a">>, "md"), near |-> Blob(<<"sfoo", "a">>, "md"),
       big |-> [Blob(<<"s", "big">>, "md") EXCEPT !.size = 3],
       pdf |-> [Blob(<<"s", "p">>, "pdf") EXCEPT !.kind = "pdf"],
       py |-> [Blob(<<"s", "c">>, "py") EXCEPT !.kind = "code"],
       top |-> Blob(<<"a">>, "md"), spaced |-> Blob(<<"s p", "a">>, "md") ]

MCWithoutGit(name) == IF name = "r.git" THEN "r" ELSE name
MCEncoded(segment) == IF segment = "s p" THEN "s%20p" ELSE segment

UrlForm(parts) == [form |-> "url", parts |-> parts]
RefForm(parts) == [form |-> "ref", parts |-> parts]
Limits(depth, extensions) == [depth |-> depth, max_bytes |-> 2, extensions |-> extensions]
Config(spelling, limits, meant) ==
  [spelling |-> spelling, limits |-> limits, meant |-> meant, provider |-> "fixed", moves |-> {},
   syncs |-> 1]

InS == <<"o", "r.git", "tree", "main", "s", "">>

\* A repository that stands still.
Still ==
  { Config(UrlForm(InS), Limits(0, {"md"}), {"sa", "sb"}),
    Config(UrlForm(<<"o", "r", "tree", "main", "s", "t">>), Limits(9, {}), {"deep"}),
    Config(RefForm(<<"o", "/", "r", "@", "feat", "/", "x", "//", "s", "/">>), Limits(9, {"py"}), {"py"}),
    Config(RefForm(<<"o", "/", "r", "@", "v">>), Limits(0, {}), {"top"}),
    Config(RefForm(<<"o", "/", "r">>), Limits(1, {"md"}), {"sa", "sb", "near", "top", "spaced"}),
    Config(RefForm(<<"o", "/", "r", "@", "v", "//", "s p">>), Limits(0, {}), {"spaced"}),
    Config(UrlForm(<<"o", "r", "pulls">>), Limits(9, {}), {}),
    Config(RefForm(<<"o", "/", "r", "@">>), Limits(9, {}), {}),
    Config(RefForm(<<"o">>), Limits(9, {}), {}) }

MCConfigs ==
  Still \cup
  { [Config(UrlForm(InS), Limits(0, {"md"}), {"sa", "sb"}) EXCEPT !.moves = {"sa"}, !.syncs = 3],
    [Config(UrlForm(InS), Limits(0, {"md"}), {"sa", "sb"}) EXCEPT !.moves = {"sa", "sb"}, !.syncs = 2],
    [Config(UrlForm(<<"o", "r">>), Limits(0, {}), {"top"}) EXCEPT !.provider = "oauth", !.syncs = 2],
    [Config(UrlForm(InS), Limits(1, {"md"}), {"sa", "sb", "deep"}) EXCEPT !.provider = "oauth", !.syncs = 2] }

\* The subdirectory with a space in its name, as a URL.
MCSpaced == {Config(UrlForm(<<"o", "r", "tree", "main", "s p">>), Limits(0, {}), {"spaced"})}

MCRequests == MCFiles \cup {"ref", "tree"}
MCBlank == {3}
=============================================================================
