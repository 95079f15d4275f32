----------------------------- MODULE MCChecker -----------------------------
(***************************************************************************)
(* Instances of Checker for TLC: which sources there are, their types and  *)
(* flags.  Each configuration file picks one of them.                      *)
(***************************************************************************)
EXTENDS Checker, TLC

\* The two special pipelines side by side: the cumulative cache, which moves
\* before its publish, and the suppressible diff of a value that is replaced,
\* whose removals are ignored and whose additions must not be.
TwoSources == {"repos", "notice"}
TwoTypes ==
    [s \in TwoSources |-> IF s = "repos" THEN "github_trending" ELSE "page_llm"]
TwoFlags == [s \in TwoSources |-> s = "notice"]

\* One list page that reports removals, alone, for longer histories and for
\* the liveness properties.  A JSON list may become empty, an html page is
\* refused then.
OneSource == {"page"}
OneJson == [s \in OneSource |-> "json"]
OneHtml == [s \in OneSource |-> "html"]
OneKeeps == [s \in OneSource |-> FALSE]

ItemSymmetry == Permutations(Items)

=============================================================================
