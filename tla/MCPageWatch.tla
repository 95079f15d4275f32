---------------------------- MODULE MCPageWatch ----------------------------
(***************************************************************************)
(* The instance of PageWatch for TLC: a source of each type, page_llm with *)
(* each provider and without a model.                                      *)
(***************************************************************************)
EXTENDS PageWatch

Base ==
    [type |-> "html", ignore_removals |-> FALSE, provider |-> "none", sha |-> TRUE,
     selector |-> [tag |-> "li", classes |-> {"attachedfile"}],
     path |-> <<Key("data")>>]

MCWatched ==
    {Base, [Base EXCEPT !.ignore_removals = TRUE],
     [Base EXCEPT !.type = "json", !.ignore_removals = TRUE],
     [Base EXCEPT !.type = "json"],
     [Base EXCEPT !.type = "json_value",
                  !.path = <<First, Key("data")>>],
     [Base EXCEPT !.type = "nfvl"], [Base EXCEPT !.type = "nfvl", !.ignore_removals = TRUE],
     [Base EXCEPT !.type = "amazon", !.ignore_removals = TRUE],
     [Base EXCEPT !.type = "github_trending"],
     [Base EXCEPT !.type = "github_file"], [Base EXCEPT !.type = "github_file", !.sha = FALSE]}
    \cup {[Base EXCEPT !.type = "page_llm", !.provider = p] :
              p \in {"none", "openai", "responses", "anthropic"}}

\* A doubleheader, and a game on another day.
MCGames ==
    {[date |-> "Oct 21", away |-> "A", home |-> "B", number |-> 101],
     [date |-> "Oct 21", away |-> "A", home |-> "B", number |-> 102],
     [date |-> "Oct 28", away |-> "B", home |-> "A", number |-> 103]}

MCMilestones == <<"Ordered", "Out for delivery", "Delivered">>

Block(type, text) == [type |-> type, text |-> text]
Answer(blocks) == [kind |-> "reply", outcome |-> "answer", blocks |-> blocks]

\* Failures, an empty answer, blocks of other types, each verdict.
MCReplies ==
    {[kind |-> "reply", outcome |-> o, blocks |-> <<>>] :
         o \in {"error", "refused", "garbled", "complaint"}}
    \cup {Answer(<<>>), Answer(<<Block("reasoning", "nothing changed")>>)}
    \cup UNION {{Answer(<<Block(t, "it is live")>>),
                 Answer(<<Block(t, "nothing changed")>>),
                 Answer(<<Block(t, "no change, but live")>>),
                 Answer(<<Block("reasoning", "it is live"), Block(t, "NO_MEANINGFUL_CHANGE")>>),
                 Answer(<<Block(t, "nothing changed"), Block(t, "but it is live")>>),
                 Answer(<<Block(t, "")>>)} : t \in {"output_text", "text"}}
=============================================================================
