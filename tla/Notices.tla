------------------------------ MODULE Notices ------------------------------
(***************************************************************************)
(* What the fetchers' Format operators make of a difference: a notice, or  *)
(* silence; and the summarizer of package llm that page_llm asks.          *)
(*                                                                         *)
(* A notice has the items it lists as added and as removed and how many of *)
(* each it speaks of, or a summary in place of both.  Wording, priority,   *)
(* tags and where a tap leads are left out.                                *)
(*                                                                         *)
(* A model's reply is what became of the HTTP call (outcome: "error" no    *)
(* answer, "refused" a status other than 2xx, "garbled" no JSON, "complaint"*)
(* an error message, "answer") and the blocks of text it holds.            *)
(***************************************************************************)
EXTENDS Pages

CONSTANTS
    MaxListed,   \* how many items of a kind a list names: 10 in the code
    MaxLines,    \* the item lines after which the body is full
    Sentinels,   \* the texts with NO_MEANINGFUL_CHANGE in them
    Openers,     \* the texts that open with "no meaningful change" or the like
    Contrasts    \* the texts with "but", "however" or the like in them

ASSUME NoticesAssumption ==
    /\ MaxListed \in Nat \ {0} /\ MaxLines \in Nat \ {0}
    /\ Sentinels \cup Openers \cup Contrasts \subseteq STRING

Silence ==
    [told |-> FALSE, added |-> <<>>, removed |-> <<>>, counts |-> <<0, 0>>,
     summary |-> <<>>]

Notice(added, removed, counts) ==
    [Silence EXCEPT !.told = TRUE, !.added = added, !.removed = removed, !.counts = counts]

FirstOf(items, n) == SubSeq(items, 1, IF Len(items) < n THEN Len(items) ELSE n)

-----------------------------------------------------------------------------
\* The list types.

\* Slip: a list that finds the body full is left out.
ListDiffFull(added, removed) ==
    LET listed == FirstOf(FirstOf(added, MaxListed), MaxLines)
    IN  Notice(listed, FirstOf(FirstOf(removed, MaxListed), MaxLines - Len(listed)),
               <<Len(added), Len(removed)>>)

\* Each list ends at its tenth item, or when the body is full; a list that
\* finds the body full still names its first item.
ListDiff(added, removed) ==
    LET listed == FirstOf(FirstOf(added, MaxListed), MaxLines)
        room   == IF Len(listed) < MaxLines THEN MaxLines - Len(listed) ELSE 1
    IN  Notice(listed, FirstOf(FirstOf(removed, MaxListed), room),
               <<Len(added), Len(removed)>>)

\* Every new repo is listed.
FormatTrending(added) == Notice(added, <<>>, <<Len(added), 0>>)

\* The old blob is not named; the commit looked up for the body is left out.
FormatFile(added) ==
    Notice(FirstOf(FirstOf(added, MaxListed), MaxLines), <<>>, <<Len(added), 0>>)

-----------------------------------------------------------------------------
\* The single-value types: from the old value to the new one.

FromTo(added, removed) ==
    Notice(FirstOf(added, 1), FirstOf(removed, 1), <<Len(added), Len(removed)>>)

-----------------------------------------------------------------------------
\* The summarizer.  Each provider keeps the text of other blocks.

BlockTexts(reply, types) ==
    LET blocks == Kept(reply.blocks, {i \in DOMAIN reply.blocks :
                          reply.blocks[i].type \in types /\ reply.blocks[i].text # ""})
    IN  [i \in DOMAIN blocks |-> blocks[i].text]

SummarizeOpenAI(reply)    == FirstOf([i \in DOMAIN reply.blocks |-> reply.blocks[i].text], 1)
SummarizeResponses(reply) == BlockTexts(reply, {"output_text"})
SummarizeAnthropic(reply) == BlockTexts(reply, {"text"})

\* The summary as the sequence of its texts; <<>> stands for an error, which
\* a blank summary is too.
Summarize(src, reply) ==
    LET texts == CASE src.provider = "responses" -> SummarizeResponses(reply)
                   [] src.provider = "anthropic" -> SummarizeAnthropic(reply)
                   [] OTHER                      -> SummarizeOpenAI(reply)
    IN  IF reply.outcome # "answer" THEN <<>>
        ELSE Kept(texts, {i \in DOMAIN texts : texts[i] # ""})

\* The sentinel counts wherever it is; an opener counts unless the reply goes
\* on to make an exception.
IsNoMeaningfulChange(summary) ==
    \/ \E i \in DOMAIN summary : summary[i] \in Sentinels
    \/ /\ summary[1] \in Openers
       /\ \A i \in DOMAIN summary : summary[i] \notin Contrasts

\* Without a summary the notice falls back to the old text and the new one.
FormatPage(src, added, removed, reply) ==
    LET summary == Summarize(src, reply)
    IN  IF src.provider = "none" \/ summary = <<>> THEN FromTo(added, removed)
        ELSE IF IsNoMeaningfulChange(summary) THEN Silence
        ELSE [Silence EXCEPT !.told = TRUE, !.summary = summary]

-----------------------------------------------------------------------------
Format(src, added, removed, reply) ==
    CASE src.type \in {"html", "json", "nfvl"}     -> ListDiff(added, removed)
      [] src.type \in {"json_value", "amazon"}     -> FromTo(added, removed)
      [] src.type = "github_trending"              -> FormatTrending(added)
      [] src.type = "github_file"                  -> FormatFile(added)
      [] src.type = "page_llm"                     -> FormatPage(src, added, removed, reply)
=============================================================================
