--------------------------- MODULE ConfigRegister --------------------------
(***************************************************************************)
(* What config.toml promises to its writers, without caches, reloads or    *)
(* processes: it is a register with one value per part (a source, or the   *)
(* block of settings).  A granted request sets its own part; the others    *)
(* keep their values, or fall back to one that was theirs recently:        *)
(* recent[p] holds the values of p that somebody may still write.  A       *)
(* refused request changes nothing, but in a tentative part its value may  *)
(* surface later.  Replacements (an editor, the first run) set all parts.  *)
(***************************************************************************)
CONSTANTS Parts, Values, Tentative, Silence

VARIABLES
    reg,    \* reg[p]: the value of part p
    recent, \* recent[p]: the values part p may still fall back to
    answer  \* what a client was told in the last step, or Silence

vars == <<reg, recent, answer>>

Granted(p, v) == [part |-> p, value |-> v, ok |-> TRUE]
Refused(p, v) == [part |-> p, value |-> v, ok |-> FALSE]

Init ==
    /\ reg \in [Parts -> Values]
    /\ recent = [p \in Parts |-> {reg[p]}]
    /\ answer = Silence

\* A part may still fall back to what it could before, to its new value, or
\* to a value of extra[p].
Narrowed(extra) ==
    /\ DOMAIN recent' = Parts
    /\ \A p \in Parts :
          /\ reg'[p] \in recent'[p]
          /\ recent'[p] \subseteq recent[p] \cup {reg'[p]} \cup extra[p]

Nothing == [p \in Parts |-> {}]

Grant(p, v) ==
    /\ answer' = Granted(p, v)
    /\ reg'[p] = v
    /\ \A q \in Parts \ {p} : reg'[q] \in recent[q]
    /\ Narrowed(Nothing)

Refuse(p, v) ==
    /\ answer' = Refused(p, v)
    /\ reg' = reg
    /\ Narrowed([q \in Parts |-> IF q = p /\ p \in Tentative THEN {v} ELSE {}])

\* A step of which no client is told: a replacement, or a reload, after which
\* fewer old values are around.
Silent ==
    /\ answer' = Silence
    /\ Narrowed(Nothing)

Next ==
    /\ reg' \in [Parts -> Values]
    /\ \/ Silent
       \/ \E p \in Parts, v \in Values : Grant(p, v) \/ Refuse(p, v)

Spec == Init /\ [][Next]_vars

=============================================================================
