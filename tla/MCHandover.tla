----------------------------- MODULE MCHandover -----------------------------
(***************************************************************************)
(* Instance of Handover for TLC: two sources, one of which a PUT may give  *)
(* another URL.                                                            *)
(***************************************************************************)
EXTENDS Handover

CONSTANTS x, y

MCURLs == {<<x, 1>>, <<x, 2>>, <<y, 1>>}

=============================================================================
