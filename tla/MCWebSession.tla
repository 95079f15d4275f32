---------------------------- MODULE MCWebSession ----------------------------
(***************************************************************************)
(* Instance of WebSession for TLC: no token, address, server or callback   *)
(* is special.                                                             *)
(***************************************************************************)
EXTENDS WebSession, TLC

Symmetry == Permutations(Tokens) \cup Permutations(Addrs)
                \cup Permutations(Servers) \cup Permutations(Callbacks)

=============================================================================
