---------------------------- MODULE MCMatchStore ----------------------------
(* MatchStore with symmetric joiners and sessions. *)
EXTENDS MatchStore, TLC

Symmetric == Permutations(Joiners) \cup Permutations(Sessions)
=============================================================================
