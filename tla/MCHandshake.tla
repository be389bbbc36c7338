---------------------------- MODULE MCHandshake ----------------------------
(* Two peers for TLC; they are alike. *)
EXTENDS Handshake, TLC

MCSymmetry == Permutations(Peers)
=============================================================================
