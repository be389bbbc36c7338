----------------------------- MODULE MCRatchet -----------------------------
(***************************************************************************)
(* Instances of Ratchet for TLC.                                           *)
(***************************************************************************)
EXTENDS Ratchet

\* Headers that announce a new chain, go back to an old one, skip ahead, and
\* ask for a key that may be kept.
MCOddHeaders ==
  {[pub |-> <<p, k>>, pn |-> 1, n |-> n] :
     p \in Peers, k \in {0, 2}, n \in {0, 1}}

\* The initiator sends more, so that keys are skipped and evicted within one
\* chain; three answers turn the ratchet often enough.
MCMaxSent == [p \in Peers |-> IF p = Initiator THEN 5 ELSE 3]

MCFour == [p \in Peers |-> 4]
=============================================================================
