------------------------------ MODULE Channel ------------------------------
(***************************************************************************)
(* What a session promises to the two peers that talk through it: a        *)
(* message that comes out was put in by the other side, and comes out at   *)
(* most once.  Messages of one peer are known by their number.  Nothing is *)
(* said of order, and a message may be lost.                               *)
(***************************************************************************)
EXTENDS Naturals

CONSTANT Peers

VARIABLES sent,      \* how many messages a peer put in
          delivered, \* which of a peer's messages came out
          received   \* how many messages a peer was handed

vars == <<sent, delivered, received>>

Init ==
  /\ sent = [p \in Peers |-> 0]
  /\ delivered = [p \in Peers |-> {}]
  /\ received = [p \in Peers |-> 0]

Send(p) ==
  /\ sent' = [sent EXCEPT ![p] = @ + 1]
  /\ UNCHANGED <<delivered, received>>

\* p is handed message k of q.
Deliver(p, q, k) ==
  /\ k \notin delivered[q]
  /\ delivered' = [delivered EXCEPT ![q] = @ \cup {k}]
  /\ received' = [received EXCEPT ![p] = @ + 1]
  /\ UNCHANGED sent

Next ==
  \E p \in Peers :
    \/ Send(p)
    \/ \E q \in Peers \ {p} : \E k \in 1 .. sent[q] : Deliver(p, q, k)

Spec == Init /\ [][Next]_vars
=============================================================================
