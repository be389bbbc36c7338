------------------------------ MODULE PinStore ------------------------------
(***************************************************************************)
(* What the trust file promises (the rules in TrustStore's docstring): a   *)
(* peer that was never seen may be pinned, unverified, to a key; a pinned  *)
(* peer may become verified; nothing else ever happens to a pin.           *)
(***************************************************************************)
CONSTANTS Peers, Statics, None

VARIABLE pins

Init == pins = [q \in Peers |-> None]

PinPeer(q, s) ==
  /\ pins[q] = None
  /\ pins' = [pins EXCEPT ![q] = [static |-> s, verified |-> FALSE]]

Verify(q) ==
  /\ pins[q] # None
  /\ pins' = [pins EXCEPT ![q].verified = TRUE]

Next == \E q \in Peers : Verify(q) \/ \E s \in Statics : PinPeer(q, s)

Spec == Init /\ [][Next]_pins
=============================================================================
