------------------------------- MODULE MCChat -------------------------------
(***************************************************************************)
(* Three companies of nodes for TLC, with bounds of their own; component   *)
(* names the one a behaviour is about.                                     *)
(*   "talk"     two peers, messages of two frames, clocks that move, a     *)
(*              user who quits;                                            *)
(*   "crowd"    three peers, one of whom talks to both others;             *)
(*   "trouble"  two peers with beacons, cover traffic and refused sends.   *)
(***************************************************************************)
EXTENDS MCNode

CONSTANT carol

VARIABLE component

Crowd == INSTANCE Node
  WITH Peers <- {alice, bob, carol}, Typists <- {carol}, Parts <- OnePart,
       MaxConnects <- 2, MaxTexts <- 1, MaxNoise <- 0, MaxEpoch <- 0,
       MaxRefusals <- 0, MaxQuits <- 0

Trouble == INSTANCE Node
  WITH Peers <- {alice, bob}, Typists <- {alice, bob}, Parts <- FinParts,
       MaxConnects <- 1, MaxTexts <- 1, MaxNoise <- 1, MaxEpoch <- 0,
       MaxRefusals <- 1, MaxQuits <- 0

MCInit ==
  \/ component = "talk" /\ Init
  \/ component = "crowd" /\ Crowd!Init
  \/ component = "trouble" /\ Trouble!Init

MCNext ==
  /\ UNCHANGED component
  /\ \/ component = "talk" /\ Next
     \/ component = "crowd" /\ Crowd!Next
     \/ component = "trouble" /\ Trouble!Next

MCSpec == MCInit /\ [][MCNext]_<<component, vars>>

\* Alice and Bob are alike, also to Carol.
Symmetric == Permutations({alice, bob})

-----------------------------------------------------------------------------
(* Properties: SettledDelivers and ShownTruly of Node speak of a company    *)
(* as it is, whoever its peers are (nobody writes to Carol); and             *)

\* What the users of a company have is a channel that hands out a text that was
\* sent, and at most once, although tasks interleave their frames, parts
\* overtake each other and cover traffic looks like texts (Node._emit, _on_data).
Everybody == {alice, bob, carol}
OfAll(f, nothing) == [p \in Everybody |-> IF p \in DOMAIN f THEN f[p] ELSE nothing]
OneChannel == INSTANCE Channel
  WITH Peers <- Everybody, sent <- OfAll(sent, 0),
       delivered <- OfAll(delivered, {}), received <- OfAll(received, 0)
KeepsChannel == OneChannel!Spec
=============================================================================
