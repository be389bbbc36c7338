---------------------------- MODULE MCKeyExchange ----------------------------
(***************************************************************************)
(* The key exchange on its two levels for TLC: in a behaviour whose        *)
(* component is "session" the session managers of two peers take steps     *)
(* (module Handshake), in one whose component is "noise" the handshake     *)
(* states of four ends do (module Noise): two handshakes of Alice with     *)
(* Bob, one of which may be answered twice.                                *)
(***************************************************************************)
EXTENDS MCHandshake

CONSTANT Damaged  \* bytes that nobody wrote  (a model value)

VARIABLES
  component,                       \* which level takes the steps
  hand, written, sealed, failures  \* the variables of Noise

noiseVars == <<hand, written, sealed, failures>>

Symbolic == INSTANCE Noise
  WITH Initiators <- {"i1", "i2"}, Responders <- {"r1", "r2"},
       Owner <- [i1 |-> "alice", i2 |-> "alice", r1 |-> "bob", r2 |-> "bob"],
       MaxFailures <- 2

ASSUME Symbolic!NoiseAssumption

MCInit ==
  /\ component \in {"session", "noise"}
  /\ Init
  /\ Symbolic!Init

MCNext ==
  \/ component = "session" /\ Next /\ UNCHANGED <<component, noiseVars>>
  \/ component = "noise" /\ Symbolic!Next /\ UNCHANGED <<component, vars>>

\* In a behaviour of "noise" no peer has anything to receive.
MCSpec ==
  /\ MCInit /\ [][MCNext]_<<component, vars, noiseVars>>
  /\ \A p \in Peers : WF_vars(Receive(p))

-----------------------------------------------------------------------------
(* Properties of Noise, under the names the run uses *)

\* No key of the handshake encrypts twice under one nonce, although the two
\* ends share keys and each counts for itself (CipherState).
NonceOnce == Symbolic!NonceOnce

\* A responder that completes agrees with one initiator on everything, no two
\* ends of one role share a chaining key, a signed transcript is the one the
\* peer signed, and an end whose read failed never completes (HandshakeState).
NoiseSound ==
  /\ Symbolic!TypeOK
  /\ Symbolic!CompleteAgree
  /\ Symbolic!OneTranscript
  /\ Symbolic!SignedHere
  /\ Symbolic!FailedNeverCompletes
=============================================================================
