------------------------------- MODULE MCFiles -------------------------------
(***************************************************************************)
(* The program's two files for TLC.  component says which of them a        *)
(* behaviour is about, and whether processes use it at the same time:      *)
(*   "trust"     the trust file (TrustFile), one process after the other,  *)
(*               on a disk with room;                                      *)
(*   "shared"    the trust file, processes that overlap, a save that fails; *)
(*   "identity"  the identity file (IdentityFile), one command after the   *)
(*               other;                                                    *)
(*   "created"   the identity file, commands that overlap.                 *)
(* The names path and tmp, the inodes and the processes stand for those of *)
(* the one file the behaviour is about.                                    *)
(***************************************************************************)
EXTENDS TrustFile

CONSTANTS Ids, Passphrases, NoPass

VARIABLES
  component,
  given, identity, drawn, secret, used, opened  \* of IdentityFile

trustVars == <<mem, job, failures, accepted, compared, recorded>>
identityVars == <<given, identity, drawn, secret, used, opened>>

Shared == INSTANCE TrustFile
  WITH Overlap <- TRUE, MaxFailures <- 1, Peers <- {CHOOSE q \in Peers : TRUE}

Sole == INSTANCE IdentityFile WITH Overlap <- FALSE
Created == INSTANCE IdentityFile WITH Overlap <- TRUE

ASSUME Shared!TrustFileAssumption
ASSUME Sole!IdentityFileAssumption
ASSUME Created!IdentityFileAssumption
ASSUME Created!NoTextAssumption

MCInit ==
  /\ \/ component \in {"trust", "identity", "created"} /\ Init
     \/ component = "shared" /\ Shared!Init
  /\ Sole!Init

MCNext ==
  /\ UNCHANGED component
  /\ \/ component = "trust" /\ Next /\ UNCHANGED identityVars
     \/ component = "shared" /\ Shared!Next /\ UNCHANGED identityVars
     \/ component = "identity" /\ Sole!Next /\ UNCHANGED trustVars
     \/ component = "created" /\ Created!Next /\ UNCHANGED trustVars

MCSpec == MCInit /\ [][MCNext]_<<component, vars, identityVars>>

-----------------------------------------------------------------------------
(* Properties *)

\* While one process uses the trust file, what is on disk only ever gains a pin
\* or a verification at a time, whatever moment the process ends at
\* (TrustStore._save: the rename is the one step that shows).
Pinned == INSTANCE PinStore
  WITH pins <- IF component = "trust" THEN OnDisk ELSE Empty
KeepsPinStore == Pinned!Spec

\* While one process at a time uses a file: no two keys of a peer are ever
\* accepted and every mark that was recorded stays (TrustStore), and all
\* commands work with one identity (load_or_create).
WhileAlone ==
  /\ component = "trust" => OneKey /\ ComparedStaysVerified
  /\ component = "identity" => Sole!OneIdentity

\* Whatever overlaps, overwrites another's file or fails to save: no key is
\* shown as verified that the user did not compare (TrustStore), no identity
\* created with a passphrase lies on the disk without it, and it opens with no
\* other (Identity.save, Identity.load).
WhateverOverlaps ==
  /\ component = "trust" => TypeOK /\ VerifiedWasCompared
  /\ component = "shared" => Shared!TypeOK /\ Shared!VerifiedWasCompared
  /\ component \in {"identity", "created"} =>
       Created!TypeOK /\ Created!SecretStaysEncrypted /\ Created!OnePassphrase
=============================================================================
