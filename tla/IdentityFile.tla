---------------------------- MODULE IdentityFile ----------------------------
(***************************************************************************)
(* The identity file (crypto/identity.py) and how the command line comes   *)
(* to a passphrase for it (cli.py, resolve_passphrase and load_identity).  *)
(* Any number of commands is run on one file, with a passphrase in the     *)
(* environment or not, with a terminal or not; the user types what he      *)
(* likes.  A command may end at any point.                                 *)
(***************************************************************************)
EXTENDS AtomicSave

CONSTANTS
  Ids,         \* the identities that may be drawn, one per generate()
  Passphrases, \* what a user may set or type
  NoPass,      \* no passphrase, or an empty one        (a model value)
  Overlap      \* two commands may run at once

IdentityFileAssumption ==
  /\ Overlap \in BOOLEAN
  /\ NoPass \notin Passphrases
  /\ Passphrases # {}

Given == Passphrases \cup {NoPass}
Contents == [id : Ids, key : Given]

NoTextAssumption == Torn \notin Contents

VARIABLES
  pc,       \* where a command is
  given,    \* the passphrase it works with
  identity, \* the identity it generated or loaded
  drawn,    \* the identities generated so far
  secret,   \* identities created by who gave a passphrase        (history)
  used,     \* identities a command went on to work with          (history)
  opened    \* passphrases that opened an encrypted identity      (history)

vars == <<files, pc, given, identity, drawn, secret, used, opened>>
history == <<secret, used, opened>>

\* The variables hold what the code's locals and the disk can hold.
TypeOK ==
  /\ FilesOK(Contents)
  /\ pc \in [Procs -> {"off", "load", "save", "opened", "written", "ready"}]
  /\ given \in [Procs -> Given]
  /\ identity \in [Procs -> Ids \cup {None}]
  /\ drawn \in SUBSET Ids /\ secret \in SUBSET drawn /\ used \in SUBSET drawn
  /\ opened \subseteq Ids \X Passphrases

-----------------------------------------------------------------------------
Exists == path # None

\* Identity.is_encrypted: a torn file counts as not encrypted.
Encrypted == Exists /\ data[path] # Torn /\ data[path].key # NoPass

\* resolve_passphrase: the passphrases it may return ({} where it exits), for
\* the environment's, whether there is a terminal, --no-encrypt, and what the
\* user types first and then.
Resolved(env, tty, noEncrypt, first, second) ==
  IF env # NoPass THEN {env}
  ELSE IF Encrypted THEN {g \in {first} : tty}
  ELSE IF Exists \/ noEncrypt \/ ~tty THEN {NoPass}
  ELSE {first} \cap {NoPass, second}

Resolve(p) ==
  /\ pc[p] = "off"
  /\ Overlap \/ \A o \in Procs : pc[o] = "off"
  /\ \E env, first, second \in Given, tty, noEncrypt \in BOOLEAN :
       \E g \in Resolved(env, tty, noEncrypt, first, second) :
         given' = [given EXCEPT ![p] = g]
  /\ pc' = [pc EXCEPT ![p] = "load"]
  /\ UNCHANGED <<files, identity, drawn, history>>

-----------------------------------------------------------------------------
(* load_or_create *)

\* Identity.load does not raise.  A plain file asks for no passphrase.
Unlocks(contents, g) == contents # Torn /\ contents.key \in {NoPass, g}

Load(p) ==
  /\ pc[p] = "load" /\ Exists
  /\ Unlocks(data[path], given[p])
  /\ identity' = [identity EXCEPT ![p] = data[path].id]
  /\ used' = used \cup {data[path].id}
  /\ opened' = opened \cup
       IF Encrypted THEN {<<data[path].id, given[p]>>} ELSE {}
  /\ pc' = [pc EXCEPT ![p] = "ready"]
  /\ UNCHANGED <<files, given, drawn, secret>>

\* A wrong or missing passphrase, or a file that is not JSON: the command ends.
LoadFails(p) ==
  /\ pc[p] = "load" /\ Exists
  /\ ~Unlocks(data[path], given[p])
  /\ pc' = [pc EXCEPT ![p] = "off"]
  /\ UNCHANGED <<files, given, identity, drawn, history>>

\* Variant: the identity is used before it is saved.
GenerateUnsaved(p) ==
  /\ pc[p] = "load" /\ ~Exists
  /\ \E i \in Ids \ drawn :
       /\ identity' = [identity EXCEPT ![p] = i]
       /\ drawn' = drawn \cup {i}
       /\ secret' = secret \cup IF given[p] # NoPass THEN {i} ELSE {}
       /\ used' = used \cup {i}
  /\ pc' = [pc EXCEPT ![p] = "save"]
  /\ UNCHANGED <<files, given, opened>>

\* There is no file: generate, and save begins.
Generate(p) ==
  /\ pc[p] = "load" /\ ~Exists
  /\ \E i \in Ids \ drawn :
       /\ identity' = [identity EXCEPT ![p] = i]
       /\ drawn' = drawn \cup {i}
       /\ secret' = secret \cup IF given[p] # NoPass THEN {i} ELSE {}
  /\ pc' = [pc EXCEPT ![p] = "save"]
  /\ UNCHANGED <<files, given, used, opened>>

-----------------------------------------------------------------------------
(* Identity.save *)

OpenTmp(p) ==
  /\ pc[p] = "save"
  /\ Open(p)
  /\ pc' = [pc EXCEPT ![p] = "opened"]
  /\ UNCHANGED <<given, identity, drawn, history>>

Text(p) == [id |-> identity[p], key |-> given[p]]

Write(p) ==
  /\ pc[p] = "opened"
  /\ Dump(p, Text(p))
  /\ pc' = [pc EXCEPT ![p] = "written"]
  /\ UNCHANGED <<given, identity, drawn, history>>

Replace(p) ==
  /\ pc[p] = "written"
  /\ Rename
  /\ used' = used \cup {identity[p]}
  /\ pc' = [pc EXCEPT ![p] = "ready"]
  /\ UNCHANGED <<given, identity, drawn, secret, opened>>

\* The end of the command, or an exception out of save.
Ends(p) ==
  /\ pc[p] # "off"
  /\ Abandon(p)
  /\ pc' = [pc EXCEPT ![p] = "off"]
  /\ given' = [given EXCEPT ![p] = NoPass]
  /\ identity' = [identity EXCEPT ![p] = None]
  /\ UNCHANGED <<drawn, history>>

Init ==
  /\ NoFiles
  /\ pc = [p \in Procs |-> "off"]
  /\ given = [p \in Procs |-> NoPass]
  /\ identity = [p \in Procs |-> None]
  /\ drawn = {} /\ secret = {} /\ used = {} /\ opened = {}

Next ==
  \E p \in Procs :
    \/ Resolve(p)
    \/ Load(p)
    \/ LoadFails(p)
    \/ Generate(p)
    \/ OpenTmp(p)
    \/ Write(p)
    \/ Replace(p)
    \/ Ends(p)

Spec == Init /\ [][Next]_vars

-----------------------------------------------------------------------------
(* Properties *)

\* An identity whose creator gave a passphrase is in no file without it, the
\* temporary one included, whoever else runs a command on the file
\* (resolve_passphrase, Identity.save).
SecretStaysEncrypted ==
  \A i \in Inodes : data[i] # Torn /\ data[i].id \in secret => data[i].key # NoPass

\* While one command runs at a time, every one that gets to work does so with
\* one and the same identity, whenever an earlier one ended
\* (load_or_create: a key pair is drawn once, and in use only once it is saved).
OneIdentity == \A i, j \in used : i = j

\* An encrypted identity opens with one passphrase only, the one it was created
\* with, also when commands with different ones create the file at once
\* (Identity.load).
OnePassphrase == \A x, y \in opened : x[1] = y[1] => x[2] = y[2]
=============================================================================
