----------------------------- MODULE TrustFile -----------------------------
(***************************************************************************)
(* The trust file (crypto/identity.py, TrustStore) and the processes that  *)
(* use it: `chatbit chat`, which pins the peers of completed handshakes,   *)
(* and `chatbit peers --verify` (cli.py), which asks the user to compare   *)
(* the safety number and marks the peer.  Each reads the whole file when   *)
(* it starts, changes its copy, and saves the whole copy (AtomicSave).  A  *)
(* process may end at any point.                                           *)
(*                                                                         *)
(* repin and forget have no caller in the program; Handshake has them.     *)
(***************************************************************************)
EXTENDS AtomicSave

CONSTANTS
  Peers, Statics,  \* signing keys of the others, static keys they may show
  Chats,           \* the processes that chat; the others run peers --verify
  Overlap,         \* two processes may run at once
  MaxFailures      \* bound on the saves that fail for want of disk space

ASSUME TrustFileAssumption ==
  /\ Chats \subseteq Procs
  /\ Overlap \in BOOLEAN
  /\ MaxFailures \in Nat

Pin == [static : Statics, verified : BOOLEAN]
Store == [Peers -> Pin \cup {None}]
Job == [kind : {"pin", "nick", "verify"}, peer : Peers, static : Statics]

ASSUME NoPinAssumption ==
  /\ None \notin Pin
  /\ Torn \notin Store

VARIABLES
  pc,          \* where a process is
  mem,         \* TrustStore._peers of a process
  job,         \* what it saves for
  failures,    \* saves that failed so far
  accepted,    \* the keys observe returned for a peer     (history)
  compared,    \* the keys the user compared               (history)
  recorded     \* the keys mark_verified returned for      (history)

vars == <<files, pc, mem, job, failures, accepted, compared, recorded>>
history == <<accepted, compared, recorded>>

Empty == [q \in Peers |-> None]

\* The variables hold what the code's fields and the disk can hold.
TypeOK ==
  /\ FilesOK(Store)
  /\ pc \in [Procs -> {"off", "ready", "save", "opened", "written"}]
  /\ mem \in [Procs -> Store]
  /\ job \in [Procs -> Job \cup {None}]
  /\ failures \in 0 .. MaxFailures
  /\ accepted \subseteq Peers \X Statics
  /\ compared \subseteq Peers \X Statics
  /\ recorded \subseteq compared

-----------------------------------------------------------------------------
\* _load, from the inode the path names.
Read(i) == data[i]

\* TrustStore.__init__.  A torn file is an exception: the process does not run.
Start(p) ==
  /\ pc[p] = "off"
  /\ Overlap \/ \A o \in Procs : pc[o] = "off"
  /\ path # None => data[path] # Torn
  /\ mem' = [mem EXCEPT ![p] = IF path = None THEN Empty ELSE Read(path)]
  /\ pc' = [pc EXCEPT ![p] = "ready"]
  /\ UNCHANGED <<files, job, failures, history>>

Save(p, j) ==
  /\ job' = [job EXCEPT ![p] = j]
  /\ pc' = [pc EXCEPT ![p] = "save"]

\* Variant: a pinned peer that shows another key is pinned to that one.
ObserveNewest(p, q, s) ==
  /\ p \in Chats /\ pc[p] = "ready"
  /\ mem' = [mem EXCEPT ![p][q] =
                [static |-> s, verified |-> @ # None /\ @.verified]]
  /\ Save(p, [kind |-> "pin", peer |-> q, static |-> s])
  /\ UNCHANGED <<files, failures, history>>

\* observe: an unknown peer is pinned in memory and saved, a known one must
\* show its key (KeyChangedError otherwise, and nothing changes), and is saved
\* again if its nickname is new.
Observe(p, q, s) ==
  /\ p \in Chats /\ pc[p] = "ready"
  /\ UNCHANGED <<files, failures, compared, recorded>>
  /\ \/ /\ mem[p][q] = None
        /\ mem' = [mem EXCEPT ![p][q] = [static |-> s, verified |-> FALSE]]
        /\ Save(p, [kind |-> "pin", peer |-> q, static |-> s])
        /\ UNCHANGED accepted
     \/ /\ mem[p][q] # None /\ mem[p][q].static = s
        /\ Save(p, [kind |-> "nick", peer |-> q, static |-> s])
        /\ UNCHANGED <<mem, accepted>>
     \/ /\ mem[p][q] # None /\ mem[p][q].static = s
        /\ accepted' = accepted \cup {<<q, s>>}
        /\ UNCHANGED <<mem, pc, job>>

\* The user answered y: mark_verified.
MarkVerified(p, q) ==
  /\ p \notin Chats /\ pc[p] = "ready"
  /\ mem[p][q] # None
  /\ mem' = [mem EXCEPT ![p][q].verified = TRUE]
  /\ Save(p, [kind |-> "verify", peer |-> q, static |-> mem[p][q].static])
  /\ compared' = compared \cup {<<q, mem[p][q].static>>}
  /\ UNCHANGED <<files, failures, accepted, recorded>>

-----------------------------------------------------------------------------
(* _save *)

OpenTmp(p) ==
  /\ pc[p] = "save"
  /\ Open(p)
  /\ pc' = [pc EXCEPT ![p] = "opened"]
  /\ UNCHANGED <<mem, job, failures, history>>

Write(p) ==
  /\ pc[p] = "opened"
  /\ Dump(p, mem[p])
  /\ pc' = [pc EXCEPT ![p] = "written"]
  /\ UNCHANGED <<mem, job, failures, history>>

\* observe and mark_verified return: what the save was for is done.
Returned(j) ==
  /\ accepted' = accepted \cup
       IF j.kind = "verify" THEN {} ELSE {<<j.peer, j.static>>}
  /\ recorded' = recorded \cup
       IF j.kind = "verify" THEN {<<j.peer, j.static>>} ELSE {}
  /\ UNCHANGED compared

\* A chat goes on, whether _save returned or raised (Node._receive_loop
\* suppresses the exception); peers --verify is over.
GoesOn(p) ==
  /\ pc' = [pc EXCEPT ![p] = IF p \in Chats THEN "ready" ELSE "off"]
  /\ mem' = IF p \in Chats THEN mem ELSE [mem EXCEPT ![p] = Empty]
  /\ job' = [job EXCEPT ![p] = None]

Replace(p) ==
  /\ pc[p] = "written"
  /\ Rename
  /\ Returned(job[p])
  /\ GoesOn(p)
  /\ UNCHANGED failures

\* Another process renamed the temporary file: FileNotFoundError.
ReplaceFails(p) ==
  /\ pc[p] = "written"
  /\ ~CanRename
  /\ GoesOn(p)
  /\ UNCHANGED <<files, failures, history>>

\* The disk is full, or the directory may not be written.  The change stays
\* in memory.
SaveFails(p) ==
  /\ pc[p] \in {"save", "opened"}
  /\ failures < MaxFailures
  /\ failures' = failures + 1
  /\ Abandon(p)
  /\ GoesOn(p)
  /\ UNCHANGED history

\* The process ends, by /quit, a signal or a crash.
Ends(p) ==
  /\ pc[p] # "off"
  /\ Abandon(p)
  /\ pc' = [pc EXCEPT ![p] = "off"]
  /\ mem' = [mem EXCEPT ![p] = Empty]
  /\ job' = [job EXCEPT ![p] = None]
  /\ UNCHANGED <<failures, history>>

-----------------------------------------------------------------------------
Init ==
  /\ NoFiles
  /\ pc = [p \in Procs |-> "off"]
  /\ mem = [p \in Procs |-> Empty]
  /\ job = [p \in Procs |-> None]
  /\ failures = 0
  /\ accepted = {} /\ compared = {} /\ recorded = {}

Next ==
  \E p \in Procs :
    \/ Start(p)
    \/ \E q \in Peers : \E s \in Statics : Observe(p, q, s)
    \/ \E q \in Peers : MarkVerified(p, q)
    \/ OpenTmp(p)
    \/ Write(p)
    \/ Replace(p)
    \/ ReplaceFails(p)
    \/ SaveFails(p)
    \/ Ends(p)

Spec == Init /\ [][Next]_vars

-----------------------------------------------------------------------------
(* Properties *)

OnDisk == IF path = None THEN Empty ELSE data[path]

\* "Once pinned, a key never changes silently" (TrustStore): the program never
\* takes two different keys of a peer for its own, also not before and after a
\* restart.
OneKey == \A x, y \in accepted : x[1] = y[1] => x = y

\* "Record that the user compared safety numbers out of band" (mark_verified):
\* a peer that was marked is verified on disk, with the key that was compared.
ComparedStaysVerified ==
  \A x \in recorded :
    OnDisk # Torn /\ OnDisk[x[1]] = [static |-> x[2], verified |-> TRUE]

\* No process ever shows a key as verified that the user did not compare, not
\* even when processes overwrite each other's file or fail to save.
VerifiedWasCompared ==
  \A p \in Procs : \A q \in Peers :
    mem[p][q] # None /\ mem[p][q].verified => <<q, mem[p][q].static>> \in compared
=============================================================================
