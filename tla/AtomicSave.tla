----------------------------- MODULE AtomicSave -----------------------------
(***************************************************************************)
(* How the program saves a file (Identity.save and TrustStore._save): it   *)
(* writes <name>.tmp and renames it to <name>.  The temporary name is the  *)
(* same in every process.                                                  *)
(*                                                                         *)
(* A file is an inode: open(tmp, "w") truncates the inode that tmp names,  *)
(* and a rename takes nothing from a process that has the inode open.      *)
(***************************************************************************)
EXTENDS Naturals, FiniteSets

CONSTANTS Procs,   \* the processes that use the file
          Inodes,  \* enough of them for one to be always free
          None,    \* no inode                    (a model value)
          Torn     \* bytes that are not a whole file of the program's

ASSUME AtomicSaveAssumption ==
  /\ IsFiniteSet(Inodes) /\ IsFiniteSet(Procs)
  /\ Cardinality(Inodes) >= Cardinality(Procs) + 2
  /\ None \notin Inodes

VARIABLES path, tmp,  \* the inodes the two names stand for, or None
          data,       \* what an inode holds
          fd          \* fd[p]: the inode p has open for writing, or None

files == <<path, tmp, data, fd>>

FilesOK(texts) ==
  /\ path \in Inodes \cup {None} /\ tmp \in Inodes \cup {None}
  /\ data \in [Inodes -> texts \cup {Torn}]
  /\ fd \in [Procs -> Inodes \cup {None}]

NoFiles ==
  /\ path = None /\ tmp = None
  /\ data = [i \in Inodes |-> Torn]
  /\ fd = [p \in Procs |-> None]

Free == {i \in Inodes : i # path /\ i # tmp /\ \A p \in Procs : i # fd[p]}

\* Variant: the file itself is opened for writing.
OpenInPlace(p) ==
  LET i == IF path # None THEN path ELSE CHOOSE x \in Free : TRUE
  IN  /\ path' = i /\ tmp' = i
      /\ data' = [data EXCEPT ![i] = Torn]
      /\ fd' = [fd EXCEPT ![p] = i]

\* open(tmp, "w")
Open(p) ==
  LET i == IF tmp # None THEN tmp ELSE CHOOSE x \in Free : TRUE
  IN  /\ tmp' = i
      /\ data' = [data EXCEPT ![i] = Torn]
      /\ fd' = [fd EXCEPT ![p] = i]
      /\ UNCHANGED path

\* json.dump and close.  Where another process wrote since the file was
\* opened, the end of a longer text shows behind this one.
Dump(p, text) ==
  LET held == data[fd[p]]
  IN  /\ \E t \in {text} \cup (IF held \in {Torn, text} THEN {} ELSE {Torn}) :
           data' = [data EXCEPT ![fd[p]] = t]
      /\ fd' = [fd EXCEPT ![p] = None]
      /\ UNCHANGED <<path, tmp>>

\* os.chmod and os.replace; both fail if another process renamed tmp before.
CanRename == tmp # None
Rename ==
  /\ CanRename
  /\ path' = tmp /\ tmp' = None
  /\ UNCHANGED <<data, fd>>

\* A write that fails, or a process that ends: some of the buffer may have
\* reached the file.
Abandon(p) ==
  /\ \/ UNCHANGED data
     \/ /\ fd[p] # None
        /\ data' = [data EXCEPT ![fd[p]] = Torn]
  /\ fd' = [fd EXCEPT ![p] = None]
  /\ UNCHANGED <<path, tmp>>
=============================================================================
