------------------------ MODULE IdentityFileProofs ------------------------
(***************************************************************************)
(* What holds of the identity file whatever identities are drawn, whatever *)
(* passphrases are set or typed, however many commands run, and whenever   *)
(* they end: what commands that overlap cannot break, and what one command *)
(* after the other makes of the file.                                      *)
(***************************************************************************)
EXTENDS IdentityFile, FiniteSetTheorems, TLAPS

-----------------------------------------------------------------------------
(* What the steps do to the disk.                                          *)

\* While there is no temporary file, an inode is free to become it: the path
\* and the open files of the processes leave one over.
LEMMA FreeInode ==
  ASSUME tmp = None, fd \in [Procs -> Inodes \cup {None}]
  PROVE  Free # {}
<1> DEFINE held == {fd[p] : p \in Procs}
           taken == held \cup {path}
<1>1. IsFiniteSet(held) /\ Cardinality(held) <= Cardinality(Procs)
  <2>1. fd \in Surjection(Procs, held)
    BY DEF Surjection
  <2>. QED
    BY <2>1, FS_Surjection, AtomicSaveAssumption
<1>2. IsFiniteSet(taken) /\ Cardinality(taken) <= Cardinality(Procs) + 1
  <2>1. /\ IsFiniteSet(taken)
        /\ Cardinality(taken) = IF path \in held THEN Cardinality(held)
                               ELSE Cardinality(held) + 1
    BY <1>1, FS_AddElement
  <2>2. Cardinality(held) \in Nat /\ Cardinality(Procs) \in Nat
    BY <1>1, FS_CardinalityType, AtomicSaveAssumption
  <2>. QED
    BY <1>1, <2>1, <2>2
<1>3. ~(Inodes \subseteq taken)
  <2>1. SUFFICES ASSUME Inodes \subseteq taken PROVE FALSE
    OBVIOUS
  <2>2. Cardinality(Inodes) <= Cardinality(taken)
    BY <1>2, <2>1, FS_Subset
  <2>3. /\ Cardinality(Inodes) \in Nat /\ Cardinality(Procs) \in Nat
        /\ Cardinality(taken) \in Nat
    BY <1>2, FS_CardinalityType, AtomicSaveAssumption
  <2>. QED
    BY <1>2, <2>2, <2>3, AtomicSaveAssumption
<1>. QED
  BY <1>3, AtomicSaveAssumption DEF Free

\* open(tmp, "w") empties an inode that is not the file's and gives it to the
\* process.
LEMMA OpenTakes ==
  ASSUME NEW texts, FilesOK(texts), NEW p \in Procs, Open(p)
  PROVE  /\ tmp' \in Inodes
         /\ tmp = None \/ tmp' = tmp
         /\ tmp = None => tmp' # path
         /\ data' = [data EXCEPT ![tmp'] = Torn]
         /\ fd' = [fd EXCEPT ![p] = tmp']
         /\ path' = path
<1> DEFINE i == IF tmp # None THEN tmp ELSE CHOOSE x \in Free : TRUE
<1>1. CASE tmp # None
  BY <1>1 DEF Open, FilesOK
<1>2. CASE tmp = None
  <2>1. (CHOOSE x \in Free : TRUE) \in Free
    BY <1>2, FreeInode DEF FilesOK
  <2>2. i \in Inodes /\ i # path
    BY <1>2, <2>1 DEF Free
  <2>. QED
    BY <1>2, <2>2 DEF Open
<1>. QED
  BY <1>1, <1>2

\* A step on the disk keeps its types, and puts nothing into an inode but the text
\* that the process writes, or bytes of no text.
LEMMA DiskSteps ==
  ASSUME NEW texts, FilesOK(texts), NEW p \in Procs, NEW text \in texts,
         \/ Open(p) \/ Dump(p, text) \/ Rename \/ Abandon(p)
         \/ UNCHANGED files
  PROVE  /\ FilesOK(texts)'
         /\ \A i \in Inodes : data'[i] \in {text, data[i], Torn}
<1>1. CASE Open(p)
  BY <1>1, OpenTakes DEF FilesOK
<1>2. CASE Dump(p, text)
  <2>1. PICK t \in {text, Torn} : data' = [data EXCEPT ![fd[p]] = t]
    BY <1>2 DEF Dump
  <2>. QED
    BY <1>2, <2>1 DEF Dump, FilesOK
<1>3. CASE Rename
  BY <1>3 DEF Rename, FilesOK
<1>4. CASE Abandon(p)
  BY <1>4 DEF Abandon, FilesOK
<1>5. CASE UNCHANGED files
  BY <1>5 DEF files, FilesOK
<1>. QED
  BY <1>1, <1>2, <1>3, <1>4, <1>5

-----------------------------------------------------------------------------
(* What holds whatever overlaps.  Every identity that was drawn has one      *)
(* passphrase, the one its creator gave: in every inode that has it, with    *)
(* the command that saves it, and with everyone who opened it.               *)

InSave == {"save", "opened", "written"}

\* What a command works with, or saves, and what lies on the disk, was drawn.
DrawnInv ==
  /\ \A p \in Procs : pc[p] \in InSave \cup {"ready"} => identity[p] \in drawn
  /\ \A i \in Inodes : data[i] # Torn => data[i].id \in drawn
  /\ \A x \in opened : x[1] \in drawn

\* keys[i]: the passphrase that belongs to identity i.
Fits(keys) ==
  /\ \A i \in Inodes : data[i] # Torn => data[i].key = keys[data[i].id]
  /\ \A p \in Procs : pc[p] \in InSave => given[p] = keys[identity[p]]
  /\ \A x \in opened : x[2] = keys[x[1]]
  /\ \A i \in secret : keys[i] # NoPass

KeyInv == \E keys \in [Ids -> Given] : Fits(keys)

FileInv == TypeOK /\ DrawnInv /\ KeyInv

Assumptions == IdentityFileAssumption /\ NoTextAssumption

\* No file, and nothing drawn.
LEMMA FileStart ==
  ASSUME Assumptions, Init
  PROVE  FileInv
<1>1. TypeOK
  BY DEF Init, TypeOK, NoFiles, FilesOK, Given
<1>2. DrawnInv
  BY DEF Init, DrawnInv, InSave, NoFiles
<1>3. KeyInv
  <2> DEFINE keys == [i \in Ids |-> NoPass]
  <2>1. keys \in [Ids -> Given]
    BY DEF Given
  <2>2. Fits(keys)
    BY DEF Init, Fits, InSave, NoFiles
  <2>. QED
    BY <2>1, <2>2 DEF KeyInv
<1>. QED
  BY <1>1, <1>2, <1>3 DEF FileInv

\* A command chooses a passphrase before it has an identity.
LEMMA ResolveKeeps ==
  ASSUME FileInv, NEW p \in Procs, Resolve(p)
  PROVE  FileInv'
<1>1. PICK g \in Given : given' = [given EXCEPT ![p] = g]
  BY DEF Resolve, Resolved, Given
<1>2. /\ pc' = [pc EXCEPT ![p] = "load"]
      /\ path' = path /\ tmp' = tmp /\ data' = data /\ fd' = fd
      /\ UNCHANGED <<identity, drawn, secret, used, opened>>
  BY DEF Resolve, files, history
<1>3. TypeOK'
  BY <1>1, <1>2 DEF FileInv, TypeOK, FilesOK
<1>4. DrawnInv'
  BY <1>2 DEF FileInv, TypeOK, DrawnInv, InSave
<1>5. KeyInv'
  BY <1>1, <1>2 DEF FileInv, TypeOK, KeyInv, Fits, InSave
<1>. QED
  BY <1>3, <1>4, <1>5 DEF FileInv

\* A command gets to work with what lies on the disk; an encrypted identity it
\* opened with the passphrase that belongs to it.
LEMMA LoadKeeps ==
  ASSUME FileInv, Assumptions, NEW p \in Procs, Load(p)
  PROVE  FileInv'
<1> DEFINE text == data[path]
<1>1. path \in Inodes /\ text # Torn /\ text.key \in {NoPass, given[p]}
  BY DEF Load, Exists, Unlocks, FileInv, TypeOK, FilesOK
<1>2. text \in Contents /\ text.id \in drawn
  BY <1>1 DEF FileInv, TypeOK, FilesOK, DrawnInv
<1>3. text.id \in Ids /\ text.key \in Given
  BY <1>2 DEF Contents
<1>4. /\ pc' = [pc EXCEPT ![p] = "ready"]
      /\ identity' = [identity EXCEPT ![p] = text.id]
      /\ used' = used \cup {text.id}
      /\ path' = path /\ tmp' = tmp /\ data' = data /\ fd' = fd
      /\ UNCHANGED <<given, drawn, secret>>
  BY DEF Load, files
<1>5. \/ opened' = opened
      \/ /\ text.key # NoPass /\ text.key = given[p]
         /\ opened' = opened \cup {<<text.id, given[p]>>}
  BY <1>1 DEF Load, Encrypted
<1> HIDE DEF text
<1>6. opened' \subseteq Ids \X Passphrases
  BY <1>3, <1>5 DEF FileInv, TypeOK, Given
<1>7. TypeOK'
  BY <1>2, <1>3, <1>4, <1>6 DEF FileInv, TypeOK, FilesOK
<1>8. DrawnInv'
  BY <1>2, <1>4, <1>5 DEF FileInv, TypeOK, DrawnInv, InSave
<1>9. PICK keys \in [Ids -> Given] : Fits(keys)
  BY DEF FileInv, KeyInv
<1>10. text.key = keys[text.id]
  BY <1>1, <1>9 DEF Fits, text
<1>11. Fits(keys)'
  BY <1>4, <1>5, <1>9, <1>10 DEF Fits, InSave, FileInv, TypeOK
<1>. QED
  BY <1>7, <1>8, <1>11 DEF FileInv, KeyInv

\* A new identity takes the passphrase of its creator; nothing was written,
\* saved or opened with it before.
LEMMA GenerateKeeps ==
  ASSUME FileInv, NEW p \in Procs, Generate(p)
  PROVE  FileInv'
<1>1. PICK i \in Ids \ drawn :
        /\ identity' = [identity EXCEPT ![p] = i]
        /\ drawn' = drawn \cup {i}
        /\ secret' = secret \cup IF given[p] # NoPass THEN {i} ELSE {}
  BY DEF Generate
<1>2. /\ pc' = [pc EXCEPT ![p] = "save"]
      /\ path' = path /\ tmp' = tmp /\ data' = data /\ fd' = fd
      /\ UNCHANGED <<given, used, opened>>
  BY DEF Generate, files
<1>3. TypeOK'
  BY <1>1, <1>2 DEF FileInv, TypeOK, FilesOK
<1>4. DrawnInv'
  BY <1>1, <1>2 DEF FileInv, TypeOK, DrawnInv, InSave
<1>5. PICK keys \in [Ids -> Given] : Fits(keys)
  BY DEF FileInv, KeyInv
<1> PICK g \in Given : g = given[p]
  BY DEF FileInv, TypeOK
<1>6. PICK more \in [Ids -> Given] :
        more[i] = given[p] /\ \A j \in drawn : more[j] = keys[j]
  <2>1. [keys EXCEPT ![i] = g] \in [Ids -> Given]
    OBVIOUS
  <2>. QED
    BY <1>1, <2>1 DEF FileInv, TypeOK
<1>7. ASSUME NEW o \in Procs, pc'[o] \in InSave
      PROVE  given'[o] = more[identity'[o]]
  <2>1. CASE o = p
    BY <1>1, <1>2, <1>6, <2>1 DEF FileInv, TypeOK
  <2>2. CASE o # p
    BY <1>1, <1>2, <1>5, <1>6, <1>7, <2>2 DEF FileInv, TypeOK, DrawnInv, Fits
  <2>. QED
    BY <2>1, <2>2
<1>8. \A k \in Inodes : data'[k] # Torn => data'[k].key = more[data'[k].id]
  BY <1>2, <1>5, <1>6 DEF FileInv, DrawnInv, Fits
<1>9. \A x \in opened' : x[2] = more[x[1]]
  BY <1>2, <1>5, <1>6 DEF FileInv, DrawnInv, Fits
<1>10. \A j \in secret' : more[j] # NoPass
  BY <1>1, <1>5, <1>6 DEF FileInv, TypeOK, Fits
<1>11. Fits(more)'
  BY <1>7, <1>8, <1>9, <1>10 DEF Fits
<1>. QED
  BY <1>3, <1>4, <1>6, <1>11 DEF FileInv, KeyInv

\* The steps of a save, and the end of a command: what comes to the disk is what
\* the command that is about to write saves.
LEMMA DiskKeeps ==
  ASSUME FileInv, NEW p \in Procs,
         \/ Open(p) \/ (pc[p] = "opened" /\ Dump(p, Text(p))) \/ Rename \/ Abandon(p)
         \/ UNCHANGED files,
         pc' \in [Procs -> {"off", "load", "ready"} \cup InSave],
         given' \in [Procs -> Given], identity' \in [Procs -> Ids \cup {None}],
         \A o \in Procs :
           /\ pc'[o] \in InSave => pc[o] \in InSave
           /\ pc'[o] = "ready" => pc[o] \in InSave \cup {"ready"}
           /\ pc'[o] \in InSave \cup {"ready"} =>
                given'[o] = given[o] /\ identity'[o] = identity[o],
         used' \in SUBSET drawn,
         UNCHANGED <<drawn, secret, opened>>
  PROVE  FileInv'
<1>1. FilesOK(Contents)' /\
        \A i \in Inodes : \/ data'[i] \in {data[i], Torn}
                          \/ pc[p] = "opened" /\ data'[i] = Text(p)
  <2>1. CASE pc[p] = "opened"
    <3>1. Text(p) \in Contents
      BY <2>1 DEF FileInv, TypeOK, DrawnInv, InSave, Text, Contents
    <3>2. FilesOK(Contents)
      BY DEF FileInv, TypeOK
    <3>3. /\ FilesOK(Contents)'
          /\ \A i \in Inodes : data'[i] \in {Text(p), data[i], Torn}
      BY <3>1, <3>2, DiskSteps
    <3>. QED
      BY <2>1, <3>3
  <2>2. CASE pc[p] # "opened"
    <3>1. FilesOK(Contents)
      BY DEF FileInv, TypeOK
    <3>2. CASE Open(p)
      BY <3>1, <3>2, OpenTakes DEF FilesOK
    <3>3. CASE Rename
      BY <3>1, <3>3 DEF Rename, FilesOK
    <3>4. CASE Abandon(p)
      BY <3>1, <3>4 DEF Abandon, FilesOK
    <3>5. CASE UNCHANGED files
      BY <3>1, <3>5 DEF files, FilesOK
    <3>. QED
      BY <2>2, <3>2, <3>3, <3>4, <3>5
  <2>. QED
    BY <2>1, <2>2
<1>2. TypeOK'
  BY <1>1 DEF FileInv, TypeOK, InSave
<1>3. pc[p] = "opened" =>
        Text(p).id = identity[p] /\ Text(p).key = given[p] /\ identity[p] \in drawn
  BY DEF Text, FileInv, DrawnInv, InSave
<1>4. DrawnInv'
  BY <1>1, <1>3 DEF FileInv, DrawnInv
<1>5. PICK keys \in [Ids -> Given] : Fits(keys)
  BY DEF FileInv, KeyInv
<1>6. pc[p] = "opened" => Text(p).key = keys[Text(p).id]
  BY <1>3, <1>5 DEF Fits, InSave
<1>7. Fits(keys)'
  BY <1>1, <1>5, <1>6 DEF Fits
<1>. QED
  BY <1>2, <1>4, <1>7 DEF FileInv, KeyInv

\* The invariant is inductive.
LEMMA FileStep ==
  ASSUME Assumptions, FileInv, [Next]_vars
  PROVE  FileInv'
<1>0. /\ TypeOK /\ DrawnInv
      /\ pc \in [Procs -> {"off", "load", "ready"} \cup InSave]
  BY DEF FileInv, TypeOK, InSave
<1>1. ASSUME NEW p \in Procs, LoadFails(p) PROVE FileInv'
  BY <1>0, <1>1, DiskKeeps DEF LoadFails, history, TypeOK, InSave
<1>2. ASSUME NEW p \in Procs, OpenTmp(p) PROVE FileInv'
  BY <1>0, <1>2, DiskKeeps DEF OpenTmp, history, TypeOK, InSave
<1>3. ASSUME NEW p \in Procs, Write(p) PROVE FileInv'
  BY <1>0, <1>3, DiskKeeps DEF Write, history, TypeOK, InSave
<1>4. ASSUME NEW p \in Procs, Replace(p) PROVE FileInv'
  <2>1. used' \in SUBSET drawn
    BY <1>0, <1>4 DEF Replace, TypeOK, DrawnInv, InSave
  <2>. QED
    BY <1>0, <1>4, <2>1, DiskKeeps DEF Replace, TypeOK, InSave
<1>5. ASSUME NEW p \in Procs, Ends(p) PROVE FileInv'
  <2>1. NoPass \in Given
    BY DEF Given
  <2>. QED
    BY <1>0, <1>5, <2>1, DiskKeeps DEF Ends, history, TypeOK, InSave
<1>6. CASE UNCHANGED vars
  <2>1. UNCHANGED <<path, tmp, data, fd, pc, given, identity, drawn, secret,
                    used, opened>>
    BY <1>6 DEF vars, files
  <2>. QED
    BY <2>1 DEF FileInv, TypeOK, FilesOK, DrawnInv, KeyInv, Fits
<1>. QED
  BY <1>1, <1>2, <1>3, <1>4, <1>5, <1>6, ResolveKeeps, LoadKeeps, GenerateKeeps
     DEF Next

\* It holds whatever overlaps.
LEMMA FileInvariant ==
  ASSUME Assumptions
  PROVE  Spec => []FileInv
<1>1. Init => FileInv
  BY FileStart
<1>2. FileInv /\ [Next]_vars => FileInv'
  BY FileStep
<1>. QED
  BY <1>1, <1>2, PTL DEF Spec

\* Type correctness, for any commands on any disk.
THEOREM TypeCorrect ==
  ASSUME Assumptions
  PROVE  Spec => []TypeOK
<1>1. FileInv => TypeOK
  BY DEF FileInv
<1>. QED
  BY <1>1, FileInvariant, PTL

\* An identity whose creator gave a passphrase lies in no file without it,
\* whatever other commands create, write or leave behind at the same time.
THEOREM NeverPlain ==
  ASSUME Assumptions
  PROVE  Spec => []SecretStaysEncrypted
<1>1. FileInv => SecretStaysEncrypted
  BY DEF FileInv, KeyInv, Fits, SecretStaysEncrypted
<1>. QED
  BY <1>1, FileInvariant, PTL

\* An encrypted identity opens with one passphrase only, also when commands
\* with different ones created the file at once.
THEOREM OpensWithOne ==
  ASSUME Assumptions
  PROVE  Spec => []OnePassphrase
<1>1. FileInv => OnePassphrase
  BY DEF FileInv, KeyInv, Fits, OnePassphrase
<1>. QED
  BY <1>1, FileInvariant, PTL

-----------------------------------------------------------------------------
(* What holds while one command runs at a time.  Until an identity lies at   *)
(* the path, nobody works with one, and the one that is saved then is the    *)
(* only one from there on.                                                   *)

OneAtATime == \A p, o \in Procs : pc[p] # "off" /\ pc[o] # "off" => p = o

PathWhole == path # None => path # tmp /\ data[path] # Torn

Saving(p) ==
  /\ pc[p] \in InSave => path = None
  /\ pc[p] = "opened" => tmp # None /\ fd[p] = tmp /\ data[tmp] = Torn
  /\ pc[p] = "written" => tmp # None /\ data[tmp] = Text(p)
  /\ pc[p] # "opened" => fd[p] = None

UsedIsOnDisk == \A i \in used : path # None /\ data[path].id = i

AloneInv ==
  /\ OneAtATime
  /\ PathWhole
  /\ \A p \in Procs : Saving(p)
  /\ UsedIsOnDisk

\* Nobody runs.
LEMMA AloneStart == Init => AloneInv
BY DEF Init, AloneInv, OneAtATime, PathWhole, Saving, InSave, UsedIsOnDisk, NoFiles

\* A step of the one command that runs, by what it has to keep.
LEMMA OneCommand ==
  ASSUME AloneInv, NEW p \in Procs,
         \A o \in Procs : o # p => pc[o] = "off",
         \A o \in Procs : o # p => pc'[o] = pc[o] /\ fd'[o] = fd[o],
         PathWhole', Saving(p)', UsedIsOnDisk'
  PROVE  AloneInv'
<1>1. ASSUME NEW o \in Procs, o # p PROVE Saving(o)'
  BY <1>1 DEF AloneInv, Saving, InSave
<1>. QED
  BY <1>1 DEF AloneInv, OneAtATime

\* The same, where the step shows nothing on the disk.
LEMMA NothingShows ==
  ASSUME AloneInv, NEW p \in Procs,
         \A o \in Procs : o # p => pc[o] = "off",
         \A o \in Procs : o # p => pc'[o] = pc[o] /\ fd'[o] = fd[o],
         path' = path, path # None => data'[path] = data[path] /\ tmp' # path,
         used' = used, Saving(p)'
  PROVE  AloneInv'
<1>1. PathWhole' /\ UsedIsOnDisk'
  BY DEF AloneInv, PathWhole, UsedIsOnDisk
<1>. QED
  BY <1>1, OneCommand

\* What every step that leaves the disk alone keeps.
LEMMA DiskAlone ==
  ASSUME FileInv, AloneInv, NEW p \in Procs, \A o \in Procs : o # p => pc[o] = "off",
         NEW at \in {"off", "load", "ready", "save"},
         pc' = [pc EXCEPT ![p] = at], UNCHANGED files,
         pc[p] # "opened", at = "save" => path = None,
         UsedIsOnDisk'
  PROVE  AloneInv'
<1>1. /\ pc \in [Procs -> {"off", "load", "ready"} \cup InSave]
      /\ path' = path /\ tmp' = tmp /\ data' = data /\ fd' = fd
  BY DEF FileInv, TypeOK, InSave, files
<1>2. Saving(p)'
  BY <1>1 DEF AloneInv, Saving, InSave
<1>3. PathWhole'
  BY <1>1 DEF AloneInv, PathWhole
<1>4. \A o \in Procs : o # p => pc'[o] = pc[o] /\ fd'[o] = fd[o]
  BY <1>1
<1>. QED
  BY <1>2, <1>3, <1>4, OneCommand

\* One command after the other keeps it.
LEMMA AloneStep ==
  ASSUME Assumptions, ~Overlap, FileInv, AloneInv, [Next]_vars
  PROVE  AloneInv'
<1>0. /\ pc \in [Procs -> {"off", "load", "ready"} \cup InSave]
      /\ FilesOK(Contents) /\ identity \in [Procs -> Ids \cup {None}]
      /\ \A p \in Procs : pc[p] # "off" =>
           \A o \in Procs : o # p => pc[o] = "off"
  BY DEF FileInv, TypeOK, InSave, AloneInv, OneAtATime
<1>1. ASSUME NEW p \in Procs, Resolve(p) PROVE AloneInv'
  <2>1. /\ \A o \in Procs : pc[o] = "off"
        /\ pc' = [pc EXCEPT ![p] = "load"] /\ UNCHANGED files /\ used' = used
    BY <1>1 DEF Resolve, history
  <2>2. UsedIsOnDisk'
    BY <2>1 DEF AloneInv, UsedIsOnDisk, files
  <2>. QED
    BY <2>1, <2>2, DiskAlone
<1>2. ASSUME NEW p \in Procs, Load(p) PROVE AloneInv'
  <2>1. /\ pc[p] = "load" /\ path # None
        /\ pc' = [pc EXCEPT ![p] = "ready"] /\ UNCHANGED files
        /\ used' = used \cup {data[path].id}
    BY <1>2 DEF Load, Exists
  <2>2. UsedIsOnDisk'
    BY <2>1 DEF AloneInv, UsedIsOnDisk, files
  <2>. QED
    BY <1>0, <2>1, <2>2, DiskAlone
<1>3. ASSUME NEW p \in Procs, LoadFails(p) PROVE AloneInv'
  <2>1. /\ pc[p] = "load" /\ pc' = [pc EXCEPT ![p] = "off"]
        /\ UNCHANGED files /\ used' = used
    BY <1>3 DEF LoadFails, history
  <2>2. UsedIsOnDisk'
    BY <2>1 DEF AloneInv, UsedIsOnDisk, files
  <2>. QED
    BY <1>0, <2>1, <2>2, DiskAlone
<1>4. ASSUME NEW p \in Procs, Generate(p) PROVE AloneInv'
  <2>1. /\ pc[p] = "load" /\ pc' = [pc EXCEPT ![p] = "save"] /\ path = None
        /\ UNCHANGED files /\ used' = used
    BY <1>4 DEF Generate, Exists
  <2>2. UsedIsOnDisk'
    BY <2>1 DEF AloneInv, UsedIsOnDisk, files
  <2>. QED
    BY <1>0, <2>1, <2>2, DiskAlone
<1>5. ASSUME NEW p \in Procs, OpenTmp(p) PROVE AloneInv'
  <2>1. /\ pc[p] = "save" /\ Open(p) /\ pc' = [pc EXCEPT ![p] = "opened"]
        /\ used' = used
    BY <1>5 DEF OpenTmp, history
  <2>2. /\ tmp' \in Inodes /\ path' = path
        /\ tmp = None \/ tmp' = tmp
        /\ tmp = None => tmp' # path
        /\ data' = [data EXCEPT ![tmp'] = Torn]
        /\ fd' = [fd EXCEPT ![p] = tmp']
    BY <1>0, <2>1, OpenTakes
  <2>3. path = None
    BY <2>1 DEF AloneInv, Saving, InSave
  <2>4. Saving(p)'
    BY <1>0, <2>1, <2>2, <2>3, AtomicSaveAssumption DEF Saving, InSave, FilesOK
  <2>. QED
    BY <1>0, <2>1, <2>2, <2>3, <2>4, NothingShows DEF FilesOK
<1>6. ASSUME NEW p \in Procs, Write(p) PROVE AloneInv'
  <2>1. /\ pc[p] = "opened" /\ Dump(p, Text(p)) /\ pc' = [pc EXCEPT ![p] = "written"]
        /\ used' = used /\ UNCHANGED <<given, identity>>
    BY <1>6 DEF Write, history
  <2>2. tmp # None /\ fd[p] = tmp /\ data[tmp] = Torn /\ path = None
    BY <2>1 DEF AloneInv, Saving, InSave
  <2>3. /\ data' = [data EXCEPT ![tmp] = Text(p)]
        /\ path' = path /\ tmp' = tmp /\ fd' = [fd EXCEPT ![p] = None]
    BY <2>1, <2>2 DEF Dump
  <2>4. data'[tmp] = Text(p)'
    BY <1>0, <2>1, <2>2, <2>3 DEF FilesOK, Text
  <2>5. Saving(p)'
    BY <1>0, <2>1, <2>2, <2>3, <2>4 DEF Saving, InSave, FilesOK
  <2>. QED
    BY <1>0, <2>1, <2>2, <2>3, <2>5, NothingShows DEF FilesOK
<1>7. ASSUME NEW p \in Procs, Replace(p) PROVE AloneInv'
  <2>1. /\ pc[p] = "written" /\ Rename /\ pc' = [pc EXCEPT ![p] = "ready"]
        /\ used' = used \cup {identity[p]}
    BY <1>7 DEF Replace
  <2>2. tmp # None /\ data[tmp] = Text(p) /\ path = None /\ fd[p] = None
    BY <2>1 DEF AloneInv, Saving, InSave
  <2>3. path' = tmp /\ tmp' = None /\ data' = data /\ fd' = fd
    BY <2>1 DEF Rename
  <2>4. data'[path'] = Text(p) /\ Text(p) \in Contents /\ Text(p).id = identity[p]
    BY <2>1, <2>2, <2>3 DEF Text, Contents, FileInv, TypeOK, DrawnInv, InSave
  <2>5. PathWhole'
    BY <2>2, <2>3, <2>4 DEF PathWhole, Assumptions, NoTextAssumption
  <2>6. UsedIsOnDisk'
    BY <2>1, <2>2, <2>3, <2>4 DEF AloneInv, UsedIsOnDisk
  <2>7. Saving(p)'
    BY <1>0, <2>1, <2>2, <2>3 DEF Saving, InSave
  <2>8. \A o \in Procs : o # p => pc'[o] = pc[o] /\ fd'[o] = fd[o]
    BY <1>0, <2>1, <2>3
  <2>9. \A o \in Procs : o # p => pc[o] = "off"
    BY <1>0, <2>1
  <2>. QED
    BY <2>5, <2>6, <2>7, <2>8, <2>9, OneCommand
<1>8. ASSUME NEW p \in Procs, Ends(p) PROVE AloneInv'
  <2>1. /\ pc[p] # "off" /\ Abandon(p) /\ pc' = [pc EXCEPT ![p] = "off"]
        /\ used' = used
    BY <1>8 DEF Ends, history
  <2>2. fd[p] # None => tmp # None /\ fd[p] = tmp
    BY DEF AloneInv, Saving
  <2>3. /\ \/ data' = data
           \/ fd[p] # None /\ data' = [data EXCEPT ![fd[p]] = Torn]
        /\ path' = path /\ tmp' = tmp /\ fd' = [fd EXCEPT ![p] = None]
    BY <2>1 DEF Abandon
  <2>4. path # None => data'[path] = data[path] /\ tmp' # path
    BY <1>0, <2>2, <2>3 DEF AloneInv, PathWhole, FilesOK
  <2>5. Saving(p)'
    BY <1>0, <2>1, <2>3 DEF Saving, InSave, FilesOK
  <2>. QED
    BY <1>0, <2>1, <2>3, <2>4, <2>5, NothingShows DEF FilesOK
<1>9. CASE UNCHANGED vars
  <2>1. UNCHANGED <<path, tmp, data, fd, pc, given, identity, used>>
    BY <1>9 DEF vars, files, history
  <2>. QED
    BY <2>1 DEF AloneInv, OneAtATime, PathWhole, Saving, Text, UsedIsOnDisk
<1>. QED
  BY <1>1, <1>2, <1>3, <1>4, <1>5, <1>6, <1>7, <1>8, <1>9 DEF Next

\* While one command runs at a time, all that get to work do so with one and
\* the same identity, whenever an earlier one ended: also when it ended before
\* the identity it drew was on the disk.
THEOREM OneIdentityEver ==
  ASSUME Assumptions, ~Overlap
  PROVE  Spec => []OneIdentity
<1>1. FileInv /\ AloneInv /\ [Next]_vars => AloneInv'
  BY AloneStep
<1>2. AloneInv => OneIdentity
  BY DEF AloneInv, UsedIsOnDisk, OneIdentity
<1>. QED
  BY <1>1, <1>2, AloneStart, FileInvariant, PTL DEF Spec
=========================
