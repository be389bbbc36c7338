-------------------------- MODULE TrustFileProofs --------------------------
(***************************************************************************)
(* What holds of the trust file whatever the peers, the keys, the          *)
(* processes and the disk: what processes that overlap cannot break, and   *)
(* what one process after the other, on a disk with room, makes of it (a   *)
(* PinStore).                                                              *)
(***************************************************************************)
EXTENDS TrustFile, FiniteSetTheorems, TLAPS

-----------------------------------------------------------------------------
(* What the steps do to the disk.                                          *)

\* While there is no temporary file, an inode is free to become it: the path
\* and the open files of the processes leave one over.
LEMMA FreeInode ==
  ASSUME tmp = None, fd \in [Procs -> Inodes \cup {None}]
  PROVE  Free # {}
<1> DEFINE held == {fd[p] : p \in Procs}
           taken == held \cup {path}
<1>1. IsFiniteSet(held) /\ Cardinality(held) <= Cardinality(Procs)
  <2>1. fd \in Surjection(Procs, held)
    BY DEF Surjection
  <2>. QED
    BY <2>1, FS_Surjection, AtomicSaveAssumption
<1>2. IsFiniteSet(taken) /\ Cardinality(taken) <= Cardinality(Procs) + 1
  <2>1. /\ IsFiniteSet(taken)
        /\ Cardinality(taken) = IF path \in held THEN Cardinality(held)
                               ELSE Cardinality(held) + 1
    BY <1>1, FS_AddElement
  <2>2. Cardinality(held) \in Nat /\ Cardinality(Procs) \in Nat
    BY <1>1, FS_CardinalityType, AtomicSaveAssumption
  <2>. QED
    BY <1>1, <2>1, <2>2
<1>3. ~(Inodes \subseteq taken)
  <2>1. SUFFICES ASSUME Inodes \subseteq taken PROVE FALSE
    OBVIOUS
  <2>2. Cardinality(Inodes) <= Cardinality(taken)
    BY <1>2, <2>1, FS_Subset
  <2>3. /\ Cardinality(Inodes) \in Nat /\ Cardinality(Procs) \in Nat
        /\ Cardinality(taken) \in Nat
    BY <1>2, FS_CardinalityType, AtomicSaveAssumption
  <2>. QED
    BY <1>2, <2>2, <2>3, AtomicSaveAssumption
<1>. QED
  BY <1>3, AtomicSaveAssumption DEF Free

\* open(tmp, "w") empties an inode that is not the file's and gives it to the
\* process.
LEMMA OpenTakes ==
  ASSUME NEW texts, FilesOK(texts), NEW p \in Procs, Open(p)
  PROVE  /\ tmp' \in Inodes
         /\ tmp = None \/ tmp' = tmp
         /\ tmp = None => tmp' # path
         /\ data' = [data EXCEPT ![tmp'] = Torn]
         /\ fd' = [fd EXCEPT ![p] = tmp']
         /\ path' = path
<1> DEFINE i == IF tmp # None THEN tmp ELSE CHOOSE x \in Free : TRUE
<1>1. CASE tmp # None
  BY <1>1 DEF Open, FilesOK
<1>2. CASE tmp = None
  <2>1. (CHOOSE x \in Free : TRUE) \in Free
    BY <1>2, FreeInode DEF FilesOK
  <2>2. i \in Inodes /\ i # path
    BY <1>2, <2>1 DEF Free
  <2>. QED
    BY <1>2, <2>2 DEF Open
<1>. QED
  BY <1>1, <1>2

\* A step on the disk keeps its types, and puts nothing into an inode but the text
\* that the process writes, or bytes of no text.
LEMMA DiskSteps ==
  ASSUME NEW texts, FilesOK(texts), NEW p \in Procs, NEW text \in texts,
         \/ Open(p) \/ Dump(p, text) \/ Rename \/ Abandon(p)
         \/ UNCHANGED files
  PROVE  /\ FilesOK(texts)'
         /\ \A i \in Inodes : data'[i] \in {text, data[i], Torn}
<1>1. CASE Open(p)
  BY <1>1, OpenTakes DEF FilesOK
<1>2. CASE Dump(p, text)
  <2>1. PICK t \in {text, Torn} : data' = [data EXCEPT ![fd[p]] = t]
    BY <1>2 DEF Dump
  <2>. QED
    BY <1>2, <2>1 DEF Dump, FilesOK
<1>3. CASE Rename
  BY <1>3 DEF Rename, FilesOK
<1>4. CASE Abandon(p)
  BY <1>4 DEF Abandon, FilesOK
<1>5. CASE UNCHANGED files
  BY <1>5 DEF files, FilesOK
<1>. QED
  BY <1>1, <1>2, <1>3, <1>4, <1>5

-----------------------------------------------------------------------------
(* What holds whatever overlaps and fails.  A process saves for something,  *)
(* and a verification it saves was compared; and no store, in memory or on  *)
(* the disk, says of a key that was not compared that it is verified.       *)

InSave == {"save", "opened", "written"}

JobInv ==
  \A p \in Procs : pc[p] \in InSave =>
    /\ job[p] \in Job
    /\ job[p].kind = "verify" => <<job[p].peer, job[p].static>> \in compared

Honest(store, said) ==
  \A q \in Peers :
    store[q] # None /\ store[q].verified => <<q, store[q].static>> \in said

HonestInv ==
  /\ \A p \in Procs : Honest(mem[p], compared)
  /\ \A i \in Inodes : data[i] # Torn => Honest(data[i], compared)

TrustInv == TypeOK /\ JobInv /\ HonestInv

\* Nothing is known, and nobody runs.
LEMMA TrustStart == Init => TrustInv
<1> SUFFICES ASSUME Init PROVE TrustInv
  OBVIOUS
<1>1. TypeOK
  BY TrustFileAssumption DEF Init, TypeOK, NoFiles, FilesOK, Empty, Store
<1>2. JobInv /\ HonestInv
  BY DEF Init, JobInv, InSave, HonestInv, Honest, NoFiles, Empty
<1>. QED
  BY <1>1, <1>2 DEF TrustInv

\* What was compared stays compared.
LEMMA HonestGrows ==
  ASSUME NEW store, NEW said, NEW more, said \subseteq more, Honest(store, said)
  PROVE  Honest(store, more)
BY DEF Honest

\* A process starts with what is on the disk.
LEMMA StartKeepsTrust ==
  ASSUME TrustInv, NEW p \in Procs, Start(p)
  PROVE  TrustInv'
<1> DEFINE read == IF path = None THEN Empty ELSE data[path]
<1>1. read \in Store /\ Honest(read, compared)
  <2>1. CASE path = None
    BY <2>1 DEF Honest, Empty, Store
  <2>2. CASE path # None
    BY <2>2 DEF Start, TrustInv, TypeOK, FilesOK, HonestInv
  <2>. QED
    BY <2>1, <2>2
<1>2. mem' = [mem EXCEPT ![p] = read] /\ compared' = compared
      /\ UNCHANGED <<files, job, failures, accepted, recorded>>
      /\ pc' = [pc EXCEPT ![p] = "ready"]
  BY DEF Start, Read, history
<1> HIDE DEF read
<1>3. TypeOK'
  BY <1>1, <1>2 DEF TrustInv, TypeOK, FilesOK, files
<1>4. JobInv'
  BY <1>2 DEF TrustInv, TypeOK, JobInv, InSave
<1>5. HonestInv'
  BY <1>1, <1>2 DEF TrustInv, TypeOK, HonestInv, files
<1>. QED
  BY <1>3, <1>4, <1>5 DEF TrustInv

\* A chat pins without verifying.
LEMMA ObserveKeepsTrust ==
  ASSUME TrustInv, NEW p \in Procs, NEW q \in Peers, NEW s \in Statics,
         Observe(p, q, s)
  PROVE  TrustInv'
<1>1. /\ pc[p] = "ready" /\ compared' = compared /\ recorded' = recorded
      /\ failures' = failures
      /\ path' = path /\ tmp' = tmp /\ data' = data /\ fd' = fd
  BY DEF Observe, files
<1>2. /\ mem[p] \in Store /\ Honest(mem[p], compared)
      /\ recorded \subseteq compared
  BY DEF TrustInv, TypeOK, HonestInv
<1>3. CASE /\ mem' = [mem EXCEPT ![p][q] = [static |-> s, verified |-> FALSE]]
           /\ Save(p, [kind |-> "pin", peer |-> q, static |-> s])
           /\ UNCHANGED accepted
  <2> DEFINE pin == [static |-> s, verified |-> FALSE]
             j == [kind |-> "pin", peer |-> q, static |-> s]
             after == [mem[p] EXCEPT ![q] = pin]
  <2>1. pin \in Pin /\ ~pin.verified
    BY DEF Pin
  <2>2. j \in Job /\ j.kind # "verify"
    BY DEF Job
  <2>3. mem' = [mem EXCEPT ![p] = after]
    BY <1>3
  <2>4. job' = [job EXCEPT ![p] = j] /\ pc' = [pc EXCEPT ![p] = "save"]
    BY <1>3 DEF Save
  <2> HIDE DEF pin, j
  <2>5. after \in Store /\ Honest(after, compared)
    BY <1>2, <2>1 DEF Store, Honest
  <2> HIDE DEF after
  <2>6. TypeOK'
    BY <1>1, <1>3, <2>2, <2>3, <2>4, <2>5 DEF TrustInv, TypeOK, FilesOK
  <2>7. JobInv'
    BY <1>1, <2>2, <2>4 DEF TrustInv, TypeOK, JobInv, InSave
  <2>8. HonestInv'
    BY <1>1, <2>3, <2>5 DEF TrustInv, TypeOK, HonestInv
  <2>. QED
    BY <2>6, <2>7, <2>8 DEF TrustInv
<1>4. CASE /\ Save(p, [kind |-> "nick", peer |-> q, static |-> s])
           /\ UNCHANGED <<mem, accepted>>
  <2> DEFINE j == [kind |-> "nick", peer |-> q, static |-> s]
  <2>1. j \in Job /\ j.kind # "verify"
    BY DEF Job
  <2>2. job' = [job EXCEPT ![p] = j] /\ pc' = [pc EXCEPT ![p] = "save"]
    BY <1>4 DEF Save
  <2> HIDE DEF j
  <2>3. TypeOK'
    BY <1>1, <1>4, <2>1, <2>2 DEF TrustInv, TypeOK, FilesOK
  <2>4. JobInv'
    BY <1>1, <2>1, <2>2 DEF TrustInv, TypeOK, JobInv, InSave
  <2>5. HonestInv'
    BY <1>1, <1>4 DEF TrustInv, HonestInv
  <2>. QED
    BY <2>3, <2>4, <2>5 DEF TrustInv
<1>5. CASE /\ accepted' = accepted \cup {<<q, s>>}
           /\ UNCHANGED <<mem, pc, job>>
  <2>1. TypeOK'
    BY <1>1, <1>5 DEF TrustInv, TypeOK, FilesOK
  <2>2. JobInv' /\ HonestInv'
    BY <1>1, <1>5 DEF TrustInv, JobInv, HonestInv
  <2>. QED
    BY <2>1, <2>2 DEF TrustInv
<1>. QED
  BY <1>3, <1>4, <1>5 DEF Observe

\* peers --verify verifies the key that it showed the user.
LEMMA MarkKeepsTrust ==
  ASSUME TrustInv, NEW p \in Procs, NEW q \in Peers, MarkVerified(p, q)
  PROVE  TrustInv'
<1> DEFINE s == mem[p][q].static
           j == [kind |-> "verify", peer |-> q, static |-> s]
           after == [mem[p] EXCEPT ![q].verified = TRUE]
<1>1. /\ pc[p] = "ready" /\ accepted' = accepted /\ recorded' = recorded
      /\ failures' = failures
      /\ path' = path /\ tmp' = tmp /\ data' = data /\ fd' = fd
      /\ mem[p][q] # None
  BY DEF MarkVerified, files
<1>2. /\ mem[p] \in Store /\ Honest(mem[p], compared)
      /\ recorded \subseteq compared
  BY DEF TrustInv, TypeOK, HonestInv
<1>3. mem[p][q] \in Pin
  BY <1>1, <1>2 DEF Store
<1>4. s \in Statics /\ j \in Job /\ j.kind = "verify" /\ j.peer = q /\ j.static = s
  BY <1>3 DEF Pin, Job
<1>5. /\ mem' = [mem EXCEPT ![p] = after]
      /\ job' = [job EXCEPT ![p] = j] /\ pc' = [pc EXCEPT ![p] = "save"]
      /\ compared' = compared \cup {<<q, s>>}
  BY DEF MarkVerified, Save
<1>6. after \in Store
  <2>1. [mem[p][q] EXCEPT !.verified = TRUE] \in Pin
    BY <1>3 DEF Pin
  <2>. QED
    BY <1>2, <2>1 DEF Store
<1>7. Honest(after, compared')
  <2>1. ASSUME NEW r \in Peers, after[r] # None, after[r].verified
        PROVE  <<r, after[r].static>> \in compared'
    <3>1. CASE r = q
      <4>1. after[q].static = s
        BY <1>2, <1>3 DEF Store, Pin
      <4>. QED
        BY <1>5, <3>1, <4>1
    <3>2. CASE r # q
      <4>1. after[r] = mem[p][r]
        BY <1>2, <3>2 DEF Store
      <4>. QED
        BY <1>2, <1>5, <2>1, <4>1 DEF Honest
    <3>. QED
      BY <3>1, <3>2
  <2>. QED
    BY <2>1 DEF Honest
<1> HIDE DEF s, j, after
<1>8. TypeOK'
  BY <1>1, <1>2, <1>4, <1>5, <1>6 DEF TrustInv, TypeOK, FilesOK
<1>9. JobInv'
  BY <1>1, <1>4, <1>5 DEF TrustInv, TypeOK, JobInv, InSave
<1>10. HonestInv'
  <2>1. compared \subseteq compared'
    BY <1>5
  <2>2. \A o \in Procs : Honest(mem[o], compared')
    BY <2>1, HonestGrows DEF TrustInv, HonestInv
  <2>3. \A o \in Procs : Honest(mem'[o], compared')
    BY <1>5, <1>7, <2>2 DEF TrustInv, TypeOK
  <2>4. \A i \in Inodes : data'[i] # Torn => Honest(data'[i], compared')
    BY <1>1, <2>1, HonestGrows DEF TrustInv, HonestInv
  <2>. QED
    BY <2>3, <2>4 DEF HonestInv
<1>. QED
  BY <1>8, <1>9, <1>10 DEF TrustInv

\* What a process does to the disk, and goes on or ends: it writes what it has
\* in memory and forgets what it had there.
LEMMA DiskKeepsTrust ==
  ASSUME TrustInv, NEW p \in Procs,
         \/ Open(p) \/ Dump(p, mem[p]) \/ Rename \/ Abandon(p)
         \/ UNCHANGED files,
         pc' \in [Procs -> {"off", "ready"} \cup InSave],
         \A o \in Procs : pc'[o] \in InSave => pc[o] \in InSave /\ job'[o] = job[o],
         mem' \in {mem, [mem EXCEPT ![p] = Empty]},
         job' \in [Procs -> Job \cup {None}],
         failures' \in 0 .. MaxFailures,
         compared' = compared, accepted' \subseteq Peers \X Statics,
         recorded' \subseteq compared
  PROVE  TrustInv'
<1>1. mem[p] \in Store /\ FilesOK(Store) /\ Empty \in Store /\ Honest(Empty, compared)
  BY DEF TrustInv, TypeOK, Empty, Store, Honest
<1>2. FilesOK(Store)' /\ \A i \in Inodes : data'[i] \in {mem[p], data[i], Torn}
  BY <1>1, DiskSteps
<1>3. TypeOK'
  BY <1>1, <1>2 DEF TrustInv, TypeOK, InSave
<1>4. JobInv'
  BY DEF TrustInv, JobInv
<1>5. HonestInv'
  BY <1>1, <1>2 DEF TrustInv, TypeOK, HonestInv
<1>. QED
  BY <1>3, <1>4, <1>5 DEF TrustInv

\* The two invariants hold in every state, whatever overlaps and fails.
LEMMA TrustStep == TrustInv /\ [Next]_vars => TrustInv'
<1> SUFFICES ASSUME TrustInv, [Next]_vars PROVE TrustInv'
  OBVIOUS
<1>0. /\ TypeOK /\ JobInv /\ pc \in [Procs -> {"off", "ready"} \cup InSave]
      /\ job \in [Procs -> Job \cup {None}] /\ failures \in Nat
  BY DEF TrustInv, TypeOK, InSave
<1>1. ASSUME NEW p \in Procs, OpenTmp(p) PROVE TrustInv'
  <2>1. /\ Open(p) /\ pc[p] = "save" /\ pc' = [pc EXCEPT ![p] = "opened"]
        /\ UNCHANGED <<mem, job, failures, accepted, compared, recorded>>
    BY <1>1 DEF OpenTmp, history
  <2>. QED
    BY <1>0, <2>1, DiskKeepsTrust DEF TypeOK, InSave
<1>2. ASSUME NEW p \in Procs, Write(p) PROVE TrustInv'
  <2>1. /\ Dump(p, mem[p]) /\ pc[p] = "opened" /\ pc' = [pc EXCEPT ![p] = "written"]
        /\ UNCHANGED <<mem, job, failures, accepted, compared, recorded>>
    BY <1>2 DEF Write, history
  <2>. QED
    BY <1>0, <2>1, DiskKeepsTrust DEF TypeOK, InSave
<1>3. ASSUME NEW p \in Procs, GoesOn(p) \/ Ends(p)
      PROVE  /\ pc' \in [Procs -> {"off", "ready"} \cup InSave]
             /\ \A o \in Procs : pc'[o] \in InSave => pc[o] \in InSave /\ job'[o] = job[o]
             /\ mem' \in {mem, [mem EXCEPT ![p] = Empty]}
             /\ job' \in [Procs -> Job \cup {None}]
  <2>1. PICK next \in {"off", "ready"} :
          pc' = [pc EXCEPT ![p] = next] /\ job' = [job EXCEPT ![p] = None]
    BY <1>3 DEF GoesOn, Ends
  <2>2. mem' \in {mem, [mem EXCEPT ![p] = Empty]}
    BY <1>3 DEF GoesOn, Ends
  <2>. QED
    BY <1>0, <2>1, <2>2 DEF InSave
<1>4. ASSUME NEW p \in Procs, Replace(p) PROVE TrustInv'
  <2>1. /\ pc[p] = "written" /\ Rename /\ Returned(job[p]) /\ GoesOn(p)
        /\ failures' = failures
    BY <1>4 DEF Replace
  <2>2. /\ job[p] \in Job
        /\ job[p].kind = "verify" => <<job[p].peer, job[p].static>> \in compared
    BY <1>0, <2>1 DEF JobInv, InSave
  <2>3. /\ compared' = compared /\ accepted' \subseteq Peers \X Statics
        /\ recorded' \subseteq compared
    BY <1>0, <2>1, <2>2 DEF Returned, TypeOK, Job
  <2>. QED
    BY <1>0, <1>3, <2>1, <2>3, DiskKeepsTrust DEF TypeOK
<1>5. ASSUME NEW p \in Procs, ReplaceFails(p) PROVE TrustInv'
  BY <1>0, <1>3, <1>5, DiskKeepsTrust DEF ReplaceFails, history, TypeOK
<1>6. ASSUME NEW p \in Procs, SaveFails(p) PROVE TrustInv'
  <2>1. failures' \in 0 .. MaxFailures
    BY <1>0, <1>6, TrustFileAssumption DEF SaveFails
  <2>. QED
    BY <1>0, <1>3, <1>6, <2>1, DiskKeepsTrust DEF SaveFails, history, TypeOK
<1>7. ASSUME NEW p \in Procs, Ends(p) PROVE TrustInv'
  <2>1. Abandon(p) /\ UNCHANGED <<failures, accepted, compared, recorded>>
    BY <1>7 DEF Ends, history
  <2>. QED
    BY <1>0, <1>3, <1>7, <2>1, DiskKeepsTrust DEF TypeOK
<1>8. CASE UNCHANGED vars
  BY <1>8 DEF vars, files, TrustInv, TypeOK, FilesOK, JobInv, HonestInv
<1>. QED
  BY <1>1, <1>2, <1>4, <1>5, <1>6, <1>7, <1>8, StartKeepsTrust,
     ObserveKeepsTrust, MarkKeepsTrust DEF Next

\* It holds whatever overlaps and fails.
LEMMA TrustInvariant == Spec => []TrustInv
BY TrustStart, TrustStep, PTL DEF Spec

\* Type correctness, on any disk and for any processes.
THEOREM TypeCorrect == Spec => []TypeOK
<1>1. TrustInv => TypeOK
  BY DEF TrustInv
<1>. QED
  BY <1>1, TrustInvariant, PTL

\* No process shows a key as verified that the user did not compare, however
\* many processes read, change and overwrite the file at once, and whatever
\* save fails: verified never means more than it says.
THEOREM VerifiedByHand == Spec => []VerifiedWasCompared
<1>1. TrustInv => VerifiedWasCompared
  BY DEF TrustInv, HonestInv, Honest, VerifiedWasCompared
<1>. QED
  BY <1>1, TrustInvariant, PTL

-----------------------------------------------------------------------------
(* What holds while one process uses the file at a time and no save fails.  *)
(* At every step of a save the process has, in memory, what is on the disk  *)
(* changed by the one thing it saves for, and what it wrote is that; the    *)
(* path never names an inode that is open.                                  *)

Alone == ~Overlap /\ MaxFailures = 0

OneAtATime == \A p, o \in Procs : pc[p] # "off" /\ pc[o] # "off" => p = o

PathWhole == path # None => path # tmp /\ data[path] # Torn

\* The store has the peer pinned to that key.
Carries(store, q, s) == store[q] # None /\ store[q].static = s

\* What a save for j makes of a store, and when it is made.
Changed(j, store) ==
  IF j.kind = "pin"
  THEN [store EXCEPT ![j.peer] = [static |-> j.static, verified |-> FALSE]]
  ELSE IF j.kind = "nick" THEN store
  ELSE [store EXCEPT ![j.peer].verified = TRUE]

Due(j, store) ==
  IF j.kind = "pin" THEN store[j.peer] = None
  ELSE Carries(store, j.peer, j.static)

Saving(p) ==
  /\ pc[p] = "ready" => mem[p] = OnDisk
  /\ pc[p] \in InSave =>
       Due(job[p], OnDisk) /\ mem[p] = Changed(job[p], OnDisk)
  /\ pc[p] = "opened" => tmp # None /\ fd[p] = tmp /\ data[tmp] = Torn
  /\ pc[p] = "written" => tmp # None /\ data[tmp] = mem[p]
  /\ pc[p] # "opened" => fd[p] = None

Held == \A x \in accepted \cup recorded : Carries(OnDisk, x[1], x[2])

AloneInv ==
  /\ OneAtATime
  /\ PathWhole
  /\ \A p \in Procs : Saving(p)
  /\ Held
  /\ ComparedStaysVerified

\* Of a store and the change that is due: the change is a store, it keeps every
\* pin and every verification, and it has the pin that it was made for, verified
\* if that was what it was for.
LEMMA ChangeKeeps ==
  ASSUME NEW j \in Job, NEW store \in Store, Due(j, store)
  PROVE  /\ Changed(j, store) \in Store
         /\ \A q \in Peers, s \in Statics :
              Carries(store, q, s) => Carries(Changed(j, store), q, s)
         /\ Carries(Changed(j, store), j.peer, j.static)
         /\ \A q \in Peers, s \in Statics :
              store[q] = [static |-> s, verified |-> TRUE]
                => Changed(j, store)[q] = [static |-> s, verified |-> TRUE]
         /\ j.kind = "verify" =>
              Changed(j, store)[j.peer] = [static |-> j.static, verified |-> TRUE]
<1> DEFINE after == Changed(j, store)
<1>1. /\ j.kind \in {"pin", "nick", "verify"} /\ j.peer \in Peers /\ j.static \in Statics
      /\ store \in [Peers -> Pin \cup {None}]
  BY DEF Job, Store
<1>2. CASE j.kind = "pin"
  <2> DEFINE pin == [static |-> j.static, verified |-> FALSE]
  <2>0. pin \in Pin /\ pin.static = j.static
    BY <1>1 DEF Pin
  <2>1. pin \in Pin /\ pin # None /\ pin.static = j.static
    BY <2>0, NoPinAssumption
  <2>2. after = [store EXCEPT ![j.peer] = pin] /\ store[j.peer] = None
    BY <1>2 DEF Changed, Due
  <2> HIDE DEF pin, after
  <2>3. /\ after \in Store /\ after[j.peer] = pin
        /\ \A q \in Peers : q # j.peer => after[q] = store[q]
    BY <1>1, <2>1, <2>2 DEF Store
  <2>4. \A s \in Statics : store[j.peer] # [static |-> s, verified |-> TRUE]
    <3>1. \A s \in Statics : [static |-> s, verified |-> TRUE] \in Pin
      BY DEF Pin
    <3>. QED
      BY <2>2, <3>1, NoPinAssumption
  <2>. QED
    BY <1>1, <1>2, <2>1, <2>2, <2>3, <2>4 DEF Carries, after
<1>3. CASE j.kind = "nick"
  BY <1>1, <1>3 DEF Changed, Due, Carries
<1>4. CASE j.kind = "verify"
  <2>1. Carries(store, j.peer, j.static)
    BY <1>4 DEF Due
  <2> DEFINE pin == [store[j.peer] EXCEPT !.verified = TRUE]
  <2>2. store[j.peer] \in Pin /\ store[j.peer].static = j.static
    BY <1>1, <2>1 DEF Carries
  <2>3. pin = [static |-> j.static, verified |-> TRUE]
    <3>1. \A r \in Pin :
            [r EXCEPT !.verified = TRUE] = [static |-> r.static, verified |-> TRUE]
      <4>1. \A x \in Pin : x = [static |-> x.static, verified |-> x.verified]
        BY DEF Pin
      <4>2. TAKE r \in Pin
      <4> DEFINE x == [r EXCEPT !.verified = TRUE]
      <4>3. x \in Pin /\ x.static = r.static /\ x.verified = TRUE
        BY DEF Pin
      <4> HIDE DEF x
      <4>4. x = [static |-> r.static, verified |-> TRUE]
        BY <4>1, <4>3
      <4>. QED
        BY <4>4 DEF x
    <3>. QED
      BY <2>2, <3>1
  <2>4. pin \in Pin /\ pin # None /\ pin.static = j.static
    <3>1. [static |-> j.static, verified |-> TRUE] \in Pin
      BY <1>1 DEF Pin
    <3>2. pin.static = j.static
      BY <2>3
    <3>. QED
      BY <2>3, <3>1, <3>2, NoPinAssumption
  <2>5. after = [store EXCEPT ![j.peer] = pin]
    BY <1>4 DEF Changed
  <2> HIDE DEF pin, after
  <2>6. /\ after \in Store /\ after[j.peer] = pin
        /\ \A q \in Peers : q # j.peer => after[q] = store[q]
    BY <1>1, <2>4, <2>5 DEF Store
  <2>7. \A s \in Statics :
          store[j.peer] = [static |-> s, verified |-> TRUE] => s = j.static
    BY <2>2
  <2>. QED
    BY <1>1, <2>1, <2>3, <2>4, <2>6, <2>7 DEF Carries, after
<1>. QED
  BY <1>1, <1>2, <1>3, <1>4

\* What is on the disk, while the path names a whole file, is a store.
LEMMA OnDiskIsStore ==
  ASSUME TypeOK, PathWhole
  PROVE  OnDisk \in Store
BY DEF TypeOK, FilesOK, PathWhole, OnDisk, Empty, Store

\* A step of the one process that runs, by what it has to keep.
LEMMA OneProcess ==
  ASSUME AloneInv, NEW p \in Procs,
         \A o \in Procs : o # p => pc[o] = "off",
         \A o \in Procs : o # p => pc'[o] = pc[o] /\ fd'[o] = fd[o],
         PathWhole', Saving(p)', Held', ComparedStaysVerified'
  PROVE  AloneInv'
<1>1. ASSUME NEW o \in Procs, o # p PROVE Saving(o)'
  BY <1>1 DEF AloneInv, Saving, InSave
<1>. QED
  BY <1>1 DEF AloneInv, OneAtATime

\* The same, where the step shows nothing on the disk.
LEMMA NothingShows ==
  ASSUME AloneInv, NEW p \in Procs,
         \A o \in Procs : o # p => pc[o] = "off",
         \A o \in Procs : o # p => pc'[o] = pc[o] /\ fd'[o] = fd[o],
         path' = path, path # None => data'[path] = data[path] /\ tmp' # path,
         accepted' = accepted, recorded' = recorded, Saving(p)'
  PROVE  AloneInv' /\ OnDisk' = OnDisk
<1>1. OnDisk' = OnDisk
  BY DEF OnDisk
<1>2. PathWhole'
  BY DEF AloneInv, PathWhole
<1>3. Held' /\ ComparedStaysVerified'
  BY <1>1 DEF AloneInv, Held, ComparedStaysVerified
<1>. QED
  BY <1>1, <1>2, <1>3, OneProcess

\* Nobody runs.
LEMMA AloneStart == Init => AloneInv
BY DEF Init, AloneInv, OneAtATime, PathWhole, Saving, InSave, Held, NoFiles,
       ComparedStaysVerified

\* A step of a process while no other runs: it saves a change that was due, or
\* nothing shows on the disk.
Shows(p) ==
  /\ pc[p] = "written" /\ OnDisk' = Changed(job[p], OnDisk)
  /\ job[p] \in Job /\ Due(job[p], OnDisk)

\* A process that starts reads what is on the disk.
LEMMA StartAlone ==
  ASSUME TrustInv, AloneInv, Alone, NEW p \in Procs, Start(p)
  PROVE  AloneInv' /\ OnDisk' = OnDisk
<1>1. \A o \in Procs : pc[o] = "off"
  BY DEF Start, Alone
<1>2. /\ pc' = [pc EXCEPT ![p] = "ready"] /\ mem' = [mem EXCEPT ![p] = OnDisk]
      /\ path' = path /\ tmp' = tmp /\ data' = data /\ fd' = fd
      /\ accepted' = accepted /\ recorded' = recorded
  BY DEF Start, Read, OnDisk, files, history
<1>3. OnDisk' = OnDisk /\ fd[p] = None
  BY <1>1, <1>2 DEF OnDisk, AloneInv, Saving
<1>4. Saving(p)'
  BY <1>2, <1>3 DEF Saving, InSave, TrustInv, TypeOK
<1>5. \A o \in Procs : o # p => pc'[o] = pc[o] /\ fd'[o] = fd[o]
  BY <1>2 DEF TrustInv, TypeOK
<1>6. path # None => data'[path] = data[path] /\ tmp' # path
  BY <1>2 DEF AloneInv, PathWhole
<1>. QED
  BY <1>1, <1>2, <1>4, <1>5, <1>6, NothingShows

\* A peer that is observed is a job to save, or none.
LEMMA ObserveAlone ==
  ASSUME TrustInv, AloneInv, Alone, NEW p \in Procs, NEW q \in Peers,
         NEW s \in Statics, Observe(p, q, s)
  PROVE  AloneInv' /\ OnDisk' = OnDisk
<1>1. /\ pc[p] = "ready" /\ recorded' = recorded
      /\ path' = path /\ tmp' = tmp /\ data' = data /\ fd' = fd
  BY DEF Observe, files
<1>2. /\ mem[p] = OnDisk /\ fd[p] = None /\ OnDisk' = OnDisk
      /\ \A o \in Procs : o # p => pc[o] = "off"
  BY <1>1 DEF AloneInv, Saving, OneAtATime, OnDisk
<1>3. /\ path # None => data'[path] = data[path] /\ tmp' # path
      /\ pc \in [Procs -> {"off", "ready"} \cup InSave]
      /\ mem \in [Procs -> Store] /\ job \in [Procs -> Job \cup {None}]
  BY <1>1 DEF AloneInv, PathWhole, TrustInv, TypeOK, InSave
<1>4. ASSUME NEW kind \in {"pin", "nick"},
             Save(p, [kind |-> kind, peer |-> q, static |-> s]),
             accepted' = accepted,
             \/ /\ kind = "pin" /\ mem[p][q] = None
                /\ mem' = [mem EXCEPT ![p][q] = [static |-> s, verified |-> FALSE]]
             \/ /\ kind = "nick" /\ mem[p][q] # None /\ mem[p][q].static = s
                /\ mem' = mem
      PROVE AloneInv' /\ OnDisk' = OnDisk
  <2> DEFINE j == [kind |-> kind, peer |-> q, static |-> s]
  <2>1. j.kind = kind /\ j.peer = q /\ j.static = s
    OBVIOUS
  <2>2. job' = [job EXCEPT ![p] = j] /\ pc' = [pc EXCEPT ![p] = "save"]
    BY <1>4 DEF Save
  <2> HIDE DEF j
  <2>3. Due(j, OnDisk) /\ mem'[p] = Changed(j, OnDisk)
    BY <1>2, <1>3, <1>4, <2>1 DEF Due, Carries, Changed
  <2>4. Saving(p)'
    BY <1>1, <1>2, <1>3, <2>2, <2>3 DEF Saving, InSave
  <2>. QED
    BY <1>1, <1>2, <1>3, <1>4, <2>2, <2>4, NothingShows
<1>5. CASE /\ mem[p][q] # None /\ mem[p][q].static = s
           /\ accepted' = accepted \cup {<<q, s>>}
           /\ UNCHANGED <<mem, pc, job>>
  <2>1. Held' /\ ComparedStaysVerified'
    BY <1>1, <1>2, <1>5 DEF AloneInv, Held, Carries, ComparedStaysVerified
  <2>2. PathWhole'
    BY <1>1 DEF AloneInv, PathWhole
  <2>3. Saving(p)'
    BY <1>1, <1>2, <1>5 DEF AloneInv, Saving
  <2>. QED
    BY <1>1, <1>2, <1>5, <2>1, <2>2, <2>3, OneProcess
<1>. QED
  BY <1>4, <1>5 DEF Observe

\* So is a comparison.
LEMMA MarkAlone ==
  ASSUME TrustInv, AloneInv, Alone, NEW p \in Procs, NEW q \in Peers,
         MarkVerified(p, q)
  PROVE  AloneInv' /\ OnDisk' = OnDisk
<1>1. /\ pc[p] = "ready" /\ recorded' = recorded /\ accepted' = accepted
      /\ path' = path /\ tmp' = tmp /\ data' = data /\ fd' = fd
      /\ mem[p][q] # None
  BY DEF MarkVerified, files
<1>2. /\ mem[p] = OnDisk /\ fd[p] = None /\ OnDisk' = OnDisk
      /\ \A o \in Procs : o # p => pc[o] = "off"
  BY <1>1 DEF AloneInv, Saving, OneAtATime, OnDisk
<1>3. /\ path # None => data'[path] = data[path] /\ tmp' # path
      /\ pc \in [Procs -> {"off", "ready"} \cup InSave]
      /\ mem \in [Procs -> Store] /\ job \in [Procs -> Job \cup {None}]
  BY <1>1 DEF AloneInv, PathWhole, TrustInv, TypeOK, InSave
<1> DEFINE j == [kind |-> "verify", peer |-> q, static |-> mem[p][q].static]
<1>4. j.kind = "verify" /\ j.peer = q /\ j.static = mem[p][q].static
  OBVIOUS
<1>5. /\ job' = [job EXCEPT ![p] = j] /\ pc' = [pc EXCEPT ![p] = "save"]
      /\ mem' = [mem EXCEPT ![p][q].verified = TRUE]
  BY DEF MarkVerified, Save
<1> HIDE DEF j
<1>6. Due(j, OnDisk) /\ mem'[p] = Changed(j, OnDisk)
  BY <1>1, <1>2, <1>3, <1>4, <1>5 DEF Due, Carries, Changed
<1>7. Saving(p)'
  BY <1>1, <1>2, <1>3, <1>5, <1>6 DEF Saving, InSave
<1>. QED
  BY <1>1, <1>2, <1>3, <1>5, <1>7, NothingShows

\* The temporary file is not the one on the disk.
LEMMA OpenAlone ==
  ASSUME TrustInv, AloneInv, Alone, NEW p \in Procs, OpenTmp(p)
  PROVE  AloneInv' /\ OnDisk' = OnDisk
<1>1. /\ pc[p] = "save" /\ Open(p) /\ pc' = [pc EXCEPT ![p] = "opened"]
      /\ UNCHANGED <<mem, job, accepted, recorded>>
  BY DEF OpenTmp, history
<1>2. /\ \A o \in Procs : o # p => pc[o] = "off"
      /\ pc \in [Procs -> {"off", "ready"} \cup InSave] /\ FilesOK(Store)
  BY <1>1 DEF AloneInv, OneAtATime, TrustInv, TypeOK, InSave
<1>3. /\ tmp' \in Inodes /\ path' = path
      /\ tmp = None \/ tmp' = tmp
      /\ tmp = None => tmp' # path
      /\ data' = [data EXCEPT ![tmp'] = Torn]
      /\ fd' = [fd EXCEPT ![p] = tmp']
  BY <1>1, <1>2, OpenTakes
<1>4. path # None => data'[path] = data[path] /\ tmp' # path
  BY <1>2, <1>3 DEF AloneInv, PathWhole, FilesOK
<1>5. OnDisk' = OnDisk /\ tmp' # None
  BY <1>3, <1>4, AtomicSaveAssumption DEF OnDisk
<1>6. Saving(p)'
  BY <1>1, <1>2, <1>3, <1>5 DEF AloneInv, Saving, InSave, FilesOK
<1>. QED
  BY <1>1, <1>2, <1>3, <1>4, <1>6, NothingShows DEF FilesOK

\* What is written is what memory holds.
LEMMA WriteAlone ==
  ASSUME TrustInv, AloneInv, Alone, NEW p \in Procs, Write(p)
  PROVE  AloneInv' /\ OnDisk' = OnDisk
<1>1. /\ pc[p] = "opened" /\ Dump(p, mem[p]) /\ pc' = [pc EXCEPT ![p] = "written"]
      /\ UNCHANGED <<mem, job, accepted, recorded>>
  BY DEF Write, history
<1>2. /\ \A o \in Procs : o # p => pc[o] = "off"
      /\ pc \in [Procs -> {"off", "ready"} \cup InSave] /\ FilesOK(Store)
      /\ tmp # None /\ fd[p] = tmp /\ data[tmp] = Torn
  BY <1>1 DEF AloneInv, OneAtATime, TrustInv, TypeOK, InSave, Saving
<1>3. /\ data' = [data EXCEPT ![tmp] = mem[p]]
      /\ path' = path /\ tmp' = tmp /\ fd' = [fd EXCEPT ![p] = None]
  BY <1>1, <1>2 DEF Dump
<1>4. path # None => data'[path] = data[path] /\ tmp' # path
  BY <1>2, <1>3 DEF AloneInv, PathWhole, FilesOK
<1>5. OnDisk' = OnDisk /\ data'[tmp] = mem[p] /\ fd'[p] = None
  BY <1>2, <1>3, <1>4 DEF OnDisk, FilesOK
<1>6. Saving(p)'
  BY <1>1, <1>2, <1>3, <1>5 DEF AloneInv, Saving, InSave
<1>. QED
  BY <1>1, <1>2, <1>3, <1>4, <1>6, NothingShows DEF FilesOK

\* The rename shows the change, all of it at once.
LEMMA ReplaceAlone ==
  ASSUME TrustInv, AloneInv, Alone, NEW p \in Procs, Replace(p)
  PROVE  AloneInv' /\ Shows(p)
<1>1. /\ pc[p] = "written" /\ Rename /\ Returned(job[p]) /\ GoesOn(p)
  BY DEF Replace
<1>2. /\ \A o \in Procs : o # p => pc[o] = "off"
      /\ pc \in [Procs -> {"off", "ready"} \cup InSave] /\ FilesOK(Store)
      /\ tmp # None /\ data[tmp] = mem[p] /\ fd[p] = None
      /\ Due(job[p], OnDisk) /\ mem[p] = Changed(job[p], OnDisk)
      /\ mem \in [Procs -> Store]
  BY <1>1 DEF AloneInv, OneAtATime, TrustInv, TypeOK, InSave, Saving
<1>3. job[p] \in Job
  BY <1>1 DEF TrustInv, JobInv, InSave
<1>4. /\ path' = tmp /\ tmp' = None /\ data' = data /\ fd' = fd
  BY <1>1 DEF Rename
<1>5. OnDisk' = mem[p] /\ OnDisk' # Torn
  BY <1>2, <1>4, NoPinAssumption DEF OnDisk
<1>6. OnDisk \in Store
  BY OnDiskIsStore DEF TrustInv, AloneInv
<1>7. PathWhole'
  BY <1>2, <1>4, <1>5 DEF PathWhole, OnDisk
<1>8. accepted \subseteq Peers \X Statics /\ recorded \subseteq Peers \X Statics
  BY DEF TrustInv, TypeOK
<1> DEFINE new == <<job[p].peer, job[p].static>>
<1>9. /\ accepted' \subseteq accepted \cup {new}
      /\ recorded' \subseteq recorded \cup {new}
      /\ new \in recorded' => new \in recorded \/ job[p].kind = "verify"
  BY <1>1 DEF Returned
<1>10. Held'
  <2>1. SUFFICES ASSUME NEW x \in accepted' \cup recorded'
                 PROVE  Carries(OnDisk', x[1], x[2])
    BY DEF Held
  <2>2. CASE x = new
    BY <1>2, <1>3, <1>5, <1>6, <2>2, ChangeKeeps
  <2>3. CASE x \in accepted \cup recorded
    <3>1. x[1] \in Peers /\ x[2] \in Statics /\ Carries(OnDisk, x[1], x[2])
      BY <1>8, <2>3 DEF AloneInv, Held
    <3>2. \A q \in Peers, s \in Statics :
            Carries(OnDisk, q, s) => Carries(Changed(job[p], OnDisk), q, s)
      BY <1>2, <1>3, <1>6, ChangeKeeps
    <3>3. OnDisk' = Changed(job[p], OnDisk)
      BY <1>2, <1>5
    <3>. QED
      BY <3>1, <3>2, <3>3
  <2>. QED
    BY <1>9, <2>1, <2>2, <2>3
<1>11. ComparedStaysVerified'
  <2>1. SUFFICES ASSUME NEW x \in recorded'
                 PROVE  OnDisk'[x[1]] = [static |-> x[2], verified |-> TRUE]
    BY <1>5 DEF ComparedStaysVerified
  <2>2. CASE x \in recorded
    <3>1. /\ x[1] \in Peers /\ x[2] \in Statics
          /\ OnDisk[x[1]] = [static |-> x[2], verified |-> TRUE]
      BY <1>8, <2>2 DEF AloneInv, ComparedStaysVerified
    <3>2. \A q \in Peers, s \in Statics :
            OnDisk[q] = [static |-> s, verified |-> TRUE]
              => Changed(job[p], OnDisk)[q] = [static |-> s, verified |-> TRUE]
      BY <1>2, <1>3, <1>6, ChangeKeeps
    <3>3. OnDisk' = Changed(job[p], OnDisk)
      BY <1>2, <1>5
    <3>. QED
      BY <3>1, <3>2, <3>3
  <2>3. CASE x = new /\ job[p].kind = "verify"
    BY <1>2, <1>3, <1>5, <1>6, <2>3, ChangeKeeps
  <2>. QED
    BY <1>9, <2>2, <2>3
<1>12. Saving(p)'
  <2>1. pc'[p] \in {"off", "ready"} /\ (pc'[p] = "ready" => mem' = mem)
    BY <1>1, <1>2 DEF GoesOn
  <2>. QED
    BY <1>2, <1>4, <1>5, <2>1 DEF Saving, InSave
<1>13. \A o \in Procs : o # p => pc'[o] = pc[o] /\ fd'[o] = fd[o]
  BY <1>1, <1>4 DEF GoesOn, TrustInv, TypeOK
<1>14. AloneInv'
  BY <1>2, <1>7, <1>10, <1>11, <1>12, <1>13, OneProcess
<1>. QED
  BY <1>1, <1>2, <1>3, <1>5, <1>14 DEF Shows

\* A process that ends leaves at most the temporary file torn.
LEMMA EndAlone ==
  ASSUME TrustInv, AloneInv, Alone, NEW p \in Procs, Ends(p)
  PROVE  AloneInv' /\ OnDisk' = OnDisk
<1>1. /\ pc[p] # "off" /\ Abandon(p) /\ pc' = [pc EXCEPT ![p] = "off"]
      /\ UNCHANGED <<accepted, recorded>>
  BY DEF Ends, history
<1>2. /\ \A o \in Procs : o # p => pc[o] = "off"
      /\ pc \in [Procs -> {"off", "ready"} \cup InSave] /\ FilesOK(Store)
      /\ fd[p] # None => tmp # None /\ fd[p] = tmp
  BY <1>1 DEF AloneInv, OneAtATime, TrustInv, TypeOK, InSave, Saving
<1>3. /\ \/ data' = data
         \/ fd[p] # None /\ data' = [data EXCEPT ![fd[p]] = Torn]
      /\ path' = path /\ tmp' = tmp /\ fd' = [fd EXCEPT ![p] = None]
  BY <1>1 DEF Abandon
<1>4. path # None => data'[path] = data[path] /\ tmp' # path
  BY <1>2, <1>3 DEF AloneInv, PathWhole, FilesOK
<1>5. Saving(p)'
  BY <1>1, <1>2, <1>3 DEF Saving, InSave, FilesOK
<1>. QED
  BY <1>1, <1>2, <1>3, <1>4, <1>5, NothingShows DEF FilesOK

\* Every step keeps the invariant, and the file changes by no more than a change
\* that was due.
LEMMA AloneStep ==
  ASSUME TrustInv, AloneInv, Alone, Next
  PROVE  AloneInv' /\ (OnDisk' = OnDisk \/ \E p \in Procs : Shows(p))
<1>1. ASSUME NEW p \in Procs, ReplaceFails(p) PROVE FALSE
  BY <1>1 DEF ReplaceFails, CanRename, AloneInv, Saving
<1>2. ASSUME NEW p \in Procs, SaveFails(p) PROVE FALSE
  BY <1>2 DEF SaveFails, TrustInv, TypeOK, Alone
<1>. QED
  BY <1>1, <1>2, StartAlone, ObserveAlone, MarkAlone, OpenAlone, WriteAlone,
     ReplaceAlone, EndAlone DEF Next

\* A step that changes nothing keeps it.
LEMMA AloneStutter ==
  ASSUME AloneInv, UNCHANGED vars
  PROVE  AloneInv' /\ OnDisk' = OnDisk
<1>1. UNCHANGED <<path, tmp, data, fd, pc, mem, job, accepted, recorded>>
  BY DEF vars, files
<1>2. OnDisk' = OnDisk
  BY <1>1 DEF OnDisk
<1>. QED
  BY <1>1, <1>2 DEF AloneInv, OneAtATime, PathWhole, Saving, Held,
                    ComparedStaysVerified

\* It holds as long as processes do not overlap and no save fails.
LEMMA AloneInvariant ==
  ASSUME Alone
  PROVE  Spec => []AloneInv
<1>1. TrustInv /\ AloneInv /\ [Next]_vars => AloneInv'
  BY AloneStep, AloneStutter
<1>. QED
  BY <1>1, AloneStart, TrustInvariant, PTL DEF Spec

\* While one process uses the file at a time and the disk has room, the program
\* never takes two different keys of a peer for its own, whenever a process
\* ended and another one started.
THEOREM OneKeyEver ==
  ASSUME Alone
  PROVE  Spec => []OneKey
<1>1. TrustInv /\ AloneInv => OneKey
  BY DEF TrustInv, TypeOK, AloneInv, Held, Carries, OneKey
<1>. QED
  BY <1>1, TrustInvariant, AloneInvariant, PTL

\* Under the same conditions a peer that was marked as verified is verified on
\* the disk for good, with the key that the user compared.
THEOREM MarksStay ==
  ASSUME Alone
  PROVE  Spec => []ComparedStaysVerified
<1>1. AloneInv => ComparedStaysVerified
  BY DEF AloneInv
<1>. QED
  BY <1>1, AloneInvariant, PTL

-----------------------------------------------------------------------------
(* The promise: what is on the disk is a PinStore. *)

Promise == INSTANCE PinStore WITH pins <- OnDisk

\* A change that was due, as a step of PinStore.
LEMMA ShowsIsStep ==
  ASSUME TrustInv, AloneInv, NEW p \in Procs, Shows(p)
  PROVE  Promise!Next \/ OnDisk' = OnDisk
<1> DEFINE j == job[p]
<1>1. j \in Job /\ Due(j, OnDisk) /\ OnDisk' = Changed(j, OnDisk)
  BY DEF Shows
<1>2. j.kind \in {"pin", "nick", "verify"} /\ j.peer \in Peers /\ j.static \in Statics
  BY <1>1 DEF Job
<1>3. CASE j.kind = "pin"
  <2>1. Promise!PinPeer(j.peer, j.static)
    BY <1>1, <1>3 DEF Due, Changed, Promise!PinPeer
  <2>. QED
    BY <1>2, <2>1 DEF Promise!Next
<1>4. CASE j.kind = "nick"
  BY <1>1, <1>4 DEF Changed
<1>5. CASE j.kind = "verify"
  <2>1. Promise!Verify(j.peer)
    BY <1>1, <1>5 DEF Due, Carries, Changed, Promise!Verify
  <2>. QED
    BY <1>2, <2>1 DEF Promise!Next
<1>. QED
  BY <1>2, <1>3, <1>4, <1>5

\* The trust file implements its promise: while one process uses it at a time
\* and no save fails, whatever moment a process ends at, what is on the disk
\* only ever gains a pin, or a verification, at a time.
THEOREM KeepsPromise ==
  ASSUME Alone
  PROVE  Spec => Promise!Spec
<1>1. Init => Promise!Init
  BY DEF Init, NoFiles, OnDisk, Empty, Promise!Init
<1>2. TrustInv /\ AloneInv /\ [Next]_vars => [Promise!Next]_OnDisk
  BY AloneStep, AloneStutter, ShowsIsStep
<1>. QED
  BY <1>1, <1>2, TrustInvariant, AloneInvariant, PTL DEF Spec, Promise!Spec
=============================================================================
