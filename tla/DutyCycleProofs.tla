-------------------------- MODULE DutyCycleProofs --------------------------
(***************************************************************************)
(* The transmit lock and the duty-cycle governor, for every number of      *)
(* tasks, every set of airtimes, every window and every budget: one frame  *)
(* is on the air at a time (HalfDuplex), no window of time holds more      *)
(* airtime of a process than the budget (BudgetHolds), and the wait that a *)
(* refused task is told of is enough (WaitSuffices).  The second part is   *)
(* about the other budget kept by sums, the buffer of the Reassembler, the *)
(* third about the store of a router, the last about how start() talks to  *)
(* a module; of each of them this module makes an instance of its own.     *)
(*                                                                         *)
(* A sum of airtimes is the number of ticks it consists of (SumIsCount),   *)
(* so sums are compared as sets are: by an injection of the ticks of the   *)
(* one into those of the other (CountInto).                                *)
(***************************************************************************)
EXTENDS DutyCycle, FiniteSetTheorems, SequenceTheorems, TLAPS

\* The parameters and variables of the Reassembler.
CONSTANTS Fragments, MaxPartials, MaxBytes, Timeout, LastTime, MaxCopies
VARIABLES partials, clock, lastSweep, arrivals, returns

Buffer == INSTANCE Reassembly
  WITH MaxPending <- MaxPartials, MaxTime <- LastTime, pending <- partials,
       now <- clock, swept <- lastSweep, arrived <- arrivals, returned <- returns

\* Those of the store of a router.
CONSTANTS Frames, Replays, StoreForward, StoreCapacity, StoreTTL, NoReplay,
          MaxLists, LastHour
VARIABLES hour, lists, made, replaying, stored, replayed, evicted, outdated,
          interfered

Backlog == INSTANCE RelayStore
  WITH Idle <- NoReplay, MaxTime <- LastHour, now <- hour, sent <- replayed

\* Those of a dialogue with a module.
CONSTANTS Commands, MaxHeard
VARIABLES refuses, command, phase, toAnswer, port, buf, late, heard

Dialogue == INSTANCE AtDialogue

End(e) == e.at + e.airtime

\* A task is idle, or has an airtime; while it sends, the end of its sleep is a
\* time.  Nothing is said of the other sleeps.
Shape(t) ==
  \/ t = Idle
  \/ \E st, a, patient, retry, until, refused :
       /\ t = [state |-> st, airtime |-> a, patient |-> patient,
               retry |-> retry, until |-> until, refused |-> refused]
       /\ st \in {"queued", "writing", "sending", "waiting"}
       /\ a \in Airtimes
       /\ st = "sending" => until \in Nat

HasLock(t) == t.state \in {"writing", "sending"}

TasksInv ==
  /\ now \in Nat /\ restarts \in Nat
  /\ task = [s \in Senders |-> task[s]]
  /\ \A s \in Senders : Shape(task[s])

\* Who writes or sends holds the lock, so there is one at most.
LockInv == \A s \in Senders : HasLock(task[s]) => owner = s

Frame == [at : Nat, airtime : Airtimes, run : Nat]

OnAirInv == /\ onair \subseteq Frame
            /\ \A e \in onair : e.at <= now /\ e.run <= restarts

\* A frame of this process is over, or somebody still holds the lock for it.
TailInv ==
  \A e \in onair :
    e.run = restarts =>
      \/ End(e) <= now
      \/ \E s \in Senders : task[s].state = "sending" /\ End(e) <= task[s].until

AirInv == TasksInv /\ LockInv /\ OnAirInv /\ TailInv /\ OneAtATime

\* A frame that begins when all frames of its process are over overlaps none.
LEMMA NewFrame ==
  ASSUME AirInv, NEW a \in Airtimes,
         \A e \in onair : e.run = restarts => End(e) <= now
  PROVE  LET f == [at |-> now, airtime |-> a, run |-> restarts]
         IN  /\ f \in Frame /\ onair \cup {f} \subseteq Frame
             /\ \A d, e \in onair \cup {f} :
                  d # e /\ d.run = e.run =>
                    d.at + d.airtime <= e.at \/ e.at + e.airtime <= d.at
<1> DEFINE f == [at |-> now, airtime |-> a, run |-> restarts]
<1>1. f \in Frame /\ f.at = now /\ f.run = restarts
  BY DEF AirInv, TasksInv, Frame
<1>2. \A e \in onair : e.run = f.run => e.at + e.airtime <= f.at
  BY <1>1 DEF End
<1>3. onair \subseteq Frame
  BY DEF AirInv, OnAirInv
<1>4. \A d, e \in onair :
        d # e /\ d.run = e.run =>
          d.at + d.airtime <= e.at \/ e.at + e.airtime <= d.at
  BY DEF AirInv, OneAtATime
<1> HIDE DEF f
<1>5. /\ f \in Frame /\ onair \cup {f} \subseteq Frame
      /\ \A d, e \in onair \cup {f} :
           d # e /\ d.run = e.run =>
             d.at + d.airtime <= e.at \/ e.at + e.airtime <= d.at
  BY <1>1, <1>2, <1>3, <1>4
<1>. QED
  BY <1>5 DEF f

\* While s writes, no frame of its process is on the air.
LEMMA NothingOnAir ==
  ASSUME AirInv, NEW s \in Senders, task[s].state = "writing"
  PROVE  \A e \in onair : e.run = restarts => End(e) <= now
<1>1. \A q \in Senders : task[q].state # "sending"
  <2> SUFFICES ASSUME NEW q \in Senders, task[q].state = "sending" PROVE FALSE
    OBVIOUS
  <2>1. owner = s /\ owner = q
    BY DEF AirInv, LockInv, HasLock
  <2>. QED
    BY <2>1
<1>. QED
  BY <1>1 DEF AirInv, TailInv

\* Who sends sleeps until some time.
LEMMA SleepIsTime ==
  ASSUME NEW t, Shape(t), t.state = "sending"
  PROVE  t.until \in Nat
<1>1. t # Idle
  BY DEF Idle
<1>2. PICK st, a, patient, retry, until, refused :
         /\ t = [state |-> st, airtime |-> a, patient |-> patient,
                 retry |-> retry, until |-> until, refused |-> refused]
         /\ st = "sending" => until \in Nat
  BY <1>1 DEF Shape
<1>. QED
  BY <1>2

\* A step of s that leaves its task in shape.
LEMMA TaskStep ==
  ASSUME TasksInv, NEW s \in Senders, NEW t, Shape(t),
         task' = [task EXCEPT ![s] = t], now' \in Nat, restarts' \in Nat
  PROVE  /\ TasksInv'
         /\ task'[s] = t
         /\ \A q \in Senders : q # s => task'[q] = task[q]
<1>1. task'[s] = t /\ \A q \in Senders : q # s => task'[q] = task[q]
  BY DEF TasksInv
<1>2. \A q \in Senders : Shape(task'[q])
  BY <1>1 DEF TasksInv
<1>3. task' = [q \in Senders |-> task'[q]]
  BY DEF TasksInv
<1>. QED
  BY <1>1, <1>2, <1>3 DEF TasksInv

\* What the fields of a task that is not idle are, for an action that changes
\* some of them.
LEMMA BusyShape ==
  ASSUME NEW t, Shape(t), t.state # "idle"
  PROVE  /\ t.airtime \in Airtimes
         /\ t = [state |-> t.state, airtime |-> t.airtime, patient |-> t.patient,
                 retry |-> t.retry, until |-> t.until, refused |-> t.refused]
<1>1. t # Idle
  BY DEF Idle
<1>2. PICK st, a, patient, retry, until, refused :
         /\ t = [state |-> st, airtime |-> a, patient |-> patient,
                 retry |-> retry, until |-> until, refused |-> refused]
         /\ a \in Airtimes
  BY <1>1 DEF Shape
<1>. QED
  BY <1>2

\* The actions that change a field, or two: they change one after the other.
LEMMA ChangeState ==
  ASSUME NEW t, Shape(t), t.state # "idle", NEW st
  PROVE  [t EXCEPT !.state = st] =
           [state |-> st, airtime |-> t.airtime, patient |-> t.patient,
            retry |-> t.retry, until |-> t.until, refused |-> t.refused]
  BY BusyShape

\* A task that counts its tries stays a record of its fields.
LEMMA ChangeRetry ==
  ASSUME NEW t, Shape(t), t.state # "idle", NEW st, NEW retry
  PROVE  [t EXCEPT !.state = st, !.retry = retry] =
           [state |-> st, airtime |-> t.airtime, patient |-> t.patient,
            retry |-> retry, until |-> t.until, refused |-> t.refused]
<1> DEFINE u == [state |-> st, airtime |-> t.airtime, patient |-> t.patient,
                 retry |-> t.retry, until |-> t.until, refused |-> t.refused]
<1>1. [t EXCEPT !.state = st] = u
  BY ChangeState
<1>2. [u EXCEPT !.retry = retry] =
        [state |-> st, airtime |-> t.airtime, patient |-> t.patient,
         retry |-> retry, until |-> t.until, refused |-> t.refused]
  OBVIOUS
<1>. QED
  BY <1>1, <1>2

\* A task that goes to sleep stays a record of its fields.
LEMMA ChangeUntil ==
  ASSUME NEW t, Shape(t), t.state # "idle", NEW st, NEW until
  PROVE  [t EXCEPT !.state = st, !.until = until] =
           [state |-> st, airtime |-> t.airtime, patient |-> t.patient,
            retry |-> t.retry, until |-> until, refused |-> t.refused]
<1> DEFINE u == [state |-> st, airtime |-> t.airtime, patient |-> t.patient,
                 retry |-> t.retry, until |-> t.until, refused |-> t.refused]
<1>1. [t EXCEPT !.state = st] = u
  BY ChangeState
<1>2. [u EXCEPT !.until = until] =
        [state |-> st, airtime |-> t.airtime, patient |-> t.patient,
         retry |-> t.retry, until |-> until, refused |-> t.refused]
  OBVIOUS
<1>. QED
  BY <1>1, <1>2

\* What the steps make of a task is a task.
LEMMA Reshaped ==
  ASSUME NEW t, Shape(t), t.state # "idle", NEW st, NEW retry, NEW until, NEW refused,
         st \in {"queued", "writing", "sending", "waiting"},
         st = "sending" => until \in Nat
  PROVE  Shape([state |-> st, airtime |-> t.airtime, patient |-> t.patient,
                retry |-> retry, until |-> until, refused |-> refused])
  BY BusyShape DEF Shape

\* Any step that transmits nothing, keeps the run and the clock, and takes the
\* lock from nobody who transmits.
LEMMA Quiet ==
  ASSUME AirInv, TasksInv', LockInv',
         onair' = onair, now' = now, restarts' = restarts,
         \A s \in Senders : task[s].state = "sending" =>
           \/ task'[s] = task[s]
           \/ task[s].until <= now
  PROVE  AirInv'
<1>1. OnAirInv'
  BY DEF AirInv, OnAirInv
<1>2. OneAtATime'
  BY DEF AirInv, OneAtATime
<1>3. TailInv'
  <2> SUFFICES ASSUME NEW e \in onair, e.run = restarts
               PROVE  \/ End(e) <= now
                      \/ \E s \in Senders : /\ task'[s].state = "sending"
                                            /\ End(e) <= task'[s].until
    BY DEF TailInv
  <2>1. CASE End(e) <= now
    BY <2>1
  <2>2. CASE \E s \in Senders : task[s].state = "sending" /\ End(e) <= task[s].until
    <3>1. PICK s \in Senders : task[s].state = "sending" /\ End(e) <= task[s].until
      BY <2>2
    <3>2. Shape(task[s])
      BY DEF AirInv, TasksInv
    <3>3. task[s].until \in Nat
      BY <3>1, <3>2, SleepIsTime
    <3>4. End(e) \in Nat /\ now \in Nat
      BY DutyAssumption DEF AirInv, OnAirInv, TasksInv, Frame, End
    <3>5. CASE task'[s] = task[s]
      BY <3>1, <3>5
    <3>6. CASE task[s].until <= now
      BY <3>1, <3>3, <3>4, <3>6
    <3>. QED
      BY <3>1, <3>5, <3>6
  <2>. QED
    BY <2>1, <2>2 DEF AirInv, TailInv
<1>. QED
  BY <1>1, <1>2, <1>3 DEF AirInv

\* Init establishes it.
LEMMA AirInit == Init => AirInv
<1> SUFFICES ASSUME Init PROVE AirInv
  OBVIOUS
<1>1. TasksInv
  BY DEF Init, TasksInv, Shape
<1>2. \A s \in Senders : task[s].state = "idle"
  BY DEF Init, Idle
<1>3. LockInv
  BY <1>2 DEF LockInv, HasLock
<1>4. OnAirInv /\ TailInv /\ OneAtATime
  BY DEF Init, OnAirInv, TailInv, OneAtATime
<1>. QED
  BY <1>1, <1>3, <1>4 DEF AirInv

\* The lock stays with those who hold it if a step of s gives s no lock, and
\* takes it from nobody else.
LEMMA LockKept ==
  ASSUME LockInv, NEW s \in Senders,
         \A q \in Senders : q # s => task'[q] = task[q],
         HasLock(task'[s]) => owner' = s,
         \/ owner' = owner
         \/ \A q \in Senders : q # s => ~HasLock(task[q])
  PROVE  LockInv'
<1> SUFFICES ASSUME NEW q \in Senders, HasLock(task'[q]) PROVE owner' = q
  BY DEF LockInv, HasLock
<1>1. CASE q = s
  BY <1>1
<1>2. CASE q # s
  BY <1>2 DEF LockInv
<1>. QED
  BY <1>1, <1>2

\* The invariant is inductive.
LEMMA AirStep ==
  ASSUME AirInv, [Next]_vars
  PROVE  AirInv'
<1>0. /\ TasksInv /\ LockInv /\ now \in Nat /\ restarts \in Nat
      /\ \A s \in Senders : Shape(task[s])
  BY DEF AirInv, TasksInv
<1>1. ASSUME NEW s \in Senders, NEW t, Shape(t), task' = [task EXCEPT ![s] = t],
             onair' = onair, now' = now, restarts' = restarts,
             task[s].state = "sending" => task[s].until <= now,
             HasLock(t) => owner' = s,
             \/ owner' = owner
             \/ \A q \in Senders : q # s => ~HasLock(task[q])
      PROVE  AirInv'
  <2>1. TasksInv' /\ task'[s] = t /\ \A q \in Senders : q # s => task'[q] = task[q]
    BY <1>0, <1>1, TaskStep
  <2>2. LockInv'
    BY <1>0, <1>1, <2>1, LockKept
  <2>. QED
    BY <1>1, <2>1, <2>2, Quiet
<1>2. ASSUME owner = NoSender PROVE \A q \in Senders : ~HasLock(task[q])
  BY <1>0, <1>2, DutyAssumption DEF LockInv
<1>3. ASSUME NEW s \in Senders, HasLock(task[s])
      PROVE \A q \in Senders : q # s => ~HasLock(task[q])
  BY <1>0, <1>3 DEF LockInv
<1>4. ASSUME NEW s \in Senders, NEW a \in Airtimes, NEW patient \in BOOLEAN,
             Call(s, a, patient)
      PROVE AirInv'
  <2> DEFINE t == [state |-> "queued", airtime |-> a, patient |-> patient,
                   retry |-> FALSE, until |-> 0, refused |-> 0]
  <2>1. Shape(t) /\ ~HasLock(t)
    BY DEF Shape, HasLock
  <2>2. /\ task' = [task EXCEPT ![s] = t] /\ task[s].state # "sending"
        /\ UNCHANGED <<now, onair, restarts, owner>>
    BY <1>4 DEF Call, Idle
  <2> HIDE DEF t
  <2>. QED
    BY <1>1, <2>1, <2>2
<1>5. ASSUME NEW s \in Senders, StartWrite(s) PROVE AirInv'
  <2> DEFINE t == [task[s] EXCEPT !.state = "writing"]
  <2>1. /\ task' = [task EXCEPT ![s] = t] /\ task[s].state = "queued"
        /\ owner = NoSender /\ owner' = s /\ UNCHANGED <<now, onair, restarts>>
    BY <1>0, <1>5 DEF StartWrite, GetsLock, TasksInv
  <2>2. t = [state |-> "writing", airtime |-> task[s].airtime,
             patient |-> task[s].patient, retry |-> task[s].retry,
             until |-> task[s].until, refused |-> task[s].refused]
    BY <1>0, <2>1, BusyShape
  <2>3. Shape(t)
    BY <1>0, <2>1, <2>2, Reshaped
  <2> HIDE DEF t
  <2>. QED
    BY <1>1, <1>2, <2>1, <2>3
<1>6. ASSUME NEW s \in Senders, Refuse(s) PROVE AirInv'
  <2>6. PICK w, n : w = WakesAt(task[s].airtime) /\ n = sent
    OBVIOUS
  <2> DEFINE t == [task[s] EXCEPT !.state = "waiting", !.refused = n,
                                  !.until = w]
  <2>1. /\ \/ task' = [task EXCEPT ![s] = t]
           \/ task' = [task EXCEPT ![s] = Idle]
        /\ task[s].state = "queued"
        /\ UNCHANGED <<now, owner, onair, restarts>>
    BY <1>6, <2>6 DEF Refuse, GetsLock
  <2>5. Shape(task[s]) /\ task[s].state # "idle"
    BY <1>0, <2>1
  <2>2. t = [state |-> "waiting", airtime |-> task[s].airtime,
             patient |-> task[s].patient, retry |-> task[s].retry,
             until |-> w, refused |-> n]
    <3> DEFINE Rec(r, u) ==
                 [state |-> "waiting", airtime |-> task[s].airtime,
                  patient |-> task[s].patient, retry |-> task[s].retry,
                  until |-> u, refused |-> r]
    <3>1. [task[s] EXCEPT !.state = "waiting"] =
            Rec(task[s].refused, task[s].until)
      BY <2>5, ChangeState
    <3>2. [Rec(task[s].refused, task[s].until) EXCEPT !.refused = n] =
            Rec(n, task[s].until)
      OBVIOUS
    <3>3. [Rec(n, task[s].until) EXCEPT !.until = w] = Rec(n, w)
      OBVIOUS
    <3>. QED
      BY <3>1, <3>2, <3>3
  <2>3. Shape(t) /\ ~HasLock(t)
    BY <1>0, <2>1, <2>2, Reshaped DEF HasLock
  <2>4. Shape(Idle) /\ ~HasLock(Idle)
    BY DEF Shape, HasLock, Idle
  <2> HIDE DEF t
  <2>. QED
    BY <1>1, <2>1, <2>3, <2>4
<1>7. ASSUME NEW s \in Senders, Retry(s) PROVE AirInv'
  <2> DEFINE t == [task[s] EXCEPT !.state = "queued", !.retry = TRUE]
  <2>1. /\ task' = [task EXCEPT ![s] = t] /\ task[s].state = "waiting"
        /\ UNCHANGED <<now, owner, onair, restarts>>
    BY <1>0, <1>7 DEF Retry, TasksInv
  <2>2. t = [state |-> "queued", airtime |-> task[s].airtime,
             patient |-> task[s].patient, retry |-> TRUE,
             until |-> task[s].until, refused |-> task[s].refused]
    BY <1>0, <2>1, ChangeRetry
  <2>3. Shape(t) /\ ~HasLock(t)
    BY <1>0, <2>1, <2>2, Reshaped DEF HasLock
  <2> HIDE DEF t
  <2>. QED
    BY <1>1, <2>1, <2>3
<1>8. ASSUME NEW s \in Senders, WriteFails(s) \/ Finish(s) PROVE AirInv'
  <2>1. /\ task' = [task EXCEPT ![s] = Idle] /\ HasLock(task[s])
        /\ task[s].state = "sending" => task[s].until <= now
        /\ UNCHANGED <<now, onair, restarts>>
    BY <1>8 DEF WriteFails, Finish, HasLock
  <2>2. Shape(Idle) /\ ~HasLock(Idle)
    BY DEF Shape, HasLock, Idle
  <2>. QED
    BY <1>1, <1>3, <2>1, <2>2
<1>9. ASSUME NEW s \in Senders, Written(s) PROVE AirInv'
  <2> DEFINE a == task[s].airtime
             f == [at |-> now, airtime |-> a, run |-> restarts]
             t == [task[s] EXCEPT !.state = "sending", !.until = now + a]
  <2>1. /\ task' = [task EXCEPT ![s] = t] /\ task[s].state = "writing"
        /\ onair' = onair \cup {f} /\ owner' = owner
        /\ UNCHANGED <<now, restarts>>
    BY <1>0, <1>9 DEF Written, OwnerOnAir, TasksInv
  <2>2. a \in Airtimes /\ a \in Nat
    BY <1>0, <2>1, BusyShape, DutyAssumption
  <2>13. Shape(task[s]) /\ task[s].state # "idle"
    BY <1>0, <2>1
  <2>12. t = [state |-> "sending", airtime |-> task[s].airtime,
              patient |-> task[s].patient, retry |-> task[s].retry,
              until |-> now + a, refused |-> task[s].refused]
    BY <2>13, ChangeUntil
  <2>3. Shape(t) /\ t.state = "sending" /\ t.until = now + a
    <3>1. now + a \in Nat
      BY <1>0, <2>2
    <3>. QED
      BY <1>0, <2>1, <2>12, <3>1, Reshaped
  <2>4. \A e \in onair : e.run = restarts => End(e) <= now
    BY <2>1, NothingOnAir
  <2>5. /\ f \in Frame /\ onair \cup {f} \subseteq Frame
        /\ \A d, e \in onair \cup {f} :
             d # e /\ d.run = e.run =>
               d.at + d.airtime <= e.at \/ e.at + e.airtime <= d.at
    BY <2>2, <2>4, NewFrame
  <2>6. f.at = now /\ f.airtime = a /\ f.run = restarts
    OBVIOUS
  <2> HIDE DEF t, f
  <2>7. TasksInv' /\ task'[s] = t /\ \A q \in Senders : q # s => task'[q] = task[q]
    BY <1>0, <2>1, <2>3, TaskStep
  <2>8. LockInv'
    <3>1. owner = s
      BY <1>0, <2>1 DEF LockInv, HasLock
    <3>. QED
      BY <1>0, <2>1, <2>7, <3>1, LockKept
  <2>9. OnAirInv'
    BY <1>0, <2>1, <2>5, <2>6 DEF AirInv, OnAirInv
  <2>10. TailInv'
    <3> SUFFICES ASSUME NEW e \in onair \cup {f}, e.run = restarts
                 PROVE  \/ End(e) <= now
                        \/ \E q \in Senders : /\ task'[q].state = "sending"
                                              /\ End(e) <= task'[q].until
      BY <2>1 DEF TailInv
    <3>1. CASE e \in onair
      BY <2>4, <3>1
    <3>2. CASE e = f
      <4>1. End(e) = now + a /\ now + a \in Nat
        BY <1>0, <2>2, <2>6, <3>2 DEF End
      <4>2. task'[s].state = "sending" /\ End(e) <= task'[s].until
        BY <2>3, <2>7, <4>1
      <4>. QED
        BY <4>2
    <3>. QED
      BY <3>1, <3>2
  <2>11. OneAtATime'
    BY <2>1, <2>5 DEF OneAtATime
  <2>. QED
    BY <2>7, <2>8, <2>9, <2>10, <2>11 DEF AirInv
<1>10. ASSUME Restart PROVE AirInv'
  <2>1. /\ restarts' = restarts + 1 /\ now' = now
        /\ task' = [s \in Senders |-> Idle]
    BY <1>10 DEF Restart
  <2>2. PICK W \in SUBSET BeingWritten : onair' = onair \cup W
    BY <1>10 DEF Restart
  <2>3. TasksInv' /\ LockInv'
    <3>1. \A s \in Senders : task'[s] = Idle /\ Shape(Idle) /\ ~HasLock(Idle)
      BY <2>1 DEF Shape, HasLock, Idle
    <3>. QED
      BY <1>0, <2>1, <3>1 DEF TasksInv, LockInv, HasLock
  <2>4. CASE W = {}
    <3>1. onair' = onair
      BY <2>2, <2>4
    <3>2. OnAirInv'
      BY <1>0, <2>1, <3>1 DEF AirInv, OnAirInv, Frame
    <3>3. TailInv'
      BY <1>0, <2>1, <3>1 DEF AirInv, OnAirInv, TailInv, Frame
    <3>4. OneAtATime'
      BY <3>1 DEF AirInv, OneAtATime
    <3>. QED
      BY <2>3, <3>2, <3>3, <3>4 DEF AirInv
  <2>5. CASE W # {}
    <3>1. PICK s \in Senders : task[s].state = "writing"
      BY <2>5 DEF BeingWritten
    <3> DEFINE a == task[s].airtime
               f == [at |-> now, airtime |-> a, run |-> restarts]
    <3>2. \A q \in Senders : task[q].state = "writing" => q = s
      BY <1>3, <3>1 DEF HasLock
    <3>3. W = {f}
      BY <2>5, <3>1, <3>2 DEF BeingWritten
    <3>4. a \in Airtimes
      BY <1>0, <3>1, BusyShape
    <3>5. \A e \in onair : e.run = restarts => End(e) <= now
      BY <3>1, NothingOnAir
    <3>6. /\ f \in Frame /\ onair \cup {f} \subseteq Frame
          /\ \A d, e \in onair \cup {f} :
               d # e /\ d.run = e.run =>
                 d.at + d.airtime <= e.at \/ e.at + e.airtime <= d.at
      BY <3>4, <3>5, NewFrame
    <3>7. f.at = now /\ f.run = restarts
      OBVIOUS
    <3> HIDE DEF f
    <3>8. onair' = onair \cup {f}
      BY <2>2, <3>3
    <3>9. \A e \in onair \cup {f} : e.at <= now /\ e.run <= restarts
      BY <1>0, <3>7 DEF AirInv, OnAirInv
    <3>10. OnAirInv'
      BY <1>0, <2>1, <3>6, <3>8, <3>9 DEF OnAirInv, Frame
    <3>11. TailInv'
      BY <1>0, <2>1, <3>6, <3>8, <3>9 DEF TailInv, Frame
    <3>12. OneAtATime'
      BY <3>6, <3>8 DEF OneAtATime
    <3>. QED
      BY <2>3, <3>10, <3>11, <3>12 DEF AirInv
  <2>. QED
    BY <2>4, <2>5
<1>11. ASSUME Tick PROVE AirInv'
  <2>1. now' = now + 1 /\ UNCHANGED <<owner, task, onair, restarts>>
    BY <1>11 DEF Tick
  <2>2. TasksInv' /\ LockInv'
    BY <1>0, <2>1 DEF TasksInv, LockInv
  <2>3. OnAirInv'
    BY <1>0, <2>1 DEF AirInv, OnAirInv, Frame
  <2>4. ASSUME NEW e \in onair PROVE End(e) \in Nat
    <3>1. e \in Frame
      BY <2>4 DEF AirInv, OnAirInv
    <3>2. e.at \in Nat /\ e.airtime \in Nat
      BY <3>1, DutyAssumption DEF Frame
    <3>. QED
      BY <3>2 DEF End
  <2>5. TailInv'
    BY <1>0, <2>1, <2>4 DEF AirInv, TailInv
  <2>6. OneAtATime'
    BY <2>1 DEF AirInv, OneAtATime
  <2>. QED
    BY <2>2, <2>3, <2>5, <2>6 DEF AirInv
<1>12. CASE UNCHANGED vars
  BY <1>12 DEF vars, AirInv, TasksInv, LockInv, OnAirInv, TailInv, OneAtATime
<1>. QED
  BY <1>4, <1>5, <1>6, <1>7, <1>8, <1>9, <1>10, <1>11, <1>12 DEF Next

\* The transmit lock keeps a process from having two frames on the air, however
\* its tasks interleave, fail, wait and restart (LoRaTransport.send).
THEOREM HalfDuplex == Spec => []OneAtATime
<1>1. AirInv => OneAtATime
  BY DEF AirInv
<1>. QED
  BY <1>1, AirInit, AirStep, PTL DEF Spec

-----------------------------------------------------------------------------
(* Sums of airtime are counts of ticks *)

\* Among subsets of a finite set there is one that contains no other of them.
LEMMA SmallestSet ==
  ASSUME NEW S, IsFiniteSet(S), NEW T, T \subseteq SUBSET S, T # {}
  PROVE  \E s \in T : \A x \in s : s \ {x} \notin T
<1> DEFINE R == StrictSubsetOrdering(S)
<1>1. IsWellFoundedOn(R, SUBSET S)
  <2>1. IsWellFoundedOn(R, FiniteSubsetsOf(S))
    BY FS_StrictSubsetOrderingWellFounded
  <2>. QED
    BY <2>1, FS_FiniteSubsetsOfFinite
<1> HIDE DEF R
<1>2. PICK s \in T : \A y \in T : ~(<<y, s>> \in R)
  BY <1>1, WFMin
<1>3. ASSUME NEW x \in s, s \ {x} \in T PROVE FALSE
  <2>1. <<s \ {x}, s>> \in R
    BY <1>3 DEF R, StrictSubsetOrdering
  <2>. QED
    BY <1>2, <1>3, <2>1
<1>. QED
  BY <1>2, <1>3

\* What holds of the empty set, and of a set if it holds without one of its
\* members, holds of every finite set.
LEMMA SetInduction ==
  ASSUME NEW S, IsFiniteSet(S), NEW C, {} \in C,
         \A s \in SUBSET S : \A x \in s : s \ {x} \in C => s \in C
  PROVE  S \in C
<1> DEFINE T == {s \in SUBSET S : s \notin C}
<1> SUFFICES ASSUME S \notin C PROVE FALSE
  OBVIOUS
<1>1. T \subseteq SUBSET S /\ T # {}
  OBVIOUS
<1>2. \A s : s \in T <=> s \in SUBSET S /\ s \notin C
  OBVIOUS
<1> HIDE DEF T
<1>3. PICK s \in T : \A x \in s : s \ {x} \notin T
  BY <1>1, SmallestSet
<1>4. s # {}
  BY <1>2, <1>3
<1>5. PICK x : x \in s
  BY <1>4
<1>. QED
  BY <1>2, <1>3, <1>5

\* The units of s, of which each member x has w[x].
Units(w, s) == {u \in s \X Nat : 1 <= u[2] /\ u[2] <= w[u[1]]}

\* The units of a set are those of one member and those of the others.
LEMMA UnitsSplit ==
  ASSUME NEW S, NEW w \in [S -> Nat], NEW s \in SUBSET S, NEW x \in s,
         IsFiniteSet(Units(w, s \ {x}))
  PROVE  /\ IsFiniteSet(Units(w, s))
         /\ Cardinality(Units(w, s)) = w[x] + Cardinality(Units(w, s \ {x}))
<1> DEFINE X == {x} \X (1 .. w[x])
<1>1. IsFiniteSet(X) /\ Cardinality(X) = w[x]
  <2>1. w[x] \in Nat /\ IsFiniteSet({x}) /\ Cardinality({x}) = 1
    BY FS_Singleton
  <2>2. IsFiniteSet(1 .. w[x]) /\ Cardinality(1 .. w[x]) = w[x]
    BY <2>1, FS_Interval
  <2>. QED
    BY <2>1, <2>2, FS_Product
<1>2. Units(w, s) = X \cup Units(w, s \ {x})
  <2>1. ASSUME NEW u \in Units(w, s) PROVE u \in X \cup Units(w, s \ {x})
    <3>1. u \in s \X Nat /\ 1 <= u[2] /\ u[2] <= w[u[1]] /\ w[u[1]] \in Nat
      BY DEF Units
    <3>. QED
      BY <3>1 DEF Units
  <2>2. ASSUME NEW u \in X PROVE u \in Units(w, s)
    <3>1. u \in s \X Nat /\ u[1] = x /\ 1 <= u[2] /\ u[2] <= w[x]
      OBVIOUS
    <3>. QED
      BY <3>1 DEF Units
  <2>3. Units(w, s \ {x}) \subseteq Units(w, s)
    BY DEF Units
  <2>. QED
    BY <2>1, <2>2, <2>3
<1>3. X \cap Units(w, s \ {x}) = {}
  BY DEF Units
<1> HIDE DEF X
<1>4. Cardinality({}) = 0 /\ w[x] \in Nat
  BY FS_EmptySet
<1> DEFINE Y == Units(w, s \ {x})
<1>5. IsFiniteSet(Y) /\ Cardinality(Y) \in Nat
  BY FS_CardinalityType
<1> HIDE DEF Y
<1>6. /\ IsFiniteSet(X \cup Y)
      /\ Cardinality(X \cup Y) = Cardinality(X) + Cardinality(Y) - Cardinality(X \cap Y)
  BY <1>1, <1>5, FS_Union
<1>7. X \cap Y = {} /\ Units(w, s) = X \cup Y
  BY <1>2, <1>3 DEF Y
<1>8. Cardinality(Units(w, s)) = w[x] + Cardinality(Y)
  <2>1. Cardinality(X \cap Y) = 0
    BY <1>4, <1>7
  <2>2. Cardinality(Units(w, s)) = Cardinality(X \cup Y)
    BY <1>7
  <2>. QED
    BY <1>1, <1>4, <1>5, <1>6, <2>1, <2>2
<1>. QED
  BY <1>6, <1>7, <1>8 DEF Y

\* A finite set has finitely many units.
LEMMA UnitsFinite ==
  ASSUME NEW S, IsFiniteSet(S), NEW w \in [S -> Nat]
  PROVE  \A s \in SUBSET S : IsFiniteSet(Units(w, s))
<1> SUFFICES ASSUME NEW s \in SUBSET S PROVE IsFiniteSet(Units(w, s))
  OBVIOUS
<1> DEFINE C == {t \in SUBSET S : IsFiniteSet(Units(w, t))}
<1>1. {} \in C
  <2>1. Units(w, {}) = {}
    BY DEF Units
  <2>. QED
    BY <2>1, FS_EmptySet
<1>2. ASSUME NEW t \in SUBSET s, NEW x \in t, t \ {x} \in C
      PROVE  t \in C
  <2>1. t \in SUBSET S /\ IsFiniteSet(Units(w, t \ {x}))
    BY <1>2
  <2>. QED
    BY <2>1, UnitsSplit
<1>3. IsFiniteSet(s)
  BY FS_Subset
<1> HIDE DEF C
<1>4. s \in C
  BY <1>1, <1>2, <1>3, SetInduction
<1>. QED
  BY <1>4 DEF C

Pick(s) == CHOOSE x \in s : TRUE

\* The recursion by which MapThenSumSet adds.
Adds(it, w, S) ==
  it = [s \in SUBSET S |->
          IF s = {} THEN 0 ELSE w[Pick(s)] + it[s \ {Pick(s)}]]

\* Adding is counting.
LEMMA SumIsCount ==
  ASSUME NEW S, IsFiniteSet(S), NEW w \in [S -> Nat]
  PROVE  /\ \E it : Adds(it, w, S)
         /\ \A it : Adds(it, w, S) => it[S] = Cardinality(Units(w, S))
<1>0. ASSUME NEW s \in SUBSET S, s # {}
      PROVE  /\ Pick(s) \in s /\ s \ {Pick(s)} \in SUBSET S
             /\ Cardinality(Units(w, s)) = w[Pick(s)] + Cardinality(Units(w, s \ {Pick(s)}))
  <2>1. Pick(s) \in s
    BY <1>0 DEF Pick
  <2>2. s \ {Pick(s)} \in SUBSET S
    OBVIOUS
  <2>3. IsFiniteSet(Units(w, s \ {Pick(s)}))
    BY <2>2, UnitsFinite
  <2>. QED
    BY <2>1, <2>2, <2>3, UnitsSplit
<1>00. Cardinality(Units(w, {})) = 0
  <2>1. Units(w, {}) = {}
    BY DEF Units
  <2>. QED
    BY <2>1, FS_EmptySet
<1>1. \E it : Adds(it, w, S)
  <2> DEFINE c == [s \in SUBSET S |-> Cardinality(Units(w, s))]
             d == [s \in SUBSET S |->
                     IF s = {} THEN 0 ELSE w[Pick(s)] + c[s \ {Pick(s)}]]
  <2>1. ASSUME NEW s \in SUBSET S PROVE c[s] = d[s]
    BY <1>0, <1>00
  <2>2. c = d
    BY <2>1
  <2>. QED
    BY <2>2 DEF Adds
<1>2. ASSUME NEW it, Adds(it, w, S) PROVE it[S] = Cardinality(Units(w, S))
  <2> DEFINE C == {t \in SUBSET S : it[t] = Cardinality(Units(w, t))}
  <2>0. ASSUME NEW t \in SUBSET S
        PROVE it[t] = IF t = {} THEN 0 ELSE w[Pick(t)] + it[t \ {Pick(t)}]
    <3> DEFINE d == [s \in SUBSET S |->
                     IF s = {} THEN 0 ELSE w[Pick(s)] + it[s \ {Pick(s)}]]
    <3>1. it = d
      BY <1>2 DEF Adds
    <3>2. d[t] = IF t = {} THEN 0 ELSE w[Pick(t)] + it[t \ {Pick(t)}]
      OBVIOUS
    <3> HIDE DEF d
    <3>. QED
      BY <3>1, <3>2
  <2>1. {} \in C
    BY <1>00, <2>0
  <2>2. ASSUME NEW t \in SUBSET S, t # {}, t \ {Pick(t)} \in C PROVE t \in C
    BY <1>0, <2>0, <2>2
  <2> DEFINE T == {t \in SUBSET S : t \notin C}
  <2>3. T \subseteq SUBSET S /\ \A t : t \in T <=> t \in SUBSET S /\ t \notin C
    OBVIOUS
  <2> HIDE DEF T, C
  <2>4. T = {}
    <3> SUFFICES ASSUME T # {} PROVE FALSE
      OBVIOUS
    <3>1. PICK t \in T : \A x \in t : t \ {x} \notin T
      BY <2>3, SmallestSet
    <3>2. t # {} /\ t \in SUBSET S
      BY <2>1, <2>3
    <3>3. Pick(t) \in t /\ t \ {Pick(t)} \in SUBSET S
      BY <1>0, <3>2
    <3>. QED
      BY <2>2, <2>3, <3>1, <3>2, <3>3
  <2>5. S \in C
    BY <2>3, <2>4
  <2>. QED
    BY <2>5 DEF C
<1>. QED
  BY <1>1, <1>2

\* The airtime of events is the number of their ticks.
LEMMA AirtimeCount ==
  ASSUME NEW es, NEW S, IsFiniteSet(S), \A i \in S : es[i].airtime \in Nat
  PROVE  Airtime(es, S) = Cardinality(Units([i \in S |-> es[i].airtime], S))
<1> DEFINE w == [i \in S |-> es[i].airtime]
           A(it) == it = [s \in SUBSET S |-> IF s = {} THEN 0
                       ELSE es[CHOOSE x \in s : TRUE].airtime + it[s \ {CHOOSE x \in s : TRUE}]]
<1>1. Airtime(es, S) = (CHOOSE it : A(it))[S]
  BY DEF A, Airtime, MapThenSumSet, MapThenFoldSet
<1>2. w \in [S -> Nat]
  OBVIOUS
<1>3. ASSUME NEW s \in SUBSET S, s # {}
      PROVE  w[Pick(s)] = es[CHOOSE x \in s : TRUE].airtime
  BY <1>3 DEF Pick
<1>4. ASSUME NEW it PROVE A(it) <=> Adds(it, w, S)
  <2> DEFINE a == [s \in SUBSET S |-> IF s = {} THEN 0
                       ELSE es[CHOOSE x \in s : TRUE].airtime + it[s \ {CHOOSE x \in s : TRUE}]]
             b == [s \in SUBSET S |->
          IF s = {} THEN 0 ELSE w[Pick(s)] + it[s \ {Pick(s)}]]
  <2>1. ASSUME NEW s \in SUBSET S PROVE a[s] = b[s]
    BY <1>3 DEF Pick
  <2>2. a = b
    BY <2>1
  <2>. QED
    BY <2>2 DEF Adds
<1> HIDE DEF w, A
<1>5. \E it : A(it)
  BY <1>2, <1>4, SumIsCount
<1>6. A(CHOOSE it : A(it))
  BY <1>5
<1>7. Adds(CHOOSE it : A(it), w, S)
  BY <1>4, <1>6
<1>8. Airtime(es, S) = Cardinality(Units(w, S))
  BY <1>1, <1>2, <1>7, SumIsCount
<1>. QED
  BY <1>8 DEF w

\* What can be mapped into a finite set without two going to one place is not
\* larger than it.
LEMMA CountInto ==
  ASSUME NEW S, NEW T, IsFiniteSet(T), NEW f \in [S -> T],
         \A a, b \in S : f[a] = f[b] => a = b
  PROVE  IsFiniteSet(S) /\ Cardinality(S) <= Cardinality(T)
<1>1. f \in Injection(S, T)
  BY DEF Injection, IsInjective
<1>. QED
  BY <1>1, FS_Injection

\* Numbers have a smallest one.
LEMMA SmallestNumber ==
  ASSUME NEW K, K \subseteq Nat, K # {}
  PROVE  \E x \in K : \A y \in K : x <= y
<1> DEFINE R == OpToRel(<, Nat)
<1>1. IsWellFoundedOn(R, Nat)
  BY NatLessThanWellFounded
<1>2. \A x, y \in Nat : x < y => <<x, y>> \in R
  BY DEF OpToRel
<1> HIDE DEF R
<1>3. PICK x \in K : \A y \in K : ~(<<y, x>> \in R)
  BY <1>1, WFMin
<1>4. ASSUME NEW y \in K PROVE x <= y
  <2>1. x \in Nat /\ y \in Nat
    OBVIOUS
  <2>2. ~(y < x)
    BY <1>2, <1>3, <2>1
  <2>. QED
    BY <2>1, <2>2
<1>. QED
  BY <1>4

\* The ticks of the events of es at the positions in S, and of frames.
EventTicks(es, S) == {u \in S \X Nat : 1 <= u[2] /\ u[2] <= es[u[1]].airtime}
FrameTicks(R) == {u \in R \X Nat : 1 <= u[2] /\ u[2] <= u[1].airtime}

\* Which events have begun at t or later.
Since(es, t) == {i \in DOMAIN es : es[i].at >= t}

\* The airtime of events is finite, and it is the number of their ticks.
LEMMA EventTicksCount ==
  ASSUME NEW es \in Seq(Event), NEW S \in SUBSET DOMAIN es
  PROVE  /\ IsFiniteSet(S) /\ IsFiniteSet(EventTicks(es, S))
         /\ Cardinality(EventTicks(es, S)) \in Nat
         /\ Airtime(es, S) = Cardinality(EventTicks(es, S))
<1> DEFINE w == [i \in S |-> es[i].airtime]
<1>1. IsFiniteSet(S)
  <2>1. DOMAIN es = 1 .. Len(es) /\ Len(es) \in Nat
    OBVIOUS
  <2>2. IsFiniteSet(1 .. Len(es))
    BY <2>1, FS_Interval
  <2>. QED
    BY <2>1, <2>2, FS_Subset
<1>2. \A i \in S : es[i].airtime \in Nat
  <2> SUFFICES ASSUME NEW i \in S PROVE es[i].airtime \in Nat
    OBVIOUS
  <2>1. es[i] \in Event
    BY ElementOfSeq
  <2>. QED
    BY <2>1, DutyAssumption DEF Event
<1>3. w \in [S -> Nat]
  BY <1>2
<1>4. Units(w, S) = EventTicks(es, S)
  BY DEF Units, EventTicks
<1> HIDE DEF w
<1>5. IsFiniteSet(Units(w, S))
  BY <1>1, <1>3, UnitsFinite
<1>6. Airtime(es, S) = Cardinality(Units(w, S))
  BY <1>1, <1>2, AirtimeCount DEF w
<1>. QED
  BY <1>1, <1>4, <1>5, <1>6, FS_CardinalityType

\* A frame more is its airtime more.
LEMMA FrameTicksMore ==
  ASSUME NEW R, IsFiniteSet(R), R \subseteq Frame, NEW f \in Frame
  PROVE  /\ IsFiniteSet(FrameTicks(R)) /\ Cardinality(FrameTicks(R)) \in Nat
         /\ IsFiniteSet(FrameTicks(R \cup {f}))
         /\ f \notin R => Cardinality(FrameTicks(R \cup {f})) = f.airtime + Cardinality(FrameTicks(R))
<1> DEFINE S == R \cup {f}
           w == [e \in S |-> e.airtime]
<1>1. IsFiniteSet(S)
  BY FS_AddElement
<1>2. w \in [S -> Nat]
  BY DutyAssumption DEF Frame
<1>3. /\ Units(w, S) = FrameTicks(S)
      /\ Units(w, R) = FrameTicks(R)
      /\ f \notin R => Units(w, S \ {f}) = FrameTicks(R)
  <2>1. f \notin R => S \ {f} = R
    OBVIOUS
  <2>2. \A T \in SUBSET S : Units(w, T) = FrameTicks(T)
    BY DEF Units, FrameTicks
  <2>. QED
    BY <2>1, <2>2
<1>4. R \in SUBSET S /\ S \in SUBSET S /\ f \in S /\ w[f] = f.airtime
  OBVIOUS
<1> HIDE DEF w, S
<1>5. IsFiniteSet(Units(w, S)) /\ IsFiniteSet(Units(w, R))
  BY <1>1, <1>2, <1>4, UnitsFinite
<1>6. f \notin R => Cardinality(Units(w, S)) = w[f] + Cardinality(Units(w, S \ {f}))
  BY <1>2, <1>3, <1>4, <1>5, UnitsSplit
<1>. QED
  BY <1>3, <1>4, <1>5, <1>6, FS_CardinalityType DEF S

\* The events that stay are the last ones, and all that are recent enough.
LEMMA PrunedIs ==
  ASSUME NEW es \in Seq(Event), now \in Nat
  PROVE  /\ Pruned(es) \in Seq(Event)
         /\ \E d \in 0 .. Len(es) :
              /\ Len(Pruned(es)) = Len(es) - d
              /\ \A i \in 1 .. Len(Pruned(es)) : Pruned(es)[i] = es[i + d]
              /\ \A i \in 1 .. d : es[i].at < now - Window
              /\ d < Len(es) => es[d + 1].at >= now - Window
<1> DEFINE K == Recent(es)
<1>1. Len(es) \in Nat /\ DOMAIN es = 1 .. Len(es)
  OBVIOUS
<1>2. \A i \in 1 .. Len(es) : es[i].at \in Nat
  <2> SUFFICES ASSUME NEW i \in 1 .. Len(es) PROVE es[i].at \in Nat
    OBVIOUS
  <2>1. es[i] \in Event
    BY <1>1, ElementOfSeq
  <2>. QED
    BY <2>1 DEF Event
<1>3. now - Window \in Int
  BY DutyAssumption
<1>4. \A i : i \in K <=> i \in 1 .. Len(es) /\ es[i].at >= now - Window
  BY <1>1 DEF Recent
<1>5. CASE K = {}
  <2>1. Pruned(es) = << >>
    BY <1>5 DEF Pruned
  <2>2. \A i \in 1 .. Len(es) : es[i].at < now - Window
    BY <1>2, <1>3, <1>4, <1>5
  <2>3. Len(es) \in 0 .. Len(es) /\ Len(Pruned(es)) = Len(es) - Len(es) /\ Pruned(es) \in Seq(Event)
    BY <1>1, <2>1
  <2>4. \A i \in 1 .. Len(Pruned(es)) : Pruned(es)[i] = es[i + Len(es)]
    BY <1>1, <2>3
  <2>5. \E d \in 0 .. Len(es) :
              /\ Len(Pruned(es)) = Len(es) - d
              /\ \A i \in 1 .. Len(Pruned(es)) : Pruned(es)[i] = es[i + d]
              /\ \A i \in 1 .. d : es[i].at < now - Window
              /\ d < Len(es) => es[d + 1].at >= now - Window
    <3>1. ~(Len(es) < Len(es))
      BY <1>1
    <3> WITNESS Len(es) \in 0 .. Len(es)
    <3>. QED
      BY <2>2, <2>3, <2>4, <3>1
  <2>. QED
    BY <2>3, <2>5
<1>6. CASE K # {}
  <2> DEFINE m == Min(K)
  <2>1. K \subseteq Nat
    BY <1>1, <1>4
  <2>2. m \in K /\ \A i \in K : m <= i
    <3>1. \E x \in K : \A y \in K : x <= y
      BY <1>6, <2>1, SmallestNumber
    <3>. QED
      BY <3>1 DEF Min
  <2>3. Pruned(es) = SubSeq(es, m, Len(es))
    BY <1>6 DEF Pruned
  <2>4. m \in 1 .. Len(es) /\ es[m].at >= now - Window
    BY <1>4, <2>2
  <2> HIDE DEF m
  <2>5. /\ Pruned(es) \in Seq(Event)
        /\ Len(Pruned(es)) = Len(es) - (m - 1)
        /\ \A i \in 1 .. Len(Pruned(es)) : Pruned(es)[i] = es[i + (m - 1)]
    <3>1. /\ m \in Int /\ Len(es) \in Int
          /\ \A i \in m .. Len(es) : es[i] \in Event
      <4>1. \A i \in m .. Len(es) : i \in 1 .. Len(es)
        BY <1>1, <2>4
      <4>. QED
        BY <1>1, <2>4, <4>1, ElementOfSeq
    <3>2. /\ SubSeq(es, m, Len(es)) \in Seq(Event)
          /\ Len(SubSeq(es, m, Len(es))) = IF m <= Len(es) THEN Len(es) - m + 1 ELSE 0
          /\ \A i \in 1 .. Len(es) - m + 1 : SubSeq(es, m, Len(es))[i] = es[m + i - 1]
      BY <1>1, <3>1, SubSeqProperties
    <3>3. \A i \in 1 .. Len(es) - m + 1 : m + i - 1 = i + (m - 1)
      BY <1>1, <2>4
    <3>. QED
      BY <1>1, <2>3, <2>4, <3>2, <3>3
  <2>6. \A i \in 1 .. m - 1 : es[i].at < now - Window
    <3> SUFFICES ASSUME NEW i \in 1 .. m - 1 PROVE es[i].at < now - Window
      OBVIOUS
    <3>1. i \in 1 .. Len(es) /\ ~(m <= i)
      BY <1>1, <2>4
    <3>2. i \notin K
      BY <2>2, <3>1
    <3>. QED
      BY <1>2, <1>3, <1>4, <3>1, <3>2
  <2>7. m - 1 \in 0 .. Len(es) /\ es[(m - 1) + 1].at >= now - Window
    <3>1. (m - 1) + 1 = m
      BY <1>1, <2>4
    <3>. QED
      BY <1>1, <2>4, <3>1
  <2>. QED
    BY <2>5, <2>6, <2>7
<1>. QED
  BY <1>5, <1>6

-----------------------------------------------------------------------------
(* The governor's events, and what they leave room for *)

InOrder(es) == \A i, j \in DOMAIN es : i <= j => es[i].at <= es[j].at

\* The governor has the events of the past, in the order of their begin.
EventsInv ==
  /\ events \in Seq(Event)
  /\ \A i \in DOMAIN events : events[i].at <= now
  /\ InOrder(events)

\* Room for a beside the events that begin at t or later.
RoomIn(es, a, t) == Cardinality(EventTicks(es, Since(es, t))) + a <= Budget

\* What an event is.
LEMMA EventIs ==
  ASSUME NEW es \in Seq(Event), NEW i \in DOMAIN es
  PROVE  /\ DOMAIN es = 1 .. Len(es) /\ Len(es) \in Nat /\ i \in Nat
         /\ es[i] \in Event /\ es[i].at \in Nat /\ es[i].airtime \in Nat
<1>1. DOMAIN es = 1 .. Len(es) /\ Len(es) \in Nat
  OBVIOUS
<1>2. i \in 1 .. Len(es)
  BY <1>1
<1>3. es[i] \in Event
  BY <1>2, ElementOfSeq
<1>4. es[i].at \in Nat /\ es[i].airtime \in Airtimes
  BY <1>3 DEF Event
<1>5. es[i].airtime \in Nat
  BY <1>4, DutyAssumption
<1>. QED
  BY <1>1, <1>2, <1>3, <1>4, <1>5

\* Pruning keeps the order, and keeps what is recent only.
LEMMA PrunedOrder ==
  ASSUME NEW es \in Seq(Event), InOrder(es), now \in Nat,
         \A i \in DOMAIN es : es[i].at <= now
  PROVE  /\ InOrder(Pruned(es))
         /\ \A i \in DOMAIN Pruned(es) :
              Pruned(es)[i].at <= now /\ Pruned(es)[i].at >= now - Window
<1> DEFINE p == Pruned(es)
<1>1. PICK d \in 0 .. Len(es) :
              /\ Len(p) = Len(es) - d
              /\ \A i \in 1 .. Len(p) : p[i] = es[i + d]
              /\ \A i \in 1 .. d : es[i].at < now - Window
              /\ d < Len(es) => es[d + 1].at >= now - Window
  BY PrunedIs
<1>2. p \in Seq(Event)
  BY PrunedIs
<1> HIDE DEF p
<1>3. DOMAIN p = 1 .. Len(p) /\ Len(p) \in Nat /\ DOMAIN es = 1 .. Len(es) /\ Len(es) \in Nat
  BY <1>2
<1>4. \A i \in DOMAIN p : i \in Nat /\ i + d \in DOMAIN es /\ d + 1 \in DOMAIN es /\ d + 1 <= i + d
                          /\ p[i] = es[i + d] /\ es[d + 1].at >= now - Window
  BY <1>1, <1>3
<1>5. InOrder(p)
  <2> SUFFICES ASSUME NEW i \in DOMAIN p, NEW j \in DOMAIN p, i <= j
               PROVE  p[i].at <= p[j].at
    BY DEF InOrder
  <2>1. i + d <= j + d
    BY <1>1, <1>4
  <2>. QED
    BY <1>4, <2>1 DEF InOrder
<1>6. ASSUME NEW i \in DOMAIN p PROVE p[i].at <= now /\ p[i].at >= now - Window
  <2>1. es[d + 1].at <= es[i + d].at
    BY <1>4 DEF InOrder
  <2>2. es[d + 1].at \in Nat /\ es[i + d].at \in Nat
    BY <1>4, EventIs
  <2>3. now - Window \in Int
    BY DutyAssumption
  <2>. QED
    BY <1>4, <2>1, <2>2, <2>3
<1>. QED
  BY <1>5, <1>6 DEF p

\* Pruning takes no room.
LEMMA PrunedRoom ==
  ASSUME NEW es \in Seq(Event), now \in Nat, NEW t \in Int, NEW a \in Nat,
         RoomIn(es, a, t)
  PROVE  RoomIn(Pruned(es), a, t)
<1> DEFINE p == Pruned(es)
           A == EventTicks(p, Since(p, t))
           B == EventTicks(es, Since(es, t))
<1>1. PICK d \in 0 .. Len(es) :
              /\ Len(p) = Len(es) - d
              /\ \A i \in 1 .. Len(p) : p[i] = es[i + d]
  BY PrunedIs
<1>2. p \in Seq(Event)
  BY PrunedIs
<1> HIDE DEF p
<1>3. DOMAIN p = 1 .. Len(p) /\ Len(p) \in Nat /\ DOMAIN es = 1 .. Len(es) /\ Len(es) \in Nat
  BY <1>2
<1>4. \A i \in DOMAIN p : i \in Nat /\ i + d \in DOMAIN es /\ p[i] = es[i + d]
  BY <1>1, <1>3
<1>5. Since(es, t) \in SUBSET DOMAIN es /\ Since(p, t) \in SUBSET DOMAIN p
  BY DEF Since
<1>6. /\ IsFiniteSet(B) /\ Cardinality(B) \in Nat
      /\ IsFiniteSet(A) /\ Cardinality(A) \in Nat
  BY <1>2, <1>5, EventTicksCount
<1> DEFINE f == [u \in A |-> <<u[1] + d, u[2]>>]
<1>7. \A u \in A : u = <<u[1], u[2]>> /\ u[1] \in DOMAIN p /\ p[u[1]].at >= t /\ u[2] \in Nat
                   /\ 1 <= u[2] /\ u[2] <= p[u[1]].airtime
  BY DEF EventTicks, Since
<1>8. f \in [A -> B]
  <2> SUFFICES ASSUME NEW u \in A PROVE <<u[1] + d, u[2]>> \in B
    OBVIOUS
  <2>1. u[1] + d \in Since(es, t)
    BY <1>4, <1>7 DEF Since
  <2>2. u[2] <= es[u[1] + d].airtime
    BY <1>4, <1>7
  <2>. QED
    BY <1>7, <2>1, <2>2 DEF EventTicks
<1>9. ASSUME NEW u \in A, NEW v \in A, f[u] = f[v] PROVE u = v
  <2>1. u[1] + d = v[1] + d /\ u[2] = v[2]
    BY <1>9
  <2>2. u[1] \in Nat /\ v[1] \in Nat /\ d \in Nat
    BY <1>3, <1>4, <1>7
  <2>3. u[1] = v[1]
    BY <2>1, <2>2
  <2>. QED
    BY <1>7, <2>1, <2>3
<1> HIDE DEF f, A, B
<1>10. Cardinality(A) <= Cardinality(B)
  BY <1>6, <1>8, <1>9, CountInto
<1>11. Cardinality(B) + a <= Budget
  BY DEF RoomIn, B
<1>12. Cardinality(A) + a <= Budget
  BY <1>6, <1>10, <1>11, DutyAssumption
<1>. QED
  BY <1>12 DEF RoomIn, A, p

\* Later there is no less room.
LEMMA LaterRoom ==
  ASSUME NEW es \in Seq(Event), NEW t \in Int, NEW u \in Int, t <= u, NEW a \in Nat,
         RoomIn(es, a, t)
  PROVE  RoomIn(es, a, u)
<1> DEFINE A == EventTicks(es, Since(es, u))
           B == EventTicks(es, Since(es, t))
<1>1. Since(es, u) \subseteq Since(es, t)
  <2> SUFFICES ASSUME NEW i \in DOMAIN es, es[i].at >= u PROVE es[i].at >= t
    BY DEF Since
  <2>1. es[i].at \in Nat
    BY EventIs
  <2>. QED
    BY <2>1
<1>2. A \in SUBSET B
  BY <1>1 DEF EventTicks
<1>3. /\ IsFiniteSet(B) /\ Cardinality(B) \in Nat /\ Cardinality(A) \in Nat
  <2>1. Since(es, u) \in SUBSET DOMAIN es /\ Since(es, t) \in SUBSET DOMAIN es
    BY DEF Since
  <2>. QED
    BY <2>1, EventTicksCount
<1>4. Cardinality(B) + a <= Budget
  BY DEF RoomIn
<1> HIDE DEF A, B
<1>5. Cardinality(A) <= Cardinality(B)
  BY <1>2, <1>3, FS_Subset
<1>6. Cardinality(A) + a <= Budget
  BY <1>3, <1>4, <1>5, DutyAssumption
<1>. QED
  BY <1>6 DEF RoomIn, A

\* What check() lets through has room beside the events of the window.
LEMMA PermittedRoom ==
  ASSUME EventsInv, now \in Nat, NEW a \in Airtimes, Permitted(a)
  PROVE  RoomIn(Pruned(events), a, now - Window)
<1> DEFINE p == Pruned(events)
<1>1. p \in Seq(Event)
  BY PrunedIs DEF EventsInv
<1>2. Used(p) + a <= Budget
  BY DEF Permitted
<1> HIDE DEF p
<1>3. Since(p, now - Window) = DOMAIN p
  BY PrunedOrder DEF EventsInv, Since, p
<1>4. Used(p) = Cardinality(EventTicks(p, DOMAIN p))
  BY <1>1, EventTicksCount DEF Used
<1>. QED
  BY <1>2, <1>3, <1>4 DEF RoomIn, p

\* Where there is room, check() lets through.
LEMMA RoomPermitted ==
  ASSUME EventsInv, now \in Nat, NEW a \in Airtimes, ~TooLong(a),
         NEW t \in Int, t <= now - Window, RoomIn(events, a, t)
  PROVE  Permitted(a)
<1> DEFINE p == Pruned(events)
<1>1. p \in Seq(Event)
  BY PrunedIs DEF EventsInv
<1>2. a \in Nat /\ now - Window \in Int
  BY DutyAssumption
<1>3. RoomIn(p, a, now - Window)
  <2>1. RoomIn(p, a, t)
    BY <1>2, PrunedRoom DEF EventsInv
  <2> HIDE DEF p
  <2>. QED
    BY <1>1, <1>2, <2>1, LaterRoom
<1> HIDE DEF p
<1>4. Since(p, now - Window) = DOMAIN p
  BY PrunedOrder DEF EventsInv, Since, p
<1>5. Used(p) = Cardinality(EventTicks(p, DOMAIN p))
  BY <1>1, EventTicksCount DEF Used
<1>6. Used(p) + a <= Budget
  BY <1>3, <1>4, <1>5 DEF RoomIn
<1>. QED
  BY <1>6 DEF Permitted, p

\* The larger and the smaller of two numbers.
LEMMA OfTwo ==
  ASSUME NEW a \in Int, NEW b \in Int
  PROVE  /\ Max({a, b}) = IF a >= b THEN a ELSE b
         /\ Min({a, b}) = IF a <= b THEN a ELSE b
<1>1. \E x \in {a, b} : \A y \in {a, b} : x >= y
  <2>1. CASE a >= b
    BY <2>1
  <2>2. CASE ~(a >= b)
    BY <2>2
  <2>. QED
    BY <2>1, <2>2
<1>2. \E x \in {a, b} : \A y \in {a, b} : x <= y
  <2>1. CASE a <= b
    BY <2>1
  <2>2. CASE ~(a <= b)
    BY <2>2
  <2>. QED
    BY <2>1, <2>2
<1>3. Max({a, b}) \in {a, b} /\ \A y \in {a, b} : Max({a, b}) >= y
  BY <1>1 DEF Max
<1>4. Min({a, b}) \in {a, b} /\ \A y \in {a, b} : Min({a, b}) <= y
  BY <1>2 DEF Min
<1>. QED
  BY <1>3, <1>4

\* Who waits for what, and who waits at all.
LEMMA WaitIs ==
  ASSUME EventsInv, now \in Nat, NEW a \in Airtimes
  PROVE  LET p == Pruned(events)
         IN  /\ Wait(a) \in Nat
             /\ TooLong(a) => Wait(a) = 0
             /\ ~TooLong(a) /\ Freeing(p, a) # {} =>
                  \E m \in Freeing(p, a) : Wait(a) >= p[m].at + Window - now
<1> DEFINE p == Pruned(events)
           m == Min(Freeing(p, a))
<1>1. p \in Seq(Event)
  BY PrunedIs DEF EventsInv
<1>2. Window \in Nat
  BY DutyAssumption
<1>3. Wait(a) = IF TooLong(a) THEN 0
                ELSE IF Freeing(p, a) = {} THEN Window
                ELSE Max({0, p[m].at + Window - now})
  BY DEF Wait
<1> HIDE DEF p
<1>4. ASSUME Freeing(p, a) # {}
      PROVE  m \in Freeing(p, a) /\ p[m].at \in Nat
  <2>1. Freeing(p, a) \subseteq DOMAIN p
    BY DEF Freeing
  <2>2. DOMAIN p = 1 .. Len(p)
    BY <1>1
  <2>3. Freeing(p, a) \subseteq Nat
    BY <2>1, <2>2
  <2>4. \E x \in Freeing(p, a) : \A y \in Freeing(p, a) : x <= y
    BY <1>4, <2>3, SmallestNumber
  <2>5. m \in Freeing(p, a)
    BY <2>4 DEF Min
  <2>6. m \in DOMAIN p
    BY <2>1, <2>5
  <2> HIDE DEF m
  <2>. QED
    BY <1>1, <2>5, <2>6, EventIs
<1> HIDE DEF m
<1>5. CASE TooLong(a)
  BY <1>3, <1>5
<1>6. CASE ~TooLong(a) /\ Freeing(p, a) = {}
  BY <1>2, <1>3, <1>6 DEF p
<1>7. CASE ~TooLong(a) /\ Freeing(p, a) # {}
  <2>1. m \in Freeing(p, a) /\ p[m].at \in Nat
    BY <1>4, <1>7
  <2> DEFINE b == p[m].at + Window - now
  <2>2. b \in Int
    BY <1>2, <2>1
  <2>3. Wait(a) = Max({0, b})
    BY <1>3, <1>7
  <2> HIDE DEF b
  <2>4. Wait(a) = IF 0 >= b THEN 0 ELSE b
    BY <2>2, <2>3, OfTwo
  <2>5. Wait(a) \in Nat /\ Wait(a) >= b
    BY <2>2, <2>4
  <2>. QED
    BY <1>7, <2>1, <2>5 DEF b, p
<1>. QED
  BY <1>5, <1>6, <1>7

\* Who wakes as announced finds room, if nobody sent meanwhile: the events up to
\* one that frees enough are older than the window by then.
LEMMA WakesToRoom ==
  ASSUME EventsInv, now \in Nat, NEW a \in Airtimes, a <= Budget,
         ~TooLong(a), ~Permitted(a)
  PROVE  RoomIn(Pruned(events), a, WakesAt(a) - Window)
<1> DEFINE p == Pruned(events)
           N == Len(p)
           t == WakesAt(a) - Window
           Before(m) == EventTicks(p, 1 .. m)
           Behind(m) == EventTicks(p, (m + 1) .. N)
<1>1. /\ p \in Seq(Event) /\ InOrder(p)
      /\ \A i \in DOMAIN p : p[i].at <= now /\ p[i].at >= now - Window
  BY PrunedIs, PrunedOrder DEF EventsInv
<1>2. a \in Nat /\ Budget \in Nat /\ Window \in Nat
  BY DutyAssumption
<1>3. ~(Used(p) + a <= Budget)
  BY DEF Permitted
<1>31. /\ Wait(a) \in Nat
       /\ Freeing(p, a) # {} =>
                  \E m \in Freeing(p, a) : Wait(a) >= p[m].at + Window - now
  BY WaitIs
<1> HIDE DEF p
<1>4. DOMAIN p = 1 .. N /\ N \in Nat
  BY <1>1
<1>5. Used(p) = Cardinality(EventTicks(p, 1 .. N)) /\ Used(p) \in Nat
  BY <1>1, <1>4, EventTicksCount DEF Used
<1>6. N >= 1
  <2> SUFFICES ASSUME N = 0 PROVE FALSE
    BY <1>4
  <2>1. EventTicks(p, 1 .. N) = {}
    BY DEF EventTicks
  <2>2. Used(p) = 0
    BY <1>5, <2>1, FS_EmptySet
  <2>. QED
    BY <1>2, <1>3, <2>2
<1>7. N \in Freeing(p, a)
  <2>1. Airtime(p, 1 .. N) = Used(p)
    BY <1>4 DEF Used
  <2>2. Used(p) >= Used(p) + a - Budget
    BY <1>2, <1>5
  <2>. QED
    BY <1>4, <1>6, <2>1, <2>2 DEF Freeing
<1>8. PICK m \in Freeing(p, a) : Wait(a) >= p[m].at + Window - now
  BY <1>31, <1>7
<1>9. /\ m \in 1 .. N /\ m \in DOMAIN p
      /\ Airtime(p, 1 .. m) >= Used(p) + a - Budget
  BY <1>4 DEF Freeing
<1>10. p[m].at \in Nat
  BY <1>1, <1>9, EventIs
<1>11. t \in Int /\ t > p[m].at
  BY <1>2, <1>8, <1>10, <1>31 DEF WakesAt
<1> HIDE DEF t
<1>12. Since(p, t) \subseteq (m + 1) .. N
  <2> SUFFICES ASSUME NEW i \in DOMAIN p, p[i].at >= t PROVE i \in (m + 1) .. N
    BY DEF Since
  <2>1. i \in 1 .. N /\ p[i].at \in Nat
    BY <1>1, <1>4, EventIs
  <2>2. i <= m => p[i].at <= p[m].at
    BY <1>1, <1>9 DEF InOrder
  <2>3. ~(i <= m)
    BY <1>10, <1>11, <2>1, <2>2
  <2>. QED
    BY <1>4, <1>9, <2>1, <2>3
<1>13. /\ IsFiniteSet(Before(m)) /\ Cardinality(Before(m)) \in Nat
       /\ IsFiniteSet(Behind(m)) /\ Cardinality(Behind(m)) \in Nat
       /\ Airtime(p, 1 .. m) = Cardinality(Before(m))
  <2>1. 1 .. m \in SUBSET DOMAIN p /\ (m + 1) .. N \in SUBSET DOMAIN p
    BY <1>4, <1>9
  <2>. QED
    BY <1>1, <2>1, EventTicksCount
<1>14. /\ Before(m) \cup Behind(m) = EventTicks(p, 1 .. N)
       /\ Before(m) \cap Behind(m) = {}
  <2>1. 1 .. N = (1 .. m) \cup ((m + 1) .. N) /\ (1 .. m) \cap ((m + 1) .. N) = {}
    BY <1>4, <1>9
  <2>. QED
    BY <2>1 DEF EventTicks
<1>15. Cardinality(EventTicks(p, Since(p, t))) \in Nat
       /\ Cardinality(EventTicks(p, Since(p, t))) <= Cardinality(Behind(m))
  <2>1. EventTicks(p, Since(p, t)) \in SUBSET Behind(m)
    BY <1>12 DEF EventTicks
  <2>2. Since(p, t) \in SUBSET DOMAIN p
    BY DEF Since
  <2>3. Cardinality(EventTicks(p, Since(p, t))) \in Nat
    BY <1>1, <2>2, EventTicksCount
  <2>. QED
    BY <1>13, <2>1, <2>3, FS_Subset
<1>16. Used(p) = Cardinality(Before(m)) + Cardinality(Behind(m))
  <2> DEFINE A == Before(m)
             B == Behind(m)
  <2>1. IsFiniteSet(A) /\ IsFiniteSet(B) /\ Cardinality(A) \in Nat /\ Cardinality(B) \in Nat
    BY <1>13
  <2>2. Used(p) = Cardinality(A \cup B) /\ A \cap B = {}
    BY <1>5, <1>14
  <2> HIDE DEF A, B
  <2>3. Cardinality(A \cup B) = Cardinality(A) + Cardinality(B) - Cardinality(A \cap B)
    BY <2>1, FS_Union
  <2>4. Cardinality(A \cap B) = 0
    BY <2>2, FS_EmptySet
  <2>5. Used(p) = Cardinality(A) + Cardinality(B)
    BY <2>1, <2>2, <2>3, <2>4
  <2>. QED
    BY <2>5 DEF A, B
<1> HIDE DEF Before, Behind
<1>17. Cardinality(EventTicks(p, Since(p, t))) + a <= Budget
  BY <1>2, <1>5, <1>9, <1>13, <1>15, <1>16
<1>. QED
  BY <1>17 DEF RoomIn, p, t

-----------------------------------------------------------------------------
(* From windows that begin with a frame to all windows *)

OverlapTicks(R, x) == {u \in R \X Nat : 1 <= u[2] /\ u[2] <= Overlap(u[1], x)}

\* The length of what a frame and a window have in common.
LEMMA OverlapIs ==
  ASSUME NEW e \in Frame, NEW x \in Int
  PROVE  /\ Overlap(e, x) \in Nat
         /\ Overlap(e, x) > 0 =>
              /\ e.at < x + Window /\ x < End(e)
              /\ Overlap(e, x) <= e.airtime
              /\ e.at < x => Overlap(e, x) <= End(e) - x
              /\ e.at >= x => e.at + Overlap(e, x) <= x + Window
<1>1. e.at \in Nat /\ e.airtime \in Nat /\ Window \in Nat
  BY DutyAssumption DEF Frame
<1> DEFINE a == Min({e.at + e.airtime, x + Window})
           b == Max({e.at, x})
<1>2. a = IF e.at + e.airtime <= x + Window THEN e.at + e.airtime ELSE x + Window
  <2> DEFINE p == e.at + e.airtime
             q == x + Window
  <2>1. p \in Int /\ q \in Int
    BY <1>1
  <2> HIDE DEF p, q
  <2>2. Min({p, q}) = IF p <= q THEN p ELSE q
    BY <2>1, OfTwo
  <2>. QED
    BY <2>2 DEF p, q
<1>3. b = IF e.at >= x THEN e.at ELSE x
  BY <1>1, OfTwo
<1>4. Overlap(e, x) = Max({0, a - b})
  BY DEF Overlap
<1> HIDE DEF a, b
<1>5. a \in Int /\ b \in Int
  BY <1>1, <1>2, <1>3
<1>6. Overlap(e, x) = IF 0 >= a - b THEN 0 ELSE a - b
  BY <1>4, <1>5, OfTwo
<1>. QED
  BY <1>1, <1>2, <1>3, <1>5, <1>6 DEF End

\* The time on the air within a window is the number of its ticks.
LEMMA OnAirCount ==
  ASSUME NEW R, IsFiniteSet(R), R \subseteq Frame, NEW x \in Int
  PROVE  OnAir(R, x) = Cardinality(OverlapTicks(R, x))
<1> DEFINE w == [e \in R |-> Overlap(e, x)]
           A(it) == it = [s \in SUBSET R |-> IF s = {} THEN 0
                       ELSE Overlap(CHOOSE e \in s : TRUE, x) + it[s \ {CHOOSE e \in s : TRUE}]]
<1>1. OnAir(R, x) = (CHOOSE it : A(it))[R]
  BY DEF OnAir, MapThenSumSet, MapThenFoldSet
<1>2. w \in [R -> Nat]
  BY OverlapIs
<1>3. ASSUME NEW s \in SUBSET R, s # {}
      PROVE  w[Pick(s)] = Overlap(CHOOSE e \in s : TRUE, x)
  BY <1>3 DEF Pick
<1>4. ASSUME NEW it PROVE A(it) <=> Adds(it, w, R)
  <2> DEFINE a == [s \in SUBSET R |-> IF s = {} THEN 0
                       ELSE Overlap(CHOOSE e \in s : TRUE, x) + it[s \ {CHOOSE e \in s : TRUE}]]
             b == [s \in SUBSET R |->
          IF s = {} THEN 0 ELSE w[Pick(s)] + it[s \ {Pick(s)}]]
  <2>1. ASSUME NEW s \in SUBSET R PROVE a[s] = b[s]
    BY <1>3 DEF Pick
  <2>2. a = b
    BY <2>1
  <2>. QED
    BY <2>2 DEF Adds
<1>9. Units(w, R) = OverlapTicks(R, x)
  BY DEF Units, OverlapTicks
<1> HIDE DEF w, A
<1>5. \E it : A(it)
  BY <1>2, <1>4, SumIsCount
<1>6. A(CHOOSE it : A(it))
  BY <1>5
<1>7. Adds(CHOOSE it : A(it), w, R)
  BY <1>4, <1>6
<1>8. OnAir(R, x) = Cardinality(Units(w, R))
  BY <1>1, <1>2, <1>7, SumIsCount
<1>. QED
  BY <1>8, <1>9

Begins(R, x) == {e \in R : x <= e.at /\ e.at <= x + Window}

\* If no frames that begin within one window exceed the budget, and no two of
\* them overlap, then they are within every window.  A frame that began before
\* the window lends its first ticks, from its begin to that of the window, to
\* the ticks of those that began when the window of that frame was over.
LEMMA WindowsHold ==
  ASSUME NEW R, IsFiniteSet(R), R \subseteq Frame,
         \A e, f \in R : e # f => End(e) <= f.at \/ End(f) <= e.at,
         \A y \in Int : Cardinality(FrameTicks(Begins(R, y))) <= Budget,
         NEW x \in Int
  PROVE  OnAir(R, x) <= Budget
<1> DEFINE U == OverlapTicks(R, x)
           V(y) == FrameTicks(Begins(R, y))
<1>1. \A e \in R : e.at \in Nat /\ e.airtime \in Nat /\ End(e) = e.at + e.airtime
  BY DutyAssumption DEF Frame, End
<1>2. Window \in Nat /\ Budget \in Nat
  BY DutyAssumption
<1>3. ASSUME NEW y \in Int PROVE IsFiniteSet(V(y)) /\ Cardinality(V(y)) \in Nat
  <2>1. IsFiniteSet(Begins(R, y)) /\ Begins(R, y) \subseteq Frame
    <3>1. Begins(R, y) \in SUBSET R
      BY DEF Begins
    <3>. QED
      BY <3>1, FS_Subset
  <2>2. CASE Begins(R, y) = {}
    <3>1. V(y) = {}
      BY <2>2 DEF FrameTicks
    <3>. QED
      BY <3>1, FS_EmptySet
  <2>3. CASE Begins(R, y) # {}
    <3>1. PICK f \in Begins(R, y) : TRUE
      BY <2>3
    <3>2. f \in Frame
      BY <2>1
    <3>. QED
      BY <2>1, <3>2, FrameTicksMore
  <2>. QED
    BY <2>2, <2>3
<1>4. \A u \in U : /\ u = <<u[1], u[2]>> /\ u[1] \in R /\ u[2] \in Nat
                   /\ 1 <= u[2] /\ u[2] <= Overlap(u[1], x)
                   /\ Overlap(u[1], x) \in Nat
  <2> SUFFICES ASSUME NEW u \in U
               PROVE  /\ u = <<u[1], u[2]>> /\ u[1] \in R /\ u[2] \in Nat
                      /\ 1 <= u[2] /\ u[2] <= Overlap(u[1], x)
                      /\ Overlap(u[1], x) \in Nat
    OBVIOUS
  <2>1. /\ u = <<u[1], u[2]>> /\ u[1] \in R /\ u[2] \in Nat
        /\ 1 <= u[2] /\ u[2] <= Overlap(u[1], x)
    BY DEF OverlapTicks
  <2>2. u[1] \in Frame
    BY <2>1
  <2>. QED
    BY <2>1, <2>2, OverlapIs
<1>5. ASSUME NEW u \in U
      PROVE  /\ u[1].at < x + Window /\ x < End(u[1])
             /\ u[2] <= u[1].airtime
             /\ u[1].at < x => u[2] <= End(u[1]) - x
             /\ u[1].at >= x => u[1].at + u[2] <= x + Window
  <2> DEFINE e == u[1]
             k == u[2]
             n == Overlap(e, x)
  <2>1. e \in R /\ e \in Frame /\ k \in Nat /\ 1 <= k /\ k <= n /\ n \in Nat
    BY <1>4
  <2>2. e.at \in Nat /\ e.airtime \in Nat /\ End(e) = e.at + e.airtime
    BY <1>1, <2>1
  <2>4. n > 0 =>
              /\ e.at < x + Window /\ x < End(e)
              /\ n <= e.airtime
              /\ e.at < x => n <= End(e) - x
              /\ e.at >= x => e.at + n <= x + Window
    BY <2>1, OverlapIs
  <2> HIDE DEF e, n, k
  <2>3. /\ e.at < x + Window /\ x < End(e)
        /\ n <= e.airtime
        /\ e.at < x => n <= End(e) - x
        /\ e.at >= x => e.at + n <= x + Window
    BY <2>1, <2>4
  <2>5. /\ k <= e.airtime
        /\ e.at < x => k <= End(e) - x
        /\ e.at >= x => e.at + k <= x + Window
    BY <1>2, <2>1, <2>2, <2>3
  <2>6. e.at < x + Window /\ x < End(e)
    BY <2>3
  <2>7. e = u[1] /\ k = u[2]
    BY DEF e, k
  <2>. QED
    BY <2>5, <2>6, <2>7
<1>6. OnAir(R, x) = Cardinality(U)
  BY OnAirCount
<1>7. \A y \in Int : \A e \in R, k \in Nat :
        y <= e.at /\ e.at <= y + Window /\ 1 <= k /\ k <= e.airtime => <<e, k>> \in V(y)
  BY DEF FrameTicks, Begins
<1> HIDE DEF U
<1>8. CASE \A u \in U : u[1].at >= x
  <2>1. U \subseteq V(x)
    <3> SUFFICES ASSUME NEW u \in U PROVE u \in V(x)
      OBVIOUS
    <3>1. /\ u = <<u[1], u[2]>> /\ u[1] \in R /\ u[2] \in Nat
          /\ x <= u[1].at /\ u[1].at <= x + Window /\ 1 <= u[2] /\ u[2] <= u[1].airtime
      BY <1>1, <1>2, <1>4, <1>5, <1>8
    <3> HIDE DEF V
    <3>. QED
      BY <1>7, <3>1
  <2>2. IsFiniteSet(V(x)) /\ Cardinality(V(x)) \in Nat /\ Cardinality(V(x)) <= Budget
    BY <1>3
  <2> HIDE DEF V
  <2>3. Cardinality(U) <= Cardinality(V(x)) /\ Cardinality(U) \in Nat
    BY <2>1, <2>2, FS_Subset, FS_CardinalityType
  <2>. QED
    BY <1>2, <1>6, <2>2, <2>3
<1>9. CASE \E u \in U : u[1].at < x
  <2>1. PICK z \in U : z[1].at < x
    BY <1>9
  <2> DEFINE o == z[1]
             y == o.at
  <2>2. /\ o \in R /\ y \in Nat /\ o.airtime \in Nat /\ End(o) = y + o.airtime
        /\ y < x /\ x < End(o)
    BY <1>1, <1>4, <1>5, <2>1
  <2> HIDE DEF o
  <2>3. ASSUME NEW u \in U, u[1] # o PROVE u[1].at >= End(o)
    <3>1. u[1] \in R /\ x < End(u[1])
      BY <1>4, <1>5
    <3>2. End(o) <= u[1].at \/ End(u[1]) <= y
      BY <2>2, <2>3, <3>1
    <3>3. End(u[1]) \in Nat
      BY <1>1, <3>1
    <3>. QED
      BY <2>2, <3>1, <3>2, <3>3
  \* Where a tick goes: to its own place, behind the first ticks of o, or to one of those.
  <2> DEFINE to(u) == IF u[1] = o THEN <<o, (x - y) + u[2]>>
                      ELSE IF u[1].at <= y + Window THEN u
                      ELSE <<o, u[1].at + u[2] - (y + Window)>>
             f == [u \in U |-> to(u)]
  <2>4. ASSUME NEW u \in U
        PROVE  /\ to(u) \in V(y)
               /\ u[1] = o => to(u)[1] = o /\ to(u)[2] = (x - y) + u[2] /\ to(u)[2] > x - y
               /\ u[1] # o /\ u[1].at <= y + Window => to(u) = u
               /\ u[1] # o /\ ~(u[1].at <= y + Window) =>
                    /\ to(u)[1] = o /\ to(u)[2] = u[1].at + u[2] - (y + Window)
                    /\ to(u)[2] <= x - y
    <3> DEFINE e == u[1]
               k == u[2]
    <3>1. /\ u = <<e, k>> /\ e \in R /\ k \in Nat /\ 1 <= k /\ k <= e.airtime
          /\ e.at \in Nat /\ e.airtime \in Nat
          /\ e.at < x => k <= End(e) - x
          /\ e.at >= x => e.at + k <= x + Window
          /\ End(e) = e.at + e.airtime
          /\ e # o => e.at >= End(o)
      BY <1>1, <1>4, <1>5, <2>3
    <3> HIDE DEF e, k, V, y
    <3>9. y = o.at /\ y \in Int
      BY <2>2 DEF y
    <3>2. CASE e = o
      <4>1. k <= (y + o.airtime) - x
        BY <2>2, <3>1, <3>2, <3>9
      <4>2. /\ (x - y) + k \in Nat /\ 1 <= (x - y) + k /\ (x - y) + k <= o.airtime
            /\ (x - y) + k > x - y
        BY <2>2, <3>1, <4>1
      <4>3. y <= o.at /\ o.at <= y + Window
        BY <1>2, <2>2, <3>9
      <4>4. <<o, (x - y) + k>> \in V(y)
        BY <1>7, <2>2, <3>9, <4>2, <4>3
      <4>. QED
        BY <3>2, <4>2, <4>4 DEF e, k
    <3>3. CASE e # o /\ e.at <= y + Window
      <4>1. y <= e.at
        BY <2>2, <3>1, <3>3
      <4>2. <<e, k>> \in V(y)
        BY <1>7, <3>1, <3>3, <3>9, <4>1
      <4>. QED
        BY <3>1, <3>3, <4>2 DEF e, k
    <3>4. CASE e # o /\ ~(e.at <= y + Window)
      <4>1. e.at >= x /\ e.at + k <= x + Window
        BY <2>2, <3>1, <3>4
      <4> DEFINE j == e.at + k - (y + Window)
      <4>2. j \in Nat /\ 1 <= j /\ j <= x - y /\ j <= o.airtime
        BY <1>2, <2>2, <3>1, <3>4, <4>1
      <4>3. y <= o.at /\ o.at <= y + Window
        BY <1>2, <2>2, <3>9
      <4> HIDE DEF j
      <4>4. <<o, j>> \in V(y)
        BY <1>7, <2>2, <3>9, <4>2, <4>3
      <4>. QED
        BY <3>4, <4>2, <4>4 DEF e, k, j
    <3>. QED
      BY <3>2, <3>3, <3>4 DEF e
  <2>5. f \in [U -> V(y)]
    BY <2>4
  <2>6. ASSUME NEW u \in U, NEW v \in U, to(u) = to(v) PROVE u = v
    <3>1. /\ u = <<u[1], u[2]>> /\ u[1] \in R /\ u[2] \in Nat /\ 1 <= u[2] /\ u[2] <= u[1].airtime
          /\ v = <<v[1], v[2]>> /\ v[1] \in R /\ v[2] \in Nat /\ 1 <= v[2] /\ v[2] <= v[1].airtime
          /\ u[1].at \in Nat /\ u[1].airtime \in Nat /\ End(u[1]) = u[1].at + u[1].airtime
          /\ v[1].at \in Nat /\ v[1].airtime \in Nat /\ End(v[1]) = v[1].at + v[1].airtime
      BY <1>1, <1>4, <1>5
    <3> DEFINE Own(t) == t[1] = o
               Near(t) == t[1] # o /\ t[1].at <= y + Window
               Far(t) == t[1] # o /\ ~(t[1].at <= y + Window)
    <3>2. CASE Own(u) /\ Own(v)
      <4>1. (x - y) + u[2] = (x - y) + v[2]
        BY <2>4, <2>6, <3>2
      <4>2. u[2] = v[2]
        BY <2>2, <3>1, <4>1
      <4>. QED
        BY <3>1, <3>2, <4>2
    <3>3. CASE Near(u) /\ Near(v)
      BY <2>4, <2>6, <3>3
    <3>4. CASE Far(u) /\ Far(v)
      <4>1. u[1].at + u[2] - (y + Window) = v[1].at + v[2] - (y + Window)
        BY <2>4, <2>6, <3>4
      <4>2. u[1].at + u[2] = v[1].at + v[2]
        BY <1>2, <2>2, <3>1, <4>1
      <4>3. u[1] = v[1]
        <5>1. u[1] # v[1] => End(u[1]) <= v[1].at \/ End(v[1]) <= u[1].at
          BY <3>1
        <5>. QED
          BY <3>1, <4>2, <5>1
      <4>4. u[2] = v[2]
        BY <3>1, <4>2, <4>3
      <4>. QED
        BY <3>1, <4>3, <4>4
    <3>5. ~(Own(u) /\ Near(v)) /\ ~(Near(u) /\ Own(v)) /\ ~(Near(u) /\ Far(v)) /\ ~(Far(u) /\ Near(v))
      BY <2>4, <2>6
    <3>6. ~(Own(u) /\ Far(v)) /\ ~(Far(u) /\ Own(v))
      <4>1. ASSUME NEW a \in U, NEW b \in U, Own(a), Far(b), to(a) = to(b) PROVE FALSE
        <5>1. a[2] \in Nat /\ to(a)[2] = (x - y) + a[2] /\ to(a)[2] > x - y /\ to(b)[2] <= x - y
          BY <1>4, <2>4, <4>1
        <5>. QED
          BY <2>2, <4>1, <5>1
      <4>. QED
        BY <2>6, <4>1
    <3>. QED
      BY <3>2, <3>3, <3>4, <3>5, <3>6
  <2>7. \A a, b \in U : f[a] = f[b] => a = b
    BY <2>6
  <2>8. IsFiniteSet(V(y)) /\ Cardinality(V(y)) \in Nat /\ Cardinality(V(y)) <= Budget
    BY <1>3, <2>2
  <2> HIDE DEF f, to, V, y
  <2>9. IsFiniteSet(U) /\ Cardinality(U) <= Cardinality(V(y))
    BY <2>5, <2>7, <2>8, CountInto
  <2>10. Cardinality(U) \in Nat
    BY <2>9, FS_CardinalityType
  <2>. QED
    BY <1>2, <1>6, <2>8, <2>9, <2>10
<1>10. (\A u \in U : u[1].at >= x) \/ (\E u \in U : u[1].at < x)
  BY <1>1, <1>4
<1>. QED
  BY <1>8, <1>9, <1>10

-----------------------------------------------------------------------------
(* The budget: the invariant *)

\* The governor knows every recent frame of its process.
KnownInv ==
  /\ IsFiniteSet(onair)
  /\ \A e \in onair :
       e.run = restarts /\ e.at >= now - Window =>
         \E i \in DOMAIN events : events[i].at = e.at /\ events[i].airtime = e.airtime

\* Frames that begin within one window take no more than the budget.
BudgetInv ==
  \A k \in Nat, x \in Int : Cardinality(FrameTicks(Begins(OfRun(k), x))) <= Budget

\* Who writes was permitted, and still is.
RoomInv ==
  \A s \in Senders :
    task[s].state = "writing" => RoomIn(events, task[s].airtime, now - Window)

\* Who waits, or waited, will have room if no frame is sent meanwhile; es are
\* the events, time is now, and count frames were sent.
Waits(t) == t.state = "waiting" \/ (t.state = "queued" /\ t.retry)
WaitOK(t, es, time, count) ==
  Waits(t) =>
    /\ t.until \in Nat /\ t.refused \in Nat /\ t.refused <= count
    /\ t.state = "queued" => t.until <= time
    /\ t.refused = count /\ t.airtime <= Budget =>
         ~TooLong(t.airtime) /\ RoomIn(es, t.airtime, t.until - Window)
WaitInv ==
  /\ sent \in Nat
  /\ \A s \in Senders : WaitOK(task[s], events, now, sent)

GovernorInv ==
  AirInv /\ EventsInv /\ KnownInv /\ BudgetInv /\ RoomInv /\ WaitInv

\* A recent event is not pruned.
LEMMA PrunedKeeps ==
  ASSUME NEW es \in Seq(Event), now \in Nat, NEW i \in DOMAIN es,
         es[i].at >= now - Window
  PROVE  \E j \in DOMAIN Pruned(es) : Pruned(es)[j] = es[i]
<1> DEFINE p == Pruned(es)
<1>1. PICK d \in 0 .. Len(es) :
              /\ Len(p) = Len(es) - d
              /\ \A j \in 1 .. Len(p) : p[j] = es[j + d]
              /\ \A j \in 1 .. d : es[j].at < now - Window
  BY PrunedIs
<1>2. p \in Seq(Event)
  BY PrunedIs
<1> HIDE DEF p
<1>3. DOMAIN p = 1 .. Len(p) /\ Len(p) \in Nat /\ DOMAIN es = 1 .. Len(es) /\ Len(es) \in Nat
  BY <1>2
<1>4. es[i].at \in Nat /\ now - Window \in Int /\ i \in 1 .. Len(es)
  BY <1>3, EventIs, DutyAssumption
<1>5. ~(i \in 1 .. d)
  BY <1>1, <1>4
<1>6. i - d \in DOMAIN p /\ (i - d) + d = i
  BY <1>1, <1>3, <1>4, <1>5
<1>7. p[i - d] = es[i]
  BY <1>1, <1>3, <1>6
<1>. QED
  BY <1>6, <1>7 DEF p

\* Pruning, or not.
LEMMA PruningKeeps ==
  ASSUME EventsInv, KnownInv, now \in Nat, onair \subseteq Frame,
         events' \in {events, Pruned(events)},
         UNCHANGED <<now, onair, restarts>>
  PROVE  /\ EventsInv' /\ KnownInv'
         /\ BudgetInv => BudgetInv'
<1>1. EventsInv'
  <2>1. CASE events' = events
    BY <2>1 DEF EventsInv, InOrder
  <2>2. CASE events' = Pruned(events)
    <3>1. Pruned(events) \in Seq(Event)
      BY PrunedIs DEF EventsInv
    <3>2. /\ InOrder(Pruned(events))
          /\ \A i \in DOMAIN Pruned(events) : Pruned(events)[i].at <= now
      BY PrunedOrder DEF EventsInv
    <3> HIDE DEF Pruned
    <3>. QED
      BY <2>2, <3>1, <3>2 DEF EventsInv, InOrder
  <2>. QED
    BY <2>1, <2>2
<1>2. KnownInv'
  <2> SUFFICES ASSUME NEW e \in onair, e.run = restarts, e.at >= now - Window
               PROVE  \E i \in DOMAIN events' : events'[i].at = e.at /\ events'[i].airtime = e.airtime
    BY DEF KnownInv
  <2>1. PICK i \in DOMAIN events : events[i].at = e.at /\ events[i].airtime = e.airtime
    BY DEF KnownInv
  <2>2. CASE events' = events
    BY <2>1, <2>2
  <2>3. CASE events' = Pruned(events)
    <3>1. \E j \in DOMAIN Pruned(events) : Pruned(events)[j] = events[i]
      BY <2>1, PrunedKeeps DEF EventsInv
    <3>. QED
      BY <2>1, <2>3, <3>1
  <2>. QED
    BY <2>2, <2>3
<1>3. BudgetInv => BudgetInv'
  BY DEF BudgetInv, Begins, OfRun, FrameTicks
<1>. QED
  BY <1>1, <1>2, <1>3

\* Who waits goes on waiting well while events are only pruned and time passes.
LEMMA WaitOn ==
  ASSUME EventsInv, now \in Nat, NEW t, Shape(t), NEW time \in Nat, now <= time,
         NEW es \in {events, Pruned(events)}, NEW count, WaitOK(t, events, now, count)
  PROVE  WaitOK(t, es, time, count)
<1> SUFFICES ASSUME Waits(t)
             PROVE  /\ t.until \in Nat /\ t.refused \in Nat /\ t.refused <= count
                    /\ t.state = "queued" => t.until <= time
                    /\ t.refused = count /\ t.airtime <= Budget =>
                         ~TooLong(t.airtime) /\ RoomIn(es, t.airtime, t.until - Window)
  BY DEF WaitOK
<1>1. /\ t.until \in Nat /\ t.refused \in Nat /\ t.refused <= count
      /\ t.state = "queued" => t.until <= now
      /\ t.refused = count /\ t.airtime <= Budget =>
           ~TooLong(t.airtime) /\ RoomIn(events, t.airtime, t.until - Window)
  BY DEF WaitOK
<1>2. t.airtime \in Nat /\ t.until - Window \in Int
  <2>1. t.state # "idle"
    BY DEF Waits
  <2>. QED
    BY <1>1, <2>1, BusyShape, DutyAssumption
<1>3. t.state = "queued" => t.until <= time
  BY <1>1
<1>4. RoomIn(events, t.airtime, t.until - Window) => RoomIn(es, t.airtime, t.until - Window)
  BY <1>2, PrunedRoom DEF EventsInv
<1>. QED
  BY <1>1, <1>3, <1>4

\* A frame for which there is room leaves every window within the budget.
LEMMA NewFrameFits ==
  ASSUME AirInv, EventsInv, KnownInv, BudgetInv, NEW a \in Airtimes,
         RoomIn(events, a, now - Window),
         NEW f, f = [at |-> now, airtime |-> a, run |-> restarts],
         NEW k \in Nat, NEW x \in Int
  PROVE  Cardinality(FrameTicks(Begins({e \in onair \cup {f} : e.run = k}, x))) <= Budget
<1> DEFINE B == Begins(OfRun(k), x)
           C == Begins({e \in onair \cup {f} : e.run = k}, x)
           E == EventTicks(events, Since(events, now - Window))
           T == FrameTicks(B)
<1>1. /\ now \in Nat /\ restarts \in Nat /\ onair \subseteq Frame /\ a \in Nat
      /\ Window \in Nat /\ Budget \in Nat
  BY DutyAssumption DEF AirInv, TasksInv, OnAirInv
<1>2. f \in Frame /\ f.at = now /\ f.airtime = a /\ f.run = restarts
  BY <1>1 DEF Frame
<1>3. B \subseteq onair /\ B \subseteq Frame /\ IsFiniteSet(B)
  <2>1. B \in SUBSET onair
    BY DEF Begins, OfRun
  <2>. QED
    BY <1>1, <2>1, FS_Subset DEF KnownInv
<1>4. Cardinality(T) <= Budget
  BY DEF BudgetInv
<1>5. CASE C = B
  BY <1>4, <1>5
<1>6. CASE C # B
  <2>1. /\ f \notin B /\ C = B \cup {f} /\ k = restarts
        /\ x <= now /\ now <= x + Window
    BY <1>2, <1>6 DEF Begins, OfRun
  <2>2. \A e \in B : /\ e.run = restarts /\ e.at >= now - Window
                     /\ e \in onair /\ e \in Frame
    <3> SUFFICES ASSUME NEW e \in B PROVE e.run = restarts /\ e.at >= now - Window
      BY <1>3
    <3>1. e.run = k /\ x <= e.at
      BY DEF Begins, OfRun
    <3>2. e.at \in Nat
      BY <1>3 DEF Frame
    <3>. QED
      BY <1>1, <2>1, <3>1, <3>2
  <2> DEFINE At(e) == CHOOSE i \in DOMAIN events :
                        events[i].at = e.at /\ events[i].airtime = e.airtime
  <2>3. \A e \in B : /\ At(e) \in DOMAIN events
                     /\ events[At(e)].at = e.at /\ events[At(e)].airtime = e.airtime
    <3> SUFFICES ASSUME NEW e \in B
                 PROVE /\ At(e) \in DOMAIN events
                       /\ events[At(e)].at = e.at /\ events[At(e)].airtime = e.airtime
      OBVIOUS
    <3>1. \E i \in DOMAIN events : events[i].at = e.at /\ events[i].airtime = e.airtime
      BY <2>2 DEF KnownInv
    <3>. QED
      BY <3>1
  <2>4. \A u \in T : /\ u = <<u[1], u[2]>> /\ u[1] \in B /\ u[2] \in Nat
                     /\ 1 <= u[2] /\ u[2] <= u[1].airtime
    BY DEF FrameTicks
  <2>5. IsFiniteSet(E) /\ Cardinality(E) \in Nat /\ Cardinality(E) + a <= Budget
    <3>1. Since(events, now - Window) \in SUBSET DOMAIN events
      BY DEF Since
    <3>. QED
      BY <3>1, EventTicksCount DEF EventsInv, RoomIn
  <2>6. \A i \in DOMAIN events, j \in Nat :
          events[i].at >= now - Window /\ 1 <= j /\ j <= events[i].airtime => <<i, j>> \in E
    BY DEF EventTicks, Since
  <2>7. /\ IsFiniteSet(T) /\ Cardinality(T) \in Nat
        /\ Cardinality(FrameTicks(C)) = a + Cardinality(T)
    BY <1>2, <1>3, <2>1, FrameTicksMore
  <2> HIDE DEF B, C, E, T, At
  <2> DEFINE g == [u \in T |-> <<At(u[1]), u[2]>>]
  <2>8. g \in [T -> E]
    <3> SUFFICES ASSUME NEW u \in T PROVE <<At(u[1]), u[2]>> \in E
      OBVIOUS
    <3>1. u[1] \in B /\ u[2] \in Nat /\ 1 <= u[2] /\ u[2] <= u[1].airtime
      BY <2>4
    <3>2. /\ At(u[1]) \in DOMAIN events
          /\ events[At(u[1])].at = u[1].at /\ events[At(u[1])].airtime = u[1].airtime
      BY <2>3, <3>1
    <3>3. u[1].at >= now - Window
      BY <2>2, <3>1
    <3>. QED
      BY <2>6, <3>1, <3>2, <3>3
  <2>9. ASSUME NEW u \in T, NEW v \in T, g[u] = g[v] PROVE u = v
    <3>1. At(u[1]) = At(v[1]) /\ u[2] = v[2]
      BY <2>9
    <3>2. u[1] \in B /\ v[1] \in B
      BY <2>4
    <3>3. u[1].at = v[1].at /\ u[1].airtime = v[1].airtime
      BY <2>3, <3>1, <3>2
    <3>4. u[1].run = v[1].run /\ u[1] \in Frame /\ v[1] \in Frame
      BY <2>2, <3>2
    <3>5. u[1] = v[1]
      BY <3>3, <3>4 DEF Frame
    <3>. QED
      BY <2>4, <3>1, <3>5
  <2> HIDE DEF g
  <2>10. Cardinality(T) <= Cardinality(E)
    BY <2>5, <2>8, <2>9, CountInto
  <2>11. Cardinality(FrameTicks(C)) <= Budget
    BY <1>1, <2>5, <2>7, <2>10
  <2>. QED
    BY <2>11 DEF C
<1>. QED
  BY <1>5, <1>6

\* Init establishes it.
LEMMA GovernorInit == Init => GovernorInv
<1> SUFFICES ASSUME Init PROVE GovernorInv
  OBVIOUS
<1>1. AirInv
  BY AirInit
<1>2. EventsInv
  <2>1. events = << >>
    BY DEF Init
  <2>2. events \in Seq(Event) /\ DOMAIN events = {}
    BY <2>1
  <2>. QED
    BY <2>2 DEF EventsInv, InOrder
<1>3. KnownInv
  BY FS_EmptySet DEF Init, KnownInv
<1>4. BudgetInv
  <2> SUFFICES ASSUME NEW k \in Nat, NEW x \in Int
               PROVE  Cardinality(FrameTicks(Begins(OfRun(k), x))) <= Budget
    BY DEF BudgetInv
  <2>1. FrameTicks(Begins(OfRun(k), x)) = {}
    BY DEF Init, FrameTicks, Begins, OfRun
  <2>. QED
    BY <2>1, FS_EmptySet, DutyAssumption
<1>5. \A s \in Senders : task[s].state = "idle"
  BY DEF Init, Idle
<1>6. RoomInv
  BY <1>5 DEF RoomInv
<1>7. WaitInv
  BY <1>5 DEF Init, WaitInv, WaitOK, Waits
<1>. QED
  BY <1>1, <1>2, <1>3, <1>4, <1>6, <1>7 DEF GovernorInv

\* A step of s that transmits nothing, and prunes or does not.
LEMMA GovernorQuiet ==
  ASSUME GovernorInv, AirInv', NEW s \in Senders, NEW t, Shape(t),
         task' = [task EXCEPT ![s] = t], events' \in {events, Pruned(events)},
         UNCHANGED <<now, onair, restarts, sent>>,
         t.state = "writing" => RoomIn(events', t.airtime, now - Window),
         WaitOK(t, events', now, sent)
  PROVE  GovernorInv'
<1>1. /\ now \in Nat /\ onair \subseteq Frame /\ TasksInv
      /\ restarts \in Nat /\ \A q \in Senders : Shape(task[q])
  BY DEF GovernorInv, AirInv, TasksInv, OnAirInv
<1>2. EventsInv' /\ KnownInv' /\ BudgetInv'
  BY <1>1, PruningKeeps DEF GovernorInv
<1>3. task'[s] = t /\ \A q \in Senders : q # s => task'[q] = task[q]
  <2>1. now' \in Nat /\ restarts' \in Nat
    BY <1>1
  <2>. QED
    BY <1>1, <2>1, TaskStep
<1>4. RoomInv'
  <2> SUFFICES ASSUME NEW q \in Senders, task'[q].state = "writing"
               PROVE  RoomIn(events', task'[q].airtime, now - Window)
    BY DEF RoomInv, RoomIn, Since
  <2>1. CASE q = s
    BY <1>3, <2>1
  <2>2. CASE q # s
    <3>1. task'[q] = task[q] /\ Shape(task[q]) /\ task[q].state # "idle"
      BY <1>1, <1>3, <2>2
    <3>2. task[q].airtime \in Nat /\ now - Window \in Int
      BY <1>1, <3>1, BusyShape, DutyAssumption
    <3>3. RoomIn(events, task[q].airtime, now - Window)
      BY <3>1 DEF GovernorInv, RoomInv
    <3>4. RoomIn(Pruned(events), task[q].airtime, now - Window)
      BY <1>1, <3>2, <3>3, PrunedRoom DEF GovernorInv, EventsInv
    <3>. QED
      BY <3>1, <3>3, <3>4
  <2>. QED
    BY <2>1, <2>2
<1>5. WaitInv'
  <2> SUFFICES ASSUME NEW q \in Senders PROVE WaitOK(task'[q], events', now, sent)
    BY DEF GovernorInv, WaitInv, WaitOK, RoomIn, Since
  <2>1. CASE q = s
    BY <1>3, <2>1
  <2>2. CASE q # s
    <3>1. task'[q] = task[q] /\ Shape(task[q]) /\ WaitOK(task[q], events, now, sent)
      BY <1>1, <1>3, <2>2 DEF GovernorInv, WaitInv
    <3>2. now <= now
      BY <1>1
    <3>. QED
      BY <1>1, <3>1, <3>2, WaitOn DEF GovernorInv
  <2>. QED
    BY <2>1, <2>2
<1>. QED
  BY <1>2, <1>4, <1>5 DEF GovernorInv

\* A task is told to sleep until there is room for it.
LEMMA SleepOK ==
  ASSUME EventsInv, now \in Nat, sent \in Nat, NEW a \in Airtimes, ~Permitted(a), Wait(a) > 0,
         NEW t, t.state = "waiting", t.airtime = a, t.until = WakesAt(a), t.refused = sent
  PROVE  ~TooLong(a) /\ WaitOK(t, Pruned(events), now, sent)
<1>1. Wait(a) \in Nat /\ (TooLong(a) => Wait(a) = 0)
  BY WaitIs
<1>2. ~TooLong(a)
  <2> HIDE DEF Wait
  <2>. QED
    BY <1>1
<1>3. WakesAt(a) \in Nat
  <2> DEFINE w == Wait(a)
  <2>1. w \in Nat /\ WakesAt(a) = now + w + 1
    BY <1>1 DEF WakesAt
  <2> HIDE DEF w
  <2>. QED
    BY <2>1
<1>4. a <= Budget => RoomIn(Pruned(events), a, WakesAt(a) - Window)
  BY <1>2, WakesToRoom
<1>. QED
  BY <1>2, <1>3, <1>4 DEF WaitOK

\* A task calls, tries again, fails or is done: nothing happens to the events.
LEMMA OwnStep ==
  ASSUME GovernorInv, AirInv', NEW s \in Senders,
         \/ \E a \in Airtimes, patient \in BOOLEAN : Call(s, a, patient)
         \/ Retry(s) \/ WriteFails(s) \/ Finish(s)
  PROVE  GovernorInv'
<1>0. Shape(task[s]) /\ WaitOK(task[s], events, now, sent) /\ task = [q \in Senders |-> task[q]]
  BY DEF GovernorInv, AirInv, TasksInv, WaitInv
<1>1. ASSUME NEW a \in Airtimes, NEW patient \in BOOLEAN, Call(s, a, patient)
      PROVE  GovernorInv'
  <2> DEFINE t == [state |-> "queued", airtime |-> a, patient |-> patient,
                   retry |-> FALSE, until |-> 0, refused |-> 0]
  <2>1. Shape(t) /\ t.state # "writing"
    BY DEF Shape
  <2>2. ~Waits(t)
    BY DEF Waits
  <2>3. task' = [task EXCEPT ![s] = t] /\ UNCHANGED <<events, now, onair, restarts, sent>>
    BY <1>1 DEF Call
  <2> HIDE DEF t
  <2>4. WaitOK(t, events', now, sent)
    BY <2>2 DEF WaitOK
  <2>. QED
    BY <2>1, <2>3, <2>4, GovernorQuiet
<1>2. ASSUME Retry(s) PROVE GovernorInv'
  <2> DEFINE t == [task[s] EXCEPT !.state = "queued", !.retry = TRUE]
  <2>1. /\ task' = [task EXCEPT ![s] = t] /\ task[s].state = "waiting"
        /\ task[s].until <= now /\ UNCHANGED <<events, now, onair, restarts, sent>>
    BY <1>0, <1>2 DEF Retry
  <2>2. t = [state |-> "queued", airtime |-> task[s].airtime,
             patient |-> task[s].patient, retry |-> TRUE,
             until |-> task[s].until, refused |-> task[s].refused]
    BY <1>0, <2>1, ChangeRetry
  <2>3. Shape(t)
    BY <1>0, <2>1, <2>2, Reshaped
  <2>4. /\ t.state = "queued" /\ t.airtime = task[s].airtime
        /\ t.until = task[s].until /\ t.refused = task[s].refused
    BY <2>2
  <2> HIDE DEF t
  <2>5. WaitOK(t, events', now, sent)
    BY <1>0, <2>1, <2>4 DEF WaitOK, Waits
  <2>. QED
    BY <2>1, <2>3, <2>4, <2>5, GovernorQuiet
<1>3. ASSUME WriteFails(s) \/ Finish(s) PROVE GovernorInv'
  <2>1. task' = [task EXCEPT ![s] = Idle] /\ UNCHANGED <<events, now, onair, restarts, sent>>
    BY <1>3 DEF WriteFails, Finish
  <2>2. Shape(Idle) /\ Idle.state = "idle"
    BY DEF Shape, Idle
  <2>3. WaitOK(Idle, events', now, sent)
    BY <2>2 DEF WaitOK, Waits
  <2>. QED
    BY <2>1, <2>2, <2>3, GovernorQuiet
<1>. QED
  BY <1>1, <1>2, <1>3

\* The governor answers.
LEMMA CheckStep ==
  ASSUME GovernorInv, AirInv', NEW s \in Senders, StartWrite(s) \/ Refuse(s)
  PROVE  GovernorInv'
<1> DEFINE a == task[s].airtime
<1>0. /\ Shape(task[s]) /\ WaitOK(task[s], events, now, sent)
      /\ task = [q \in Senders |-> task[q]]
      /\ now \in Nat /\ sent \in Nat /\ EventsInv
  BY DEF GovernorInv, AirInv, TasksInv, WaitInv
<1>1. task[s].state = "queued" /\ UNCHANGED <<now, onair, restarts, sent>> /\ Checked(a)
  BY DEF StartWrite, Refuse, GetsLock
<1>2. a \in Airtimes /\ task[s].state # "idle"
  BY <1>0, <1>1, BusyShape
<1>22. Shape(task[s]) /\ task[s].state # "idle"
  BY <1>0, <1>2
<1>3. events' \in {events, Pruned(events)} /\ (~TooLong(a) => events' = Pruned(events))
  BY <1>1 DEF Checked
<1>4. ASSUME StartWrite(s) PROVE GovernorInv'
  <2> DEFINE t == [task[s] EXCEPT !.state = "writing"]
  <2>1. task' = [task EXCEPT ![s] = t] /\ Permitted(a)
    BY <1>0, <1>4 DEF StartWrite
  <2>2. t = [state |-> "writing", airtime |-> task[s].airtime,
             patient |-> task[s].patient, retry |-> task[s].retry,
             until |-> task[s].until, refused |-> task[s].refused]
    BY <1>22, ChangeState
  <2>3. Shape(t)
    BY <1>22, <2>2, Reshaped
  <2>4. t.state = "writing" /\ t.airtime = a
    BY <2>2
  <2> HIDE DEF t
  <2>5. WaitOK(t, events', now, sent)
    BY <2>4 DEF WaitOK, Waits
  <2>6. RoomIn(events', t.airtime, now - Window)
    <3>1. events' = Pruned(events)
      BY <1>3, <2>1 DEF Permitted
    <3>. QED
      BY <1>0, <1>2, <2>1, <2>4, <3>1, PermittedRoom
  <2>. QED
    BY <1>1, <1>3, <2>1, <2>3, <2>5, <2>6, GovernorQuiet
<1>5. ASSUME Refuse(s) PROVE GovernorInv'
  <2>1. PICK w, n : w = WakesAt(a) /\ n = sent
    OBVIOUS
  <2> DEFINE t == [task[s] EXCEPT !.state = "waiting", !.refused = n, !.until = w]
  <2>2. /\ ~Permitted(a)
        /\ \/ task' = [task EXCEPT ![s] = t] /\ Sleeps(task[s])
           \/ task' = [task EXCEPT ![s] = Idle]
    BY <1>5, <2>1 DEF Refuse
  <2>3. t = [state |-> "waiting", airtime |-> task[s].airtime,
             patient |-> task[s].patient, retry |-> task[s].retry,
             until |-> w, refused |-> n]
    <3> DEFINE Rec(r, u) == [state |-> "waiting", airtime |-> task[s].airtime,
                             patient |-> task[s].patient, retry |-> task[s].retry,
                             until |-> u, refused |-> r]
    <3>1. [task[s] EXCEPT !.state = "waiting"] = Rec(task[s].refused, task[s].until)
      BY <1>22, ChangeState
    <3>2. [Rec(task[s].refused, task[s].until) EXCEPT !.refused = n] = Rec(n, task[s].until)
      OBVIOUS
    <3>3. [Rec(n, task[s].until) EXCEPT !.until = w] = Rec(n, w)
      OBVIOUS
    <3>. QED
      BY <3>1, <3>2, <3>3
  <2>4. Shape(t)
    BY <1>22, <2>3, Reshaped
  <2>5. t.state = "waiting" /\ t.airtime = a /\ t.until = w /\ t.refused = n
    BY <2>3
  <2> HIDE DEF t
  <2>6. CASE task' = [task EXCEPT ![s] = t] /\ Sleeps(task[s])
    <3>1. Wait(a) > 0
      BY <2>6 DEF Sleeps
    <3>2. ~TooLong(a) /\ WaitOK(t, Pruned(events), now, sent)
      BY <1>0, <1>2, <2>1, <2>2, <2>5, <3>1, SleepOK
    <3>. QED
      BY <1>1, <1>3, <2>4, <2>5, <2>6, <3>2, GovernorQuiet
  <2>7. CASE task' = [task EXCEPT ![s] = Idle]
    <3>1. Shape(Idle) /\ Idle.state = "idle"
      BY DEF Shape, Idle
    <3>2. WaitOK(Idle, events', now, sent)
      BY <3>1 DEF WaitOK, Waits
    <3>. QED
      BY <1>1, <1>3, <2>7, <3>1, <3>2, GovernorQuiet
  <2>. QED
    BY <2>2, <2>6, <2>7
<1>. QED
  BY <1>4, <1>5

\* The governor is told of a frame: it stays in order, and knows it.
LEMMA ToldOf ==
  ASSUME EventsInv, now \in Nat, NEW a \in Airtimes,
         events' = Pruned(Append(events, [at |-> now, airtime |-> a])), now' = now
  PROVE  /\ EventsInv'
         /\ \E j \in DOMAIN events' : events'[j].at = now /\ events'[j].airtime = a
         /\ \A i \in DOMAIN events : events[i].at >= now - Window =>
              \E j \in DOMAIN events' : events'[j] = events[i]
<1> DEFINE e == [at |-> now, airtime |-> a]
           es == Append(events, e)
           N == Len(events)
<1>1. e \in Event /\ e.at = now /\ e.airtime = a
  BY DEF Event
<1> HIDE DEF e
<1>2. /\ es \in Seq(Event) /\ N \in Nat /\ Len(es) = N + 1
      /\ DOMAIN es = 1 .. (N + 1) /\ DOMAIN events = 1 .. N
      /\ es[N + 1] = e /\ \A i \in 1 .. N : es[i] = events[i]
  BY <1>1 DEF EventsInv
<1>3. \A i \in DOMAIN es : es[i].at <= now
  BY <1>1, <1>2 DEF EventsInv
<1>4. InOrder(es)
  <2> SUFFICES ASSUME NEW i \in 1 .. (N + 1), NEW j \in 1 .. (N + 1), i <= j
               PROVE  es[i].at <= es[j].at
    BY <1>2 DEF InOrder
  <2>1. CASE j = N + 1
    BY <1>1, <1>2, <1>3, <2>1
  <2>2. CASE j # N + 1
    <3>1. i \in 1 .. N /\ j \in 1 .. N
      BY <1>2, <2>2
    <3>. QED
      BY <1>2, <3>1 DEF EventsInv, InOrder
  <2>. QED
    BY <2>1, <2>2
<1>5. events' = Pruned(es)
  BY DEF e
<1> HIDE DEF es, N
<1>6. /\ Pruned(es) \in Seq(Event) /\ InOrder(Pruned(es))
      /\ \A i \in DOMAIN Pruned(es) : Pruned(es)[i].at <= now
  BY <1>2, <1>3, <1>4, PrunedIs, PrunedOrder
<1>7. ASSUME NEW i \in DOMAIN es, es[i].at >= now - Window
      PROVE  \E j \in DOMAIN events' : events'[j] = es[i]
  BY <1>2, <1>5, <1>7, PrunedKeeps
<1>8. EventsInv'
  BY <1>5, <1>6 DEF EventsInv, InOrder
<1>9. \E j \in DOMAIN events' : events'[j].at = now /\ events'[j].airtime = a
  <2>1. N + 1 \in DOMAIN es /\ es[N + 1].at = now
    BY <1>1, <1>2
  <2>2. now >= now - Window
    BY DutyAssumption
  <2>3. PICK j \in DOMAIN events' : events'[j] = es[N + 1]
    BY <1>7, <2>1, <2>2
  <2>. QED
    BY <1>1, <1>2, <2>3
<1>10. ASSUME NEW i \in DOMAIN events, events[i].at >= now - Window
       PROVE  \E j \in DOMAIN events' : events'[j] = events[i]
  <2>1. i \in DOMAIN es /\ es[i] = events[i]
    BY <1>2
  <2>. QED
    BY <1>7, <1>10, <2>1
<1>. QED
  BY <1>8, <1>9, <1>10

\* A frame is transmitted that had room: the windows stay within the budget.
LEMMA FrameStep ==
  ASSUME AirInv, EventsInv, KnownInv, BudgetInv, NEW a \in Airtimes,
         RoomIn(events, a, now - Window),
         onair' = onair \cup {[at |-> now, airtime |-> a, run |-> restarts]}
  PROVE  BudgetInv' /\ IsFiniteSet(onair')
<1> DEFINE f == [at |-> now, airtime |-> a, run |-> restarts]
<1>1. BudgetInv'
  <2> SUFFICES ASSUME NEW k \in Nat, NEW x \in Int
               PROVE  Cardinality(FrameTicks(Begins({e \in onair \cup {f} : e.run = k}, x))) <= Budget
    BY DEF BudgetInv, FrameTicks, Begins, OfRun
  <2>1. f = [at |-> now, airtime |-> a, run |-> restarts]
    OBVIOUS
  <2> HIDE DEF f
  <2>. QED
    BY <2>1, NewFrameFits
<1>2. IsFiniteSet(onair')
  BY FS_AddElement DEF KnownInv
<1>. QED
  BY <1>1, <1>2

\* A frame is written, and the governor is told.
LEMMA WrittenStep ==
  ASSUME GovernorInv, AirInv', NEW s \in Senders, Written(s)
  PROVE  GovernorInv'
<1> DEFINE a == task[s].airtime
           f == [at |-> now, airtime |-> a, run |-> restarts]
           t == [task[s] EXCEPT !.state = "sending", !.until = now + a]
<1>0. /\ \A q \in Senders : Shape(task[q])
      /\ task = [q \in Senders |-> task[q]] /\ LockInv
      /\ now \in Nat /\ restarts \in Nat /\ sent \in Nat /\ onair \subseteq Frame
  BY DEF GovernorInv, AirInv, TasksInv, WaitInv, OnAirInv
<1>1. /\ task[s].state = "writing" /\ task' = [task EXCEPT ![s] = t]
      /\ events' = Pruned(Append(events, [at |-> now, airtime |-> a]))
      /\ onair' = onair \cup {f} /\ sent' = sent + 1 /\ UNCHANGED <<now, restarts>>
  BY <1>0 DEF Written
<1>2. Shape(task[s]) /\ task[s].state # "idle"
  BY <1>0, <1>1
<1>3. a \in Airtimes
  BY <1>2, BusyShape
<1>4. t.state = "sending"
  BY <1>2, ChangeUntil
<1>5. f \in Frame /\ f.at = now /\ f.airtime = a /\ f.run = restarts
  BY <1>0, <1>3 DEF Frame
<1>6. RoomIn(events, a, now - Window)
  BY <1>1 DEF GovernorInv, RoomInv
<1>7. BudgetInv' /\ IsFiniteSet(onair')
  BY <1>1, <1>3, <1>6, FrameStep DEF GovernorInv
<1>8. /\ EventsInv'
      /\ \E j \in DOMAIN events' : events'[j].at = now /\ events'[j].airtime = a
      /\ \A i \in DOMAIN events : events[i].at >= now - Window =>
           \E j \in DOMAIN events' : events'[j] = events[i]
  BY <1>0, <1>1, <1>3, ToldOf DEF GovernorInv
<1> HIDE DEF f, t
<1>9. KnownInv'
  <2> SUFFICES ASSUME NEW e \in onair \cup {f}, e.run = restarts, e.at >= now - Window
               PROVE  \E i \in DOMAIN events' : events'[i].at = e.at /\ events'[i].airtime = e.airtime
    BY <1>1, <1>7 DEF KnownInv
  <2>1. CASE e = f
    BY <1>5, <1>8, <2>1
  <2>2. CASE e \in onair
    <3>1. PICK i \in DOMAIN events : events[i].at = e.at /\ events[i].airtime = e.airtime
      BY <2>2 DEF GovernorInv, KnownInv
    <3>2. PICK j \in DOMAIN events' : events'[j] = events[i]
      BY <1>8, <3>1
    <3>. QED
      BY <3>1, <3>2
  <2>. QED
    BY <2>1, <2>2
<1>10. task'[s] = t /\ \A q \in Senders : q # s => task'[q] = task[q]
  BY <1>0, <1>1
<1>11. RoomInv'
  <2> SUFFICES ASSUME NEW q \in Senders PROVE task'[q].state # "writing"
    BY DEF RoomInv
  <2>1. CASE q = s
    BY <1>4, <1>10, <2>1
  <2>2. CASE q # s
    BY <1>0, <1>1, <1>10, <2>2 DEF LockInv, HasLock
  <2>. QED
    BY <2>1, <2>2
<1>12. WaitInv'
  <2> SUFFICES ASSUME NEW q \in Senders PROVE WaitOK(task'[q], events', now, sent + 1)
    <3>1. sent' \in Nat /\ sent' = sent + 1 /\ now' = now
      BY <1>0, <1>1
    <3>. QED
      BY <3>1 DEF WaitInv, WaitOK
  <2>1. CASE q = s
    BY <1>4, <1>10, <2>1 DEF WaitOK, Waits
  <2>2. CASE q # s
    <3>1. WaitOK(task[q], events, now, sent) /\ task'[q] = task[q]
      BY <1>10, <2>2 DEF GovernorInv, WaitInv
    <3> SUFFICES ASSUME Waits(task[q])
                 PROVE  WaitOK(task[q], events', now, sent + 1)
      BY <3>1 DEF WaitOK
    <3>2. /\ task[q].until \in Nat /\ task[q].refused \in Nat /\ task[q].refused <= sent
          /\ task[q].state = "queued" => task[q].until <= now
      BY <3>1 DEF WaitOK
    <3>3. task[q].refused <= sent + 1 /\ task[q].refused # sent + 1
      BY <1>0, <3>2
    <3>. QED
      BY <3>2, <3>3 DEF WaitOK
  <2>. QED
    BY <2>1, <2>2
<1>. QED
  BY <1>7, <1>8, <1>9, <1>11, <1>12 DEF GovernorInv

\* The program starts again: the new governor knows nothing, and nothing of this
\* process was transmitted.
LEMMA RestartStep ==
  ASSUME GovernorInv, AirInv', Restart
  PROVE  GovernorInv'
<1>0. /\ \A q \in Senders : Shape(task[q]) /\ LockInv
      /\ now \in Nat /\ restarts \in Nat /\ OnAirInv
  BY DEF GovernorInv, AirInv, TasksInv
<1>1. /\ restarts' = restarts + 1 /\ now' = now /\ events' = << >> /\ sent' = 0
      /\ task' = [s \in Senders |-> Idle]
  BY DEF Restart
<1>2. \A s \in Senders : task'[s].state = "idle"
  BY <1>1 DEF Idle
<1>3. BudgetInv' /\ IsFiniteSet(onair')
  <2>1. PICK W \in SUBSET BeingWritten : onair' = onair \cup W
    BY DEF Restart
  <2>2. CASE W = {}
    <3>1. onair' = onair
      BY <2>1, <2>2
    <3>. QED
      BY <3>1 DEF GovernorInv, BudgetInv, KnownInv, Begins, OfRun, FrameTicks
  <2>3. CASE W # {}
    <3>1. PICK s \in Senders : task[s].state = "writing"
      BY <2>3 DEF BeingWritten
    <3>2. \A q \in Senders : task[q].state = "writing" => q = s
      BY <1>0, <3>1 DEF LockInv, HasLock
    <3>3. W = {[at |-> now, airtime |-> task[s].airtime, run |-> restarts]}
      BY <2>3, <3>1, <3>2 DEF BeingWritten
    <3>4. task[s].airtime \in Airtimes
      BY <1>0, <3>1, BusyShape
    <3>5. RoomIn(events, task[s].airtime, now - Window)
      BY <3>1 DEF GovernorInv, RoomInv
    <3>6. onair' = onair \cup {[at |-> now, airtime |-> task[s].airtime, run |-> restarts]}
      BY <2>1, <3>3
    <3>. QED
      BY <3>4, <3>5, <3>6, FrameStep DEF GovernorInv
  <2>. QED
    BY <2>2, <2>3
<1>4. EventsInv'
  <2>1. events' \in Seq(Event) /\ DOMAIN events' = {}
    BY <1>1
  <2>. QED
    BY <2>1 DEF EventsInv, InOrder
<1>5. KnownInv'
  <2>1. ASSUME NEW e \in onair' PROVE e.run # restarts'
    <3>1. e \in onair \/ e \in BeingWritten
      BY DEF Restart
    <3>2. e.run \in Nat /\ e.run <= restarts
      BY <1>0, <3>1 DEF OnAirInv, Frame, BeingWritten
    <3>. QED
      BY <1>0, <1>1, <3>2
  <2>. QED
    BY <1>3, <2>1 DEF KnownInv
<1>6. RoomInv' /\ WaitInv'
  BY <1>1, <1>2 DEF RoomInv, WaitInv, WaitOK, Waits
<1>. QED
  BY <1>3, <1>4, <1>5, <1>6 DEF GovernorInv

\* Time passes: what is recent gets less.
LEMMA TickStep ==
  ASSUME GovernorInv, AirInv', Tick
  PROVE  GovernorInv'
<1>0. /\ \A q \in Senders : Shape(task[q])
      /\ now \in Nat /\ Window \in Nat /\ onair \subseteq Frame
      /\ events \in Seq(Event) /\ EventsInv /\ WaitInv
  BY DutyAssumption DEF GovernorInv, AirInv, TasksInv, OnAirInv, EventsInv
<1>1. now' = now + 1 /\ UNCHANGED <<events, sent, owner, task, onair, restarts>>
  BY DEF Tick
<1>11. now' - Window = now + 1 - Window /\ IsFiniteSet(onair)
  BY <1>0, <1>1 DEF GovernorInv, KnownInv
<1>2. EventsInv'
  <2>1. ASSUME NEW i \in DOMAIN events PROVE events[i].at <= now + 1
    BY <1>0, EventIs DEF EventsInv
  <2>. QED
    BY <1>0, <1>1, <2>1 DEF EventsInv, InOrder
<1>3. KnownInv'
  <2> SUFFICES ASSUME NEW e \in onair, e.run = restarts, e.at >= now + 1 - Window
               PROVE  \E i \in DOMAIN events : events[i].at = e.at /\ events[i].airtime = e.airtime
    BY <1>1, <1>11 DEF KnownInv
  <2>1. e.at >= now - Window
    <3>1. e.at \in Nat
      BY <1>0 DEF Frame
    <3>. QED
      BY <1>0, <3>1
  <2>. QED
    BY <2>1 DEF GovernorInv, KnownInv
<1>4. BudgetInv'
  BY <1>1 DEF GovernorInv, BudgetInv, Begins, OfRun, FrameTicks
<1>5. RoomInv'
  <2> SUFFICES ASSUME NEW s \in Senders, task[s].state = "writing"
               PROVE  RoomIn(events, task[s].airtime, now + 1 - Window)
    BY <1>1, <1>11 DEF RoomInv
  <2>1. Shape(task[s]) /\ task[s].state # "idle"
    BY <1>0
  <2>2. task[s].airtime \in Nat
    BY <2>1, BusyShape, DutyAssumption
  <2>3. RoomIn(events, task[s].airtime, now - Window)
    BY DEF GovernorInv, RoomInv
  <2>4. now - Window \in Int /\ now + 1 - Window \in Int /\ now - Window <= now + 1 - Window
    BY <1>0
  <2>. QED
    BY <1>0, <2>2, <2>3, <2>4, LaterRoom
<1>6. WaitInv'
  <2> SUFFICES ASSUME NEW s \in Senders PROVE WaitOK(task[s], events, now + 1, sent)
    BY <1>0, <1>1 DEF WaitInv, WaitOK, RoomIn, Since
  <2>1. Shape(task[s]) /\ WaitOK(task[s], events, now, sent)
    BY <1>0 DEF WaitInv
  <2>2. now + 1 \in Nat /\ now <= now + 1
    BY <1>0
  <2>. QED
    BY <1>0, <2>1, <2>2, WaitOn
<1>. QED
  BY <1>2, <1>3, <1>4, <1>5, <1>6 DEF GovernorInv

\* The invariant is inductive.
LEMMA GovernorStep ==
  ASSUME GovernorInv, [Next]_vars
  PROVE  GovernorInv'
<1>1. AirInv'
  BY AirStep DEF GovernorInv
<1>2. CASE UNCHANGED vars
  <2>1. UNCHANGED <<now, events, sent, owner, task, onair, restarts>>
    BY <1>2 DEF vars
  <2>2. EventsInv' /\ KnownInv' /\ RoomInv' /\ WaitInv'
    BY <2>1 DEF GovernorInv, EventsInv, InOrder, KnownInv, RoomInv, RoomIn, Since,
                WaitInv, WaitOK
  <2>3. BudgetInv'
    BY <2>1 DEF GovernorInv, BudgetInv, Begins, OfRun, FrameTicks
  <2>. QED
    BY <1>1, <2>2, <2>3 DEF GovernorInv
<1>. QED
  BY <1>1, <1>2, OwnStep, CheckStep, WrittenStep, RestartStep, TickStep DEF Next

-----------------------------------------------------------------------------

\* The governor keeps the radio within its budget in every window of time,
\* wherever the window begins and however the tasks interleave, wait and fail
\* (DutyCycleGovernor.check): it counts whole frames by the time they began, and
\* because frames do not overlap that is never less than what a window holds.
THEOREM BudgetHolds == Spec => []WindowBudget
<1>1. GovernorInv => WindowBudget
  <2> SUFFICES ASSUME GovernorInv, NEW x \in 0 .. now, NEW k \in 0 .. restarts
               PROVE  OnAir(OfRun(k), x) <= Budget
    BY DEF WindowBudget
  <2>1. x \in Int /\ k \in Nat
    BY DEF GovernorInv, AirInv, TasksInv
  <2>2. OfRun(k) \in SUBSET onair /\ \A e \in OfRun(k) : e.run = k
    BY DEF OfRun
  <2>3. OfRun(k) \subseteq Frame /\ IsFiniteSet(OfRun(k))
    BY <2>2, FS_Subset DEF GovernorInv, KnownInv, AirInv, OnAirInv
  <2>4. \A e, f \in OfRun(k) : e # f => End(e) <= f.at \/ End(f) <= e.at
    BY <2>2 DEF GovernorInv, AirInv, OneAtATime, End
  <2>5. \A y \in Int : Cardinality(FrameTicks(Begins(OfRun(k), y))) <= Budget
    BY <2>1 DEF GovernorInv, BudgetInv
  <2>. QED
    BY <2>1, <2>3, <2>4, <2>5, WindowsHold
<1>. QED
  BY <1>1, GovernorInit, GovernorStep, PTL DEF Spec

\* A task that slept for as long as the governor announced is permitted, if no
\* frame was sent in the meantime (DutyCycleExceeded.wait_seconds and
\* LoRaTransport.send_when_permitted): the second attempt is not refused.
THEOREM WaitSuffices == Spec => []WaitIsEnough
<1>1. GovernorInv => WaitIsEnough
  <2> SUFFICES ASSUME GovernorInv, NEW s \in Senders,
                      task[s].state = "queued", task[s].retry,
                      task[s].refused = sent, task[s].airtime <= Budget
               PROVE  Permitted(task[s].airtime)
    BY DEF WaitIsEnough
  <2>1. Waits(task[s]) /\ WaitOK(task[s], events, now, sent)
    BY DEF GovernorInv, WaitInv, Waits
  <2>2. /\ task[s].until \in Nat /\ task[s].until <= now /\ ~TooLong(task[s].airtime)
        /\ RoomIn(events, task[s].airtime, task[s].until - Window)
    BY <2>1 DEF WaitOK
  <2>3. Shape(task[s]) /\ task[s].state # "idle" /\ now \in Nat /\ EventsInv
    BY DEF GovernorInv, AirInv, TasksInv
  <2>4. task[s].airtime \in Airtimes
    BY <2>3, BusyShape
  <2>5. /\ task[s].until - Window \in Int /\ now - Window \in Int
        /\ task[s].until - Window <= now - Window
    BY <2>2, <2>3, DutyAssumption
  <2>. QED
    BY <2>2, <2>3, <2>4, <2>5, RoomPermitted
<1>. QED
  BY <1>1, GovernorInit, GovernorStep, PTL DEF Spec

-----------------------------------------------------------------------------

\* A step of s that makes a task of its own.
LEMMA TypeTask ==
  ASSUME task \in [Senders -> Task], NEW s \in Senders, NEW t \in Task,
         task' = [task EXCEPT ![s] = t]
  PROVE  task' \in [Senders -> Task]
  OBVIOUS

\* What the fields of a task that is not idle are.
LEMMA TypedTask ==
  ASSUME NEW t \in Task, t.state # "idle"
  PROVE  t \in [state : {"queued", "writing", "sending", "waiting"}, airtime : Airtimes,
                patient : BOOLEAN, retry : BOOLEAN, until : Nat, refused : Nat]
  BY DEF Task, Idle

\* The variables hold what the fields of the code can hold; in particular the
\* announced wait is a time, and no call is left with another one's lock.
THEOREM TypeCorrect == Spec => []TypeOK
<1>1. Init => TypeOK
  <2> SUFFICES ASSUME Init PROVE TypeOK
    OBVIOUS
  <2>1. task \in [Senders -> Task] /\ \A s \in Senders : task[s].state = "idle"
    BY DEF Init, Task, Idle
  <2>. QED
    BY <2>1, DutyAssumption DEF Init, TypeOK
<1>2. ASSUME TypeOK, GovernorInv, GovernorInv', [Next]_vars
      PROVE  TypeOK'
  <2>1. /\ events' \in Seq(Event)
        /\ \A s \in Senders : task'[s].state \in {"writing", "sending"} => owner' = s
        /\ onair' \in SUBSET [at : Nat, airtime : Airtimes, run : Nat]
    BY <1>2 DEF GovernorInv, EventsInv, AirInv, LockInv, HasLock, OnAirInv, Frame
  <2>2. /\ now \in 0 .. MaxTime /\ restarts \in 0 .. MaxRestarts /\ sent \in Nat
        /\ owner \in Senders \cup {NoSender} /\ task \in [Senders -> Task]
        /\ MaxTime \in Nat /\ MaxRestarts \in Nat
    BY <1>2, DutyAssumption DEF TypeOK
  <2> DEFINE Rest == /\ now' \in 0 .. MaxTime /\ restarts' \in 0 .. MaxRestarts /\ sent' \in Nat
                     /\ owner' \in Senders \cup {NoSender}
  <2>3. Idle \in Task
    BY DEF Task
  <2>4. ASSUME NEW s \in Senders, NEW a \in Airtimes, NEW patient \in BOOLEAN,
               Call(s, a, patient)
        PROVE  Rest /\ task' \in [Senders -> Task]
    <3> DEFINE t == [state |-> "queued", airtime |-> a, patient |-> patient,
                     retry |-> FALSE, until |-> 0, refused |-> 0]
    <3>1. t \in Task
      BY DEF Task
    <3>. QED
      BY <2>2, <2>4, <3>1, TypeTask DEF Call
  <2>5. ASSUME NEW s \in Senders, StartWrite(s)
        PROVE  Rest /\ task' \in [Senders -> Task]
    <3>1. task[s] \in Task /\ task[s].state # "idle"
      BY <2>2, <2>5 DEF StartWrite, GetsLock
    <3>2. [task[s] EXCEPT !.state = "writing"] \in Task
      BY <3>1, TypedTask DEF Task
    <3>3. task' = [task EXCEPT ![s] = [task[s] EXCEPT !.state = "writing"]]
      BY <2>2, <2>5 DEF StartWrite
    <3>. QED
      BY <2>2, <2>5, <3>2, <3>3, TypeTask DEF StartWrite
  <2>6. ASSUME NEW s \in Senders, Refuse(s)
        PROVE  Rest /\ task' \in [Senders -> Task]
    <3> DEFINE a == task[s].airtime
    <3>1. task[s] \in Task /\ task[s].state # "idle"
      BY <2>2, <2>6 DEF Refuse, GetsLock
    <3>2. a \in Airtimes
      BY <3>1, TypedTask
    <3>3. now \in Nat /\ EventsInv
      BY <1>2 DEF GovernorInv, AirInv, TasksInv
    <3>4. Wait(a) \in Nat
      BY <3>2, <3>3, WaitIs
    <3>5. PICK w : w = WakesAt(a)
      OBVIOUS
    <3>6. w \in Nat
      <4> DEFINE v == Wait(a)
      <4>1. v \in Nat /\ w = now + v + 1
        BY <3>4, <3>5 DEF WakesAt
      <4> HIDE DEF v
      <4>. QED
        BY <3>3, <4>1
    <3> DEFINE t == [task[s] EXCEPT !.state = "waiting", !.refused = sent, !.until = w]
    <3>7. t \in Task
      BY <2>2, <3>1, <3>6, TypedTask DEF Task
    <3>8. task' = [task EXCEPT ![s] = t] \/ task' = [task EXCEPT ![s] = Idle]
      BY <2>6, <3>5 DEF Refuse
    <3> HIDE DEF t
    <3>9. task' \in [Senders -> Task]
      BY <2>2, <2>3, <3>7, <3>8, TypeTask
    <3>. QED
      BY <2>2, <2>6, <3>9 DEF Refuse
  <2>7. ASSUME NEW s \in Senders, Retry(s)
        PROVE  Rest /\ task' \in [Senders -> Task]
    <3> DEFINE t == [task[s] EXCEPT !.state = "queued", !.retry = TRUE]
    <3>1. task[s] \in Task /\ task[s].state # "idle"
      BY <2>2, <2>7 DEF Retry
    <3>2. t \in Task
      BY <3>1, TypedTask DEF Task
    <3>3. task' = [task EXCEPT ![s] = t]
      BY <2>2, <2>7 DEF Retry
    <3> HIDE DEF t
    <3>. QED
      BY <2>2, <2>7, <3>2, <3>3, TypeTask DEF Retry
  <2>8. ASSUME NEW s \in Senders, Written(s)
        PROVE  Rest /\ task' \in [Senders -> Task]
    <3> DEFINE a == task[s].airtime
               t == [task[s] EXCEPT !.state = "sending", !.until = now + a]
    <3>1. task[s] \in Task /\ task[s].state # "idle"
      BY <2>2, <2>8 DEF Written
    <3>2. now + a \in Nat
      <4>1. a \in Airtimes
        BY <3>1, TypedTask
      <4> HIDE DEF a
      <4>2. a \in Nat
        BY <4>1, DutyAssumption
      <4>3. now \in Nat
        BY <2>2
      <4>. QED
        BY <4>2, <4>3
    <3>3. t \in Task
      BY <3>1, <3>2, TypedTask DEF Task
    <3>4. task' = [task EXCEPT ![s] = t]
      BY <2>2, <2>8 DEF Written
    <3> HIDE DEF t
    <3>. QED
      BY <2>2, <2>8, <3>3, <3>4, TypeTask DEF Written, OwnerOnAir
  <2>9. ASSUME NEW s \in Senders, WriteFails(s) \/ Finish(s)
        PROVE  Rest /\ task' \in [Senders -> Task]
    BY <2>2, <2>3, <2>9, TypeTask DEF WriteFails, Finish
  <2>10. ASSUME Restart
         PROVE  Rest /\ task' \in [Senders -> Task]
    BY <2>2, <2>3, <2>10 DEF Restart
  <2>11. ASSUME Tick
         PROVE  Rest /\ task' \in [Senders -> Task]
    BY <2>2, <2>11 DEF Tick
  <2>12. ASSUME UNCHANGED vars
         PROVE  Rest /\ task' \in [Senders -> Task]
    <3>1. UNCHANGED <<now, events, sent, owner, task, onair, restarts>>
      BY <2>12 DEF vars
    <3>. QED
      BY <2>2, <3>1
  <2> HIDE DEF Rest
  <2>13. Rest /\ task' \in [Senders -> Task]
    BY <1>2, <2>4, <2>5, <2>6, <2>7, <2>8, <2>9, <2>10, <2>11, <2>12 DEF Next
  <2>. QED
    BY <2>1, <2>13 DEF TypeOK, Rest
<1>. QED
  BY <1>1, <1>2, GovernorInit, GovernorStep, PTL DEF Spec

-----------------------------------------------------------------------------
(* The buffer of the Reassembler: sums of bytes, and how often a message   *)
(* was returned, are counted as units too.  NoEcho is not inductive: a     *)
(* fragment that waits in an entry has arrived without being returned, and *)
(* the invariant counts it.                                                *)

\* Cardinality is the same operator in the instance.
LEMMA SameCardinality ==
  /\ \A S : Buffer!Cardinality(S) = Cardinality(S)
  /\ \A S : Buffer!IsFiniteSet(S) <=> IsFiniteSet(S)
<1>1. \A S : Buffer!Cardinality(S) = Cardinality(S)
  BY DEF Buffer!Cardinality, Cardinality
<1>2. \A S : Buffer!IsFiniteSet(S) <=> IsFiniteSet(S)
  BY DEF Buffer!IsFiniteSet, IsFiniteSet
<1>. QED
  BY <1>1, <1>2

\* Finitely many numbers have a largest one.
LEMMA LargestNumber ==
  ASSUME NEW K, IsFiniteSet(K), K \subseteq Nat, K # {}
  PROVE  \E x \in K : \A y \in K : y <= x
<1> DEFINE C == {s \in SUBSET K : s = {} \/ \E x \in s : \A y \in s : y <= x}
<1>1. {} \in C
  OBVIOUS
<1>2. ASSUME NEW s \in SUBSET K, NEW x \in s, s \ {x} \in C
      PROVE  s \in C
  <2>1. CASE s \ {x} = {}
    <3>1. s = {x} /\ x \in Nat
      BY <2>1
    <3>. QED
      BY <3>1
  <2>2. CASE s \ {x} # {}
    <3>1. PICK m \in s \ {x} : \A y \in s \ {x} : y <= m
      BY <1>2, <2>2
    <3>2. x \in Nat /\ m \in Nat /\ \A y \in s : y \in Nat
      OBVIOUS
    <3>3. CASE x <= m
      BY <3>1, <3>2, <3>3
    <3>4. CASE ~(x <= m)
      <4>1. \A y \in s : y <= x
        BY <3>1, <3>2, <3>4
      <4>. QED
        BY <4>1
    <3>. QED
      BY <3>3, <3>4
  <2>. QED
    BY <2>1, <2>2
<1> HIDE DEF C
<1>3. K \in C
  BY <1>1, <1>2, SetInduction
<1>. QED
  BY <1>3 DEF C

Increasing(f) == \A j, k \in DOMAIN f : j < k => f[j] < f[k]

\* Finitely many numbers can be listed in their order.
LEMMA Listed ==
  ASSUME NEW K, IsFiniteSet(K), K \subseteq Nat
  PROVE  /\ Cardinality(K) \in Nat
         /\ \E f \in [1 .. Cardinality(K) -> K] : Increasing(f)
<1> DEFINE T == {s \in SUBSET K : ~\E f \in [1 .. Cardinality(s) -> s] : Increasing(f)}
<1>1. T = {}
  <2> SUFFICES ASSUME T # {} PROVE FALSE
    OBVIOUS
  <2>0. T \subseteq SUBSET K
    OBVIOUS
  <2>1. PICK s \in T : \A x \in s : s \ {x} \notin T
    <3> HIDE DEF T
    <3>. QED
      BY <2>0, SmallestSet
  <2>2. s # {}
    <3> SUFFICES ASSUME s = {} PROVE FALSE
      OBVIOUS
    <3>1. Cardinality(s) = 0
      BY FS_EmptySet
    <3>2. [i \in 1 .. 0 |-> 0] \in [1 .. Cardinality(s) -> s]
      BY <3>1
    <3>3. Increasing([i \in 1 .. 0 |-> 0])
      BY DEF Increasing
    <3>. QED
      BY <3>2, <3>3
  <2>3. IsFiniteSet(s) /\ s \subseteq Nat
    BY FS_Subset
  <2>4. PICK x \in s : \A y \in s : y <= x
    BY <2>2, <2>3, LargestNumber
  <2> DEFINE r == s \ {x}
             n == Cardinality(r)
  <2>5. IsFiniteSet(r) /\ n \in Nat /\ Cardinality(s) = n + 1
    <3>1. IsFiniteSet(r) /\ Cardinality(r) = Cardinality(s) - 1
      BY <2>3, FS_RemoveElement
    <3>2. n \in Nat /\ Cardinality(s) \in Nat
      BY <3>1, <2>3, FS_CardinalityType
    <3>. QED
      BY <3>1, <3>2
  <2>6. PICK f \in [1 .. n -> r] : Increasing(f)
    BY <2>1
  <2> HIDE DEF n
  <2> DEFINE g == [k \in 1 .. n + 1 |-> IF k <= n THEN f[k] ELSE x]
  <2>7. g \in [1 .. Cardinality(s) -> s]
    BY <2>5
  <2>8. ASSUME NEW j \in 1 .. n + 1, NEW k \in 1 .. n + 1, j < k
        PROVE  g[j] < g[k]
    <3>1. j \in 1 .. n /\ g[j] = f[j] /\ f[j] \in r
      BY <2>5, <2>8
    <3>2. CASE k <= n
      BY <2>5, <2>6, <2>8, <3>1, <3>2 DEF Increasing
    <3>3. CASE ~(k <= n)
      <4>1. g[k] = x /\ f[j] <= x /\ f[j] # x /\ f[j] \in Nat /\ x \in Nat
        BY <2>3, <2>4, <2>5, <3>1, <3>3
      <4>. QED
        BY <3>1, <4>1
    <3>. QED
      BY <3>2, <3>3
  <2>9. Increasing(g)
    BY <2>8 DEF Increasing
  <2>. QED
    BY <2>7, <2>9
<1>. QED
  BY <1>1, FS_CardinalityType

\* q has what p has at the places in I, once and in its order.
Keeps(q, p, I) ==
  /\ Len(q) = Cardinality(I)
  /\ \E place \in [1 .. Len(q) -> I] :
       /\ Increasing(place)
       /\ \A k \in 1 .. Len(q) : q[k] = p[place[k]]
       /\ \A i \in I : \E k \in 1 .. Len(q) : place[k] = i

LEMMA ChosenIs ==
  ASSUME NEW S, NEW p \in Seq(S), NEW I \in SUBSET DOMAIN p
  PROVE  Buffer!Chosen(p, I) \in Seq(S) /\ Keeps(Buffer!Chosen(p, I), p, I)
<1> DEFINE q == Buffer!Chosen(p, I)
           n == Cardinality(I)
           place == CHOOSE f \in [1 .. n -> I] : Increasing(f)
<1>1. IsFiniteSet(I) /\ I \subseteq Nat
  <2>1. DOMAIN p = 1 .. Len(p) /\ Len(p) \in Nat
    OBVIOUS
  <2>2. IsFiniteSet(1 .. Len(p))
    BY <2>1, FS_Interval
  <2>. QED
    BY <2>1, <2>2, FS_Subset
<1>2. n \in Nat /\ place \in [1 .. n -> I] /\ Increasing(place)
  BY <1>1, Listed
<1>3. q = [k \in 1 .. n |-> p[place[k]]]
  <2> DEFINE m == Buffer!Cardinality(I)
             there == CHOOSE f \in [1 .. m -> I] : \A j, k \in DOMAIN f : j < k => f[j] < f[k]
  <2>1. q = [k \in 1 .. m |-> p[there[k]]]
    BY DEF Buffer!Chosen
  <2>2. m = n
    BY SameCardinality
  <2>3. there = CHOOSE f \in [1 .. m -> I] : Increasing(f)
    BY DEF Increasing
  <2> HIDE DEF q, m, n, there
  <2>4. there = CHOOSE f \in [1 .. n -> I] : Increasing(f)
    BY <2>2, <2>3
  <2>5. q = [k \in 1 .. n |-> p[there[k]]]
    BY <2>1, <2>2
  <2>. QED
    BY <2>4, <2>5
<1> HIDE DEF place, q, n
<1>4. q \in Seq(S) /\ Len(q) = n
  <2>1. \A k \in 1 .. n : p[place[k]] \in S
    BY <1>2
  <2>. QED
    BY <1>2, <1>3, <2>1
<1>5. ASSUME NEW i \in I PROVE \E k \in 1 .. n : place[k] = i
  <2>1. \A j, k \in 1 .. n : place[j] = place[k] => j = k
    <3> SUFFICES ASSUME NEW j \in 1 .. n, NEW k \in 1 .. n, place[j] = place[k], j # k
                 PROVE  FALSE
      OBVIOUS
    <3>1. j < k \/ k < j
      BY <1>2
    <3>2. place[j] \in Nat /\ place[k] \in Nat
      BY <1>1, <1>2
    <3>. QED
      BY <1>2, <3>1, <3>2 DEF Increasing
  <2>2. place \in Injection(1 .. n, I)
    BY <1>2, <2>1 DEF Injection, IsInjective
  <2>3. IsFiniteSet(1 .. n) /\ Cardinality(1 .. n) = n
    BY <1>2, FS_Interval
  <2>4. place \in Surjection(1 .. n, I)
    BY <1>1, <2>2, <2>3, FS_Injection DEF n
  <2>. QED
    BY <2>4 DEF Surjection
<1>6. /\ q \in Seq(S) /\ Len(q) = Cardinality(I)
      /\ place \in [1 .. Len(q) -> I] /\ Increasing(place)
      /\ \A k \in 1 .. Len(q) : q[k] = p[place[k]]
      /\ \A i \in I : \E k \in 1 .. Len(q) : place[k] = i
  BY <1>1, <1>2, <1>3, <1>4, <1>5 DEF n
<1>. QED
  BY <1>6 DEF q, Keeps

\* The bytes of fragments, and the returns of messages, counted as units.
LEMMA SizesCount ==
  ASSUME NEW fs, IsFiniteSet(fs), \A f \in fs : f.size \in Nat
  PROVE  Buffer!SumSizes(fs) = Cardinality(Units([f \in fs |-> f.size], fs))
<1> DEFINE w == [f \in fs |-> f.size]
           A(it) == it = [s \in SUBSET fs |-> IF s = {} THEN 0
                       ELSE (CHOOSE x \in s : TRUE).size + it[s \ {CHOOSE x \in s : TRUE}]]
<1>1. Buffer!SumSizes(fs) = (CHOOSE it : A(it))[fs]
  BY DEF A, Buffer!SumSizes, Buffer!MapThenSumSet, Buffer!MapThenFoldSet
<1>2. w \in [fs -> Nat]
  OBVIOUS
<1>3. ASSUME NEW it PROVE A(it) <=> Adds(it, w, fs)
  <2> DEFINE a == [s \in SUBSET fs |-> IF s = {} THEN 0
                       ELSE (CHOOSE x \in s : TRUE).size + it[s \ {CHOOSE x \in s : TRUE}]]
             b == [s \in SUBSET fs |-> IF s = {} THEN 0 ELSE w[Pick(s)] + it[s \ {Pick(s)}]]
  <2>1. ASSUME NEW s \in SUBSET fs PROVE a[s] = b[s]
    BY DEF Pick
  <2>2. a = b
    BY <2>1
  <2>. QED
    BY <2>2 DEF Adds
<1> HIDE DEF w, A
<1>4. A(CHOOSE it : A(it))
  BY <1>2, <1>3, SumIsCount
<1>5. Adds(CHOOSE it : A(it), w, fs)
  BY <1>3, <1>4
<1>6. Buffer!SumSizes(fs) = Cardinality(Units(w, fs))
  BY <1>1, <1>2, <1>5, SumIsCount
<1>. QED
  BY <1>6 DEF w

LEMMA ReturnsCount ==
  ASSUME NEW r, NEW D, IsFiniteSet(D), \A m \in D : r[m] \in Nat
  PROVE  Buffer!MapThenSumSet(LAMBDA m : r[m], D) = Cardinality(Units([m \in D |-> r[m]], D))
<1> DEFINE w == [m \in D |-> r[m]]
           A(it) == it = [s \in SUBSET D |-> IF s = {} THEN 0
                       ELSE r[CHOOSE x \in s : TRUE] + it[s \ {CHOOSE x \in s : TRUE}]]
<1>1. Buffer!MapThenSumSet(LAMBDA m : r[m], D) = (CHOOSE it : A(it))[D]
  BY DEF A, Buffer!MapThenSumSet, Buffer!MapThenFoldSet
<1>2. w \in [D -> Nat]
  OBVIOUS
<1>3. ASSUME NEW it PROVE A(it) <=> Adds(it, w, D)
  <2> DEFINE a == [s \in SUBSET D |-> IF s = {} THEN 0
                       ELSE r[CHOOSE x \in s : TRUE] + it[s \ {CHOOSE x \in s : TRUE}]]
             b == [s \in SUBSET D |-> IF s = {} THEN 0 ELSE w[Pick(s)] + it[s \ {Pick(s)}]]
  <2>1. ASSUME NEW s \in SUBSET D PROVE a[s] = b[s]
    BY DEF Pick
  <2>2. a = b
    BY <2>1
  <2>. QED
    BY <2>2 DEF Adds
<1> HIDE DEF w, A
<1>4. A(CHOOSE it : A(it))
  BY <1>2, <1>3, SumIsCount
<1>5. Adds(CHOOSE it : A(it), w, D)
  BY <1>3, <1>4
<1>6. Buffer!MapThenSumSet(LAMBDA m : r[m], D) = Cardinality(Units(w, D))
  BY <1>1, <1>2, <1>5, SumIsCount
<1>. QED
  BY <1>6 DEF w

\* A sum grows by what is put in.
LEMMA SizesGrow ==
  ASSUME NEW fs, IsFiniteSet(fs), \A g \in fs : g.size \in Nat, NEW f, f \notin fs, f.size \in Nat
  PROVE  /\ Buffer!SumSizes(fs) \in Nat
         /\ Buffer!SumSizes(fs \cup {f}) = Buffer!SumSizes(fs) + f.size
<1> DEFINE S == fs \cup {f}
           w == [g \in S |-> g.size]
           v == [g \in fs |-> g.size]
<1>1. IsFiniteSet(S)
  BY FS_AddElement
<1>2. w \in [S -> Nat] /\ v \in [fs -> Nat] /\ w[f] = f.size
  OBVIOUS
<1>3. S \ {f} = fs
  OBVIOUS
<1>4. Units(w, fs) = Units(v, fs)
  BY DEF Units
<1>5. IsFiniteSet(Units(w, S \ {f})) /\ IsFiniteSet(Units(v, fs))
  BY <1>1, <1>2, UnitsFinite
<1>6. Cardinality(Units(w, S)) = w[f] + Cardinality(Units(w, S \ {f}))
  <2> HIDE DEF w
  <2>. QED
    BY <1>2, <1>5, UnitsSplit
<1>7. Buffer!SumSizes(S) = Cardinality(Units(w, S))
  BY <1>1, <1>2, SizesCount
<1>8. Buffer!SumSizes(fs) = Cardinality(Units(v, fs))
  BY <1>2, SizesCount
<1>9. Cardinality(Units(v, fs)) \in Nat
  BY <1>5, FS_CardinalityType
<1> HIDE DEF w, v
<1>10. Buffer!SumSizes(S) = f.size + Buffer!SumSizes(fs)
  BY <1>2, <1>3, <1>4, <1>6, <1>7, <1>8
<1>. QED
  BY <1>2, <1>8, <1>9, <1>10

\* How often messages with f were returned.
Returned(r, f) == Cardinality(Units([m \in {x \in DOMAIN r : f \in x} |-> r[m]],
                                    {x \in DOMAIN r : f \in x}))

After(r, fs) == [m \in DOMAIN r \cup {fs} |->
                   (IF m \in DOMAIN r THEN r[m] ELSE 0) + (IF m = fs THEN 1 ELSE 0)]

\* One more return of fs counts once for each of its fragments.
LEMMA ReturnCounts ==
  ASSUME NEW r, IsFiniteSet(DOMAIN r), \A m \in DOMAIN r : r[m] \in Nat, NEW fs, NEW f
  PROVE  /\ Returned(r, f) \in Nat
         /\ Returned(After(r, fs), f) = Returned(r, f) + (IF f \in fs THEN 1 ELSE 0)
<1> DEFINE R == After(r, fs)
           D == {x \in DOMAIN r : f \in x}
           E == {x \in DOMAIN R : f \in x}
           v == [m \in D |-> r[m]]
           w == [m \in E |-> R[m]]
<1>1. IsFiniteSet(D) /\ v \in [D -> Nat]
  BY FS_Subset
<1>2. IsFiniteSet(Units(v, D)) /\ Cardinality(Units(v, D)) \in Nat
  <2> HIDE DEF v, D
  <2>. QED
    BY <1>1, UnitsFinite, FS_CardinalityType
<1>3. \A m \in E : w[m] = (IF m \in DOMAIN r THEN r[m] ELSE 0) + (IF m = fs THEN 1 ELSE 0)
  BY DEF After
<1>4. DOMAIN R = DOMAIN r \cup {fs}
  BY DEF After
<1>5. \A m \in E : m # fs => m \in D /\ w[m] = v[m]
  <2> SUFFICES ASSUME NEW m \in E, m # fs PROVE m \in D /\ w[m] = v[m]
    OBVIOUS
  <2>1. m \in D
    BY <1>4
  <2>2. r[m] \in Nat /\ v[m] = r[m]
    BY <2>1
  <2>3. w[m] = r[m] + 0
    BY <1>3, <2>1
  <2>. QED
    BY <2>1, <2>2, <2>3
<1>6. CASE f \notin fs
  <2>1. E = D /\ w = v
    <3>1. E = D
      BY <1>4, <1>6
    <3>2. \A m \in D : w[m] = v[m]
      BY <1>5, <1>6, <3>1
    <3>. QED
      BY <3>1, <3>2
  <2>2. Returned(R, f) = Returned(r, f)
    BY <2>1 DEF Returned
  <2>. QED
    BY <1>2, <1>6, <2>2 DEF Returned
<1>7. CASE f \in fs
  <2>1. E = D \cup {fs} /\ fs \in E
    BY <1>4, <1>7
  <2>2. IsFiniteSet(E)
    BY <1>1, <2>1, FS_AddElement
  <2>3. w \in [E -> Nat]
    <3>1. \A m \in E : w[m] \in Nat
      BY <1>3
    <3>. QED
      BY <3>1
  <2>4. E \ {fs} = D \ {fs} /\ Units(w, E \ {fs}) = Units(v, D \ {fs})
    <3>1. E \ {fs} = D \ {fs}
      BY <2>1
    <3>2. \A m \in D \ {fs} : w[m] = v[m]
      BY <1>5, <2>1
    <3> HIDE DEF w, v, D, E
    <3>. QED
      BY <3>1, <3>2 DEF Units
  <2>5. Cardinality(Units(w, E)) = w[fs] + Cardinality(Units(v, D \ {fs}))
    <3> HIDE DEF w, v, D, E
    <3>1. IsFiniteSet(Units(w, E \ {fs}))
      BY <2>2, <2>3, UnitsFinite
    <3>. QED
      BY <2>1, <2>3, <2>4, <3>1, UnitsSplit
  <2>6. Cardinality(Units(w, E)) = Cardinality(Units(v, D)) + 1
    <3>1. CASE fs \in DOMAIN r
      <4>1. fs \in D /\ w[fs] = v[fs] + 1 /\ v[fs] \in Nat
        BY <1>3, <1>7, <2>1, <3>1
      <4> HIDE DEF w, v, D, E
      <4>2. IsFiniteSet(Units(v, D \ {fs}))
        BY <1>1, UnitsFinite
      <4>3. Cardinality(Units(v, D)) = v[fs] + Cardinality(Units(v, D \ {fs}))
        BY <1>1, <4>1, <4>2, UnitsSplit
      <4>4. Cardinality(Units(v, D \ {fs})) \in Nat
        BY <4>2, FS_CardinalityType
      <4>. QED
        BY <2>5, <4>1, <4>3, <4>4
    <3>2. CASE fs \notin DOMAIN r
      <4>1. D \ {fs} = D /\ w[fs] = 1
        BY <1>3, <2>1, <3>2
      <4> HIDE DEF w, v, D, E
      <4>. QED
        BY <1>2, <2>5, <4>1
    <3>. QED
      BY <3>1, <3>2
  <2>. QED
    BY <1>2, <1>7, <2>6 DEF Returned
<1>. QED
  BY <1>6, <1>7

\* An entry: fragments that agree with it and not with each other, and their bytes.
EntryOK(e) ==
  /\ e \in Buffer!Partial /\ e.count > 1
  /\ \A f \in e.fragments : f.id = e.id /\ f.count = e.count /\ f.type = e.type
  /\ \A f, g \in e.fragments : f.index = g.index => f = g
  /\ e.bytes = Buffer!SumSizes(e.fragments) /\ e.bytes <= MaxBytes

EntriesOK(p) ==
  /\ p \in Seq(Buffer!Partial) /\ Len(p) <= MaxPartials
  /\ \A i \in DOMAIN p : EntryOK(p[i])
  /\ \A i, j \in DOMAIN p : p[i].id = p[j].id => i = j

Fresh(p, time) == \A i \in DOMAIN p : time - p[i].first <= Timeout

\* Whether f waits in some entry.
Held(p, f) == IF \E i \in DOMAIN p : f \in p[i].fragments THEN 1 ELSE 0

BufferInv ==
  /\ Buffer!ReassemblyAssumption /\ Buffer!TypeOK
  /\ EntriesOK(partials) /\ Fresh(partials, lastSweep)
  /\ Buffer!OneMessage
  /\ \A f \in Fragments : Returned(returns, f) + Held(partials, f) <= Len(arrivals[f])

\* The assumption, of which the proofs need that there are finitely many
\* fragments and that their numbers are numbers.
LEMMA FragmentsAre ==
  ASSUME Buffer!ReassemblyAssumption
  PROVE  /\ IsFiniteSet(Fragments) /\ MaxPartials \in Nat \ {0}
         /\ MaxBytes \in Nat /\ Timeout \in Nat /\ LastTime \in Nat /\ MaxCopies \in Nat
         /\ \A f \in Fragments : f.size \in Nat /\ f.count \in Nat \ {0} /\ f.id \in Buffer!Ids
<1>1. \A f \in Fragments : f.id \in Buffer!Ids
  BY DEF Buffer!Ids
<1>. QED
  BY <1>1, SameCardinality DEF Buffer!ReassemblyAssumption, Buffer!Fragment

LEMMA Places ==
  ASSUME NEW n \in Nat
  PROVE  IsFiniteSet(1 .. n) /\ Cardinality(1 .. n) = n
<1>1. 1 \in Int /\ n \in Int
  OBVIOUS
<1>2. IsFiniteSet(1 .. n) /\ Cardinality(1 .. n) = IF 1 > n THEN 0 ELSE n - 1 + 1
  BY <1>1, FS_Interval
<1>. QED
  BY <1>2

\* Fewer places than a sequence has, if one is left out.
LEMMA FewerPlaces ==
  ASSUME NEW n \in Nat, NEW I, I \subseteq 1 .. n
  PROVE  /\ IsFiniteSet(I) /\ Cardinality(I) \in Nat /\ Cardinality(I) <= n
         /\ \A x \in 1 .. n : x \notin I => Cardinality(I) < n
<1> DEFINE P == 1 .. n
<1>1. IsFiniteSet(P) /\ Cardinality(P) = n /\ I \subseteq P
  BY Places
<1> HIDE DEF P
<1>2. IsFiniteSet(I) /\ Cardinality(I) <= n
  BY <1>1, FS_Subset
<1>3. Cardinality(I) \in Nat
  BY <1>2, FS_CardinalityType
<1>4. ASSUME NEW x \in P, x \notin I PROVE Cardinality(I) < n
  <2>1. Cardinality(I) # n
    BY <1>1, <1>4, FS_Subset
  <2>. QED
    BY <1>2, <1>3, <2>1
<1>. QED
  BY <1>2, <1>3, <1>4 DEF P

\* Keeping some entries keeps what holds of the entries.
LEMMA ChosenOK ==
  ASSUME Buffer!ReassemblyAssumption, NEW p, EntriesOK(p), NEW I \in SUBSET DOMAIN p
  PROVE  LET q == Buffer!Chosen(p, I)
         IN  /\ EntriesOK(q) /\ Len(q) = Cardinality(I) /\ Len(q) <= Len(p)
             /\ \A k \in DOMAIN q : \E i \in I : q[k] = p[i]
             /\ \A i \in I : \E k \in DOMAIN q : q[k] = p[i]
<1> DEFINE q == Buffer!Chosen(p, I)
<1>1. p \in Seq(Buffer!Partial)
  BY DEF EntriesOK
<1>2. q \in Seq(Buffer!Partial) /\ Keeps(q, p, I)
  BY <1>1, ChosenIs
<1> HIDE DEF q
<1>3. PICK place \in [1 .. Len(q) -> I] :
           /\ Increasing(place)
           /\ \A k \in 1 .. Len(q) : q[k] = p[place[k]]
           /\ \A i \in I : \E k \in 1 .. Len(q) : place[k] = i
  BY <1>2 DEF Keeps
<1>4. DOMAIN q = 1 .. Len(q) /\ Len(q) \in Nat /\ DOMAIN p = 1 .. Len(p) /\ Len(p) \in Nat
      /\ Len(q) = Cardinality(I)
  BY <1>1, <1>2 DEF Keeps
<1>5. Len(q) <= Len(p)
  <2>1. I \subseteq 1 .. Len(p)
    BY <1>4
  <2>. QED
    BY <1>2, <1>4, <2>1, FewerPlaces
<1>6. \A k \in DOMAIN q : place[k] \in I /\ place[k] \in DOMAIN p /\ q[k] = p[place[k]]
  BY <1>3, <1>4
<1>7. ASSUME NEW j \in DOMAIN q, NEW k \in DOMAIN q, q[j].id = q[k].id
      PROVE  j = k
  <2>1. place[j] = place[k] /\ place[j] \in Nat
    BY <1>4, <1>6, <1>7 DEF EntriesOK
  <2>2. j < k \/ k < j \/ j = k
    BY <1>4
  <2>3. place[k] \in Nat
    BY <2>1
  <2>. QED
    BY <1>3, <1>4, <2>1, <2>2, <2>3 DEF Increasing
<1>8. \A k \in DOMAIN q : EntryOK(q[k])
  BY <1>6 DEF EntriesOK
<1>9. MaxPartials \in Nat /\ Len(p) <= MaxPartials
  BY FragmentsAre DEF EntriesOK
<1>10. EntriesOK(q)
  BY <1>2, <1>4, <1>5, <1>7, <1>8, <1>9 DEF EntriesOK
<1>11. /\ \A k \in DOMAIN q : \E i \in I : q[k] = p[i]
       /\ \A i \in I : \E k \in DOMAIN q : q[k] = p[i]
  <2>1. \A k \in DOMAIN q : \E i \in I : q[k] = p[i]
    BY <1>6
  <2>2. ASSUME NEW i \in I PROVE \E k \in DOMAIN q : q[k] = p[i]
    <3>1. PICK k \in DOMAIN q : place[k] = i
      BY <1>3, <1>4
    <3>. QED
      BY <1>6, <3>1
  <2>. QED
    BY <2>1, <2>2
<1>. QED
  BY <1>4, <1>5, <1>10, <1>11 DEF q

\* The sweep, and taking one entry out.
LEMMA UnexpiredOK ==
  ASSUME Buffer!ReassemblyAssumption, NEW p, EntriesOK(p)
  PROVE  LET q == Buffer!Unexpired(p)
         IN  /\ EntriesOK(q) /\ Fresh(q, clock)
             /\ \A k \in DOMAIN q : \E i \in DOMAIN p : q[k] = p[i]
<1> DEFINE I == {i \in DOMAIN p : clock - p[i].first <= Timeout}
<1>1. Buffer!Unexpired(p) = Buffer!Chosen(p, I)
  BY DEF Buffer!Unexpired
<1>2. I \in SUBSET DOMAIN p /\ \A i \in I : clock - p[i].first <= Timeout
  OBVIOUS
<1> HIDE DEF I
<1>3. /\ EntriesOK(Buffer!Chosen(p, I))
      /\ \A k \in DOMAIN Buffer!Chosen(p, I) : \E i \in I : Buffer!Chosen(p, I)[k] = p[i]
  BY <1>2, ChosenOK
<1>. QED
  BY <1>1, <1>2, <1>3 DEF Fresh

LEMMA WithoutOK ==
  ASSUME Buffer!ReassemblyAssumption, NEW p, EntriesOK(p), NEW id
  PROVE  LET q == Buffer!Without(p, id)
         IN  /\ EntriesOK(q)
             /\ \A k \in DOMAIN q : q[k].id # id /\ \E i \in DOMAIN p : q[k] = p[i]
             /\ \A i \in DOMAIN p : p[i].id # id => \E k \in DOMAIN q : q[k] = p[i]
             /\ Buffer!HasEntry(p, id) => Len(q) < Len(p)
<1> DEFINE I == {i \in DOMAIN p : p[i].id # id}
           q == Buffer!Chosen(p, I)
<1>1. Buffer!Without(p, id) = q
  BY DEF Buffer!Without
<1>2. /\ I \in SUBSET DOMAIN p /\ \A i \in I : p[i].id # id
      /\ \A i \in DOMAIN p : p[i].id # id => i \in I
  OBVIOUS
<1> HIDE DEF I
<1>3. /\ EntriesOK(q) /\ Len(q) = Cardinality(I)
      /\ \A k \in DOMAIN q : \E i \in I : q[k] = p[i]
      /\ \A i \in I : \E k \in DOMAIN q : q[k] = p[i]
  BY <1>2, ChosenOK
<1>4. ASSUME Buffer!HasEntry(p, id) PROVE Len(q) < Len(p)
  <2>1. PICK x \in DOMAIN p : p[x].id = id
    BY <1>4 DEF Buffer!HasEntry
  <2>2. DOMAIN p = 1 .. Len(p) /\ Len(p) \in Nat
    BY DEF EntriesOK
  <2>3. x \in 1 .. Len(p) /\ x \notin I /\ I \subseteq 1 .. Len(p)
    BY <1>2, <2>1, <2>2
  <2>. QED
    BY <1>3, <2>2, <2>3, FewerPlaces
<1> HIDE DEF q
<1>5. /\ EntriesOK(q)
      /\ \A k \in DOMAIN q : q[k].id # id /\ \E i \in DOMAIN p : q[k] = p[i]
      /\ \A i \in DOMAIN p : p[i].id # id => \E k \in DOMAIN q : q[k] = p[i]
      /\ Buffer!HasEntry(p, id) => Len(q) < Len(p)
  BY <1>2, <1>3, <1>4
<1>. QED
  BY <1>1, <1>5

\* The eviction makes room for one entry.
LEMMA EvictedOK ==
  ASSUME Buffer!ReassemblyAssumption, NEW p, EntriesOK(p)
  PROVE  LET q == Buffer!Evicted(p)
         IN  /\ EntriesOK(q) /\ Len(q) < MaxPartials
             /\ \A k \in DOMAIN q : \E i \in DOMAIN p : q[k] = p[i]
<1>0. /\ DOMAIN p = 1 .. Len(p) /\ Len(p) \in Nat /\ MaxPartials \in Nat \ {0}
      /\ Len(p) <= MaxPartials
  BY FragmentsAre DEF EntriesOK
<1>1. CASE Len(p) < MaxPartials
  BY <1>1 DEF Buffer!Evicted
<1>2. CASE ~(Len(p) < MaxPartials)
  <2> DEFINE oldest == {i \in DOMAIN p : \A j \in DOMAIN p : p[i].first <= p[j].first}
             o == Buffer!Min(oldest)
  <2>1. o \in DOMAIN p
    <3> DEFINE F == {p[i].first : i \in DOMAIN p}
    <3>1. \A i \in DOMAIN p : p[i].first \in Nat
      BY FragmentsAre DEF EntriesOK, EntryOK, Buffer!Partial
    <3>2. 1 \in DOMAIN p
      BY <1>0, <1>2
    <3>3. F \subseteq Nat /\ F # {}
      BY <3>1, <3>2
    <3>4. \E x \in F : \A y \in F : x <= y
      <4> HIDE DEF F
      <4>. QED
        BY <3>3, SmallestNumber
    <3>5. \E i \in DOMAIN p : \A j \in DOMAIN p : p[i].first <= p[j].first
      BY <3>4
    <3>6. oldest \subseteq Nat /\ oldest # {} /\ oldest \subseteq DOMAIN p
      BY <1>0, <3>5
    <3>7. \E x \in oldest : \A y \in oldest : x <= y
      <4> HIDE DEF oldest
      <4>. QED
        BY <3>6, SmallestNumber
    <3> HIDE DEF oldest
    <3>8. o \in oldest
      BY <3>7 DEF Buffer!Min
    <3>. QED
      BY <3>6, <3>8
  <2>2. Buffer!Evicted(p) = Buffer!Without(p, p[o].id)
    BY <1>2 DEF Buffer!Evicted
  <2> HIDE DEF o
  <2>3. Buffer!HasEntry(p, p[o].id)
    BY <2>1 DEF Buffer!HasEntry
  <2> DEFINE q == Buffer!Without(p, p[o].id)
  <2>4. /\ EntriesOK(q) /\ Len(q) < Len(p)
        /\ \A k \in DOMAIN q : \E i \in DOMAIN p : q[k] = p[i]
    BY <2>3, WithoutOK
  <2>5. Len(q) \in Nat
    BY <2>4 DEF EntriesOK
  <2> HIDE DEF q
  <2>6. Len(q) < MaxPartials
    BY <1>0, <2>4, <2>5
  <2>. QED
    BY <2>2, <2>4, <2>6 DEF q
<1>. QED
  BY <1>1, <1>2

\* Nothing holds no bytes.
LEMMA NoSizes == Buffer!SumSizes({}) = 0
<1>1. IsFiniteSet({}) /\ \A f \in {} : f.size \in Nat
  BY FS_EmptySet
<1>2. Buffer!SumSizes({}) = Cardinality(Units([f \in {} |-> f.size], {}))
  BY <1>1, SizesCount
<1>3. Units([f \in {} |-> f.size], {}) = {}
  BY DEF Units
<1>. QED
  BY <1>2, <1>3, FS_EmptySet

\* The entries that add looks at: those left by the sweep and the eviction, and
\* an empty one for f if it has none.
LEMMA EntriesAre ==
  ASSUME BufferInv, NEW f \in Fragments, f.count > 1
  PROVE  /\ EntriesOK(Buffer!Entries(f)) /\ Fresh(Buffer!Entries(f), clock)
         /\ Buffer!Entry(f).id = f.id
         /\ \E k \in DOMAIN Buffer!Entries(f) : Buffer!Entries(f)[k] = Buffer!Entry(f)
         /\ \A k \in DOMAIN Buffer!Entries(f) :
              \/ \E i \in DOMAIN partials : Buffer!Entries(f)[k] = partials[i]
              \/ Buffer!Entries(f)[k].fragments = {}
<1> DEFINE u == Buffer!Unexpired(partials)
           v == Buffer!Evicted(u)
           new == [id |-> f.id, count |-> f.count, type |-> f.type,
                   fragments |-> {}, bytes |-> 0, first |-> clock]
           q == Buffer!Entries(f)
<1>1. Buffer!ReassemblyAssumption /\ EntriesOK(partials) /\ clock \in 0 .. LastTime
  BY DEF BufferInv, Buffer!TypeOK
<1>2. /\ EntriesOK(u) /\ Fresh(u, clock)
      /\ \A k \in DOMAIN u : \E i \in DOMAIN partials : u[k] = partials[i]
  BY <1>1, UnexpiredOK
<1>3. q = IF Buffer!HasEntry(u, f.id) THEN u ELSE Append(v, new)
  BY DEF Buffer!Entries, Buffer!WithEntry
<1> HIDE DEF u, q
<1>4. /\ EntriesOK(q) /\ Fresh(q, clock) /\ Buffer!HasEntry(q, f.id)
      /\ \A k \in DOMAIN q : \/ \E i \in DOMAIN partials : q[k] = partials[i]
                             \/ q[k].fragments = {}
  <2>1. CASE Buffer!HasEntry(u, f.id)
    BY <1>2, <1>3, <2>1
  <2>2. CASE ~Buffer!HasEntry(u, f.id)
    <3>1. /\ EntriesOK(v) /\ Len(v) < MaxPartials
          /\ \A k \in DOMAIN v : \E i \in DOMAIN u : v[k] = u[i]
      BY <1>1, <1>2, EvictedOK
    <3> HIDE DEF v
    <3>2. EntryOK(new)
      <4>1. /\ f.size \in Nat /\ f.count \in Nat \ {0} /\ f.id \in Buffer!Ids
            /\ MaxBytes \in Nat
        BY <1>1, FragmentsAre
      <4>2. new \in Buffer!Partial
        BY <1>1, <4>1 DEF Buffer!Partial
      <4>. QED
        BY <4>1, <4>2, NoSizes DEF EntryOK
    <3>3. MaxPartials \in Nat \ {0} /\ Timeout \in Nat /\ clock \in Int
      BY <1>1, FragmentsAre
    <3>4. v \in Seq(Buffer!Partial) /\ new \in Buffer!Partial
      BY <3>1, <3>2 DEF EntriesOK, EntryOK
    <3>5. new.id = f.id /\ new.first = clock /\ new.fragments = {}
      OBVIOUS
    <3> HIDE DEF new
    <3>6. q = Append(v, new)
      BY <1>3, <2>2
    <3>7. /\ q \in Seq(Buffer!Partial) /\ Len(q) = Len(v) + 1 /\ Len(v) \in Nat
          /\ DOMAIN v = 1 .. Len(v) /\ DOMAIN q = 1 .. Len(v) + 1
          /\ q[Len(v) + 1] = new
          /\ \A k \in 1 .. Len(v) : q[k] = v[k]
      <4>1. Len(v) \in Nat /\ DOMAIN v = 1 .. Len(v)
        BY <3>4
      <4>2. q \in Seq(Buffer!Partial) /\ Len(q) = Len(v) + 1
        BY <3>4, <3>6
      <4>3. DOMAIN q = 1 .. Len(v) + 1
        BY <4>2
      <4>4. \A k \in 1 .. Len(v) : q[k] = v[k]
        BY <3>4, <3>6
      <4>5. q[Len(v) + 1] = new
        BY <3>4, <3>6
      <4>. QED
        BY <4>1, <4>2, <4>3, <4>4, <4>5
    <3>8. \A k \in DOMAIN q : \/ k \in DOMAIN v /\ q[k] = v[k]
                              \/ k = Len(v) + 1 /\ q[k] = new
      <4> SUFFICES ASSUME NEW k \in DOMAIN q
                   PROVE  \/ k \in DOMAIN v /\ q[k] = v[k]
                          \/ k = Len(v) + 1 /\ q[k] = new
        OBVIOUS
      <4>1. k \in 1 .. Len(v) \/ k = Len(v) + 1
        BY <3>7
      <4>. QED
        BY <3>7, <4>1
    <3>9. \A k \in DOMAIN v : v[k].id # f.id
      BY <2>2, <3>1 DEF Buffer!HasEntry
    <3>10. \A k \in DOMAIN q : EntryOK(q[k])
      BY <3>1, <3>2, <3>8 DEF EntriesOK
    <3>11. \A j, k \in DOMAIN q : q[j].id = q[k].id => j = k
      BY <3>1, <3>5, <3>8, <3>9 DEF EntriesOK
    <3>12. Len(q) <= MaxPartials
      BY <3>1, <3>3, <3>7
    <3>13. EntriesOK(q)
      BY <3>7, <3>10, <3>11, <3>12 DEF EntriesOK
    <3>14. Fresh(q, clock)
      <4> SUFFICES ASSUME NEW k \in DOMAIN q PROVE clock - q[k].first <= Timeout
        BY DEF Fresh
      <4>1. CASE k \in DOMAIN v /\ q[k] = v[k]
        <5>1. PICK i \in DOMAIN u : v[k] = u[i]
          BY <3>1, <4>1
        <5>. QED
          BY <1>2, <4>1, <5>1 DEF Fresh
      <4>2. CASE q[k] = new
        BY <3>3, <3>5, <4>2
      <4>. QED
        BY <3>8, <4>1, <4>2
    <3>15. Buffer!HasEntry(q, f.id)
      BY <3>5, <3>7 DEF Buffer!HasEntry
    <3>16. ASSUME NEW k \in DOMAIN q, q[k].fragments # {}
           PROVE  \E i \in DOMAIN partials : q[k] = partials[i]
      <4>1. k \in DOMAIN v /\ q[k] = v[k]
        BY <3>5, <3>8, <3>16
      <4>2. PICK j \in DOMAIN u : v[k] = u[j]
        BY <3>1, <4>1
      <4>. QED
        BY <1>2, <4>1, <4>2
    <3>. QED
      BY <3>13, <3>14, <3>15, <3>16
  <2>. QED
    BY <2>1, <2>2
<1>5. \E k \in DOMAIN q : q[k].id = f.id /\ q[k] = Buffer!Entry(f)
  <2>1. Buffer!Entry(f) = q[CHOOSE i \in DOMAIN q : q[i].id = f.id]
    BY DEF Buffer!Entry, Buffer!EntryOf, q
  <2>. QED
    BY <1>4, <2>1 DEF Buffer!HasEntry
<1>. QED
  BY <1>4, <1>5 DEF q

\* The entry with one fragment more.
LEMMA AddedOK ==
  ASSUME Buffer!ReassemblyAssumption, NEW e, EntryOK(e), NEW f \in Fragments, e.id = f.id,
         ~Buffer!Inconsistent(e, f), ~Buffer!Has(e, f), ~Buffer!TooLarge(e, f)
  PROVE  LET x == Buffer!Added(e, f)
         IN  /\ EntryOK(x) /\ x.id = f.id /\ x.count = f.count /\ x.first = e.first
             /\ x.fragments = e.fragments \cup {f}
<1> DEFINE x == Buffer!Added(e, f)
<1>1. e \in Buffer!Partial /\ e.fragments \subseteq Fragments /\ IsFiniteSet(e.fragments)
  <2>1. e \in Buffer!Partial /\ e.fragments \subseteq Fragments
    BY DEF EntryOK, Buffer!Partial
  <2>. QED
    BY <2>1, FragmentsAre, FS_Subset
<1>2. /\ \A g \in Fragments : g.size \in Nat
      /\ MaxBytes \in Nat
  BY FragmentsAre
<1>3. f \notin e.fragments /\ \A g \in e.fragments : g.index # f.index
  BY DEF Buffer!Has
<1>4. /\ Buffer!SumSizes(e.fragments) \in Nat
      /\ Buffer!SumSizes(e.fragments \cup {f}) = Buffer!SumSizes(e.fragments) + f.size
  <2>1. \A g \in e.fragments : g.size \in Nat
    BY <1>1, <1>2
  <2>. QED
    BY <1>1, <1>2, <1>3, <2>1, SizesGrow
<1>5. /\ x \in Buffer!Partial
      /\ x.id = e.id /\ x.count = e.count /\ x.type = e.type /\ x.first = e.first
      /\ x.fragments = e.fragments \cup {f} /\ x.bytes = e.bytes + f.size
  <2>1. f.size \in Nat
    BY <1>2
  <2> DEFINE T == {g.type : g \in Fragments}
  <2>2. e \in [id : Buffer!Ids, count : Nat, type : T, fragments : SUBSET Fragments,
               bytes : Nat, first : 0 .. LastTime]
    BY <1>1 DEF Buffer!Partial
  <2> HIDE DEF T
  <2>3. x = [e EXCEPT !.fragments = e.fragments \cup {f}, !.bytes = e.bytes + f.size]
    BY DEF Buffer!Added
  <2>4. x = [id |-> e.id, count |-> e.count, type |-> e.type,
             fragments |-> e.fragments \cup {f}, bytes |-> e.bytes + f.size,
             first |-> e.first]
    BY <2>2, <2>3
  <2> HIDE DEF x
  <2>5. /\ x.id = e.id /\ x.count = e.count /\ x.type = e.type /\ x.first = e.first
        /\ x.fragments = e.fragments \cup {f} /\ x.bytes = e.bytes + f.size
    BY <2>4
  <2>6. /\ e.id \in Buffer!Ids /\ e.count \in Nat /\ e.type \in T /\ e.first \in 0 .. LastTime
        /\ e.fragments \cup {f} \in SUBSET Fragments /\ e.bytes + f.size \in Nat
    BY <2>1, <2>2
  <2>7. x \in [id : Buffer!Ids, count : Nat, type : T, fragments : SUBSET Fragments,
               bytes : Nat, first : 0 .. LastTime]
    BY <2>4, <2>6
  <2>. QED
    BY <2>5, <2>7 DEF Buffer!Partial, T
<1>6. e.count = f.count /\ e.type = f.type
  BY DEF Buffer!Inconsistent
<1>7. ~(e.bytes + f.size > MaxBytes) /\ e.bytes \in Nat /\ f.size \in Nat
  BY <1>1, <1>2 DEF Buffer!TooLarge, Buffer!Partial
<1> HIDE DEF x
<1>8. EntryOK(x)
  <2>1. \A g \in x.fragments : g.id = x.id /\ g.count = x.count /\ g.type = x.type
    BY <1>5, <1>6 DEF EntryOK
  <2>2. \A g, h \in x.fragments : g.index = h.index => g = h
    BY <1>3, <1>5 DEF EntryOK
  <2>3. x.bytes = Buffer!SumSizes(x.fragments)
    BY <1>4, <1>5 DEF EntryOK
  <2>4. x.bytes <= MaxBytes /\ x.count > 1
    BY <1>2, <1>5, <1>7 DEF EntryOK
  <2>. QED
    BY <1>5, <2>1, <2>2, <2>3, <2>4 DEF EntryOK
<1>. QED
  BY <1>5, <1>6, <1>8 DEF x

LEMMA ReplacedOK ==
  ASSUME NEW q, EntriesOK(q), Fresh(q, clock), NEW x, EntryOK(x),
         NEW k \in DOMAIN q, q[k].id = x.id, q[k].first = x.first
  PROVE  /\ EntriesOK(Buffer!Replaced(q, x)) /\ Fresh(Buffer!Replaced(q, x), clock)
         /\ DOMAIN Buffer!Replaced(q, x) = DOMAIN q
         /\ \A i \in DOMAIN q : Buffer!Replaced(q, x)[i] = x \/ Buffer!Replaced(q, x)[i] = q[i]
<1> DEFINE r == Buffer!Replaced(q, x)
<1>1. DOMAIN q = 1 .. Len(q) /\ Len(q) \in Nat /\ q \in Seq(Buffer!Partial)
  BY DEF EntriesOK
<1>2. r = [i \in 1 .. Len(q) |-> IF q[i].id = x.id THEN x ELSE q[i]]
  BY <1>1 DEF Buffer!Replaced
<1>3. \A i \in DOMAIN q : q[i].id = x.id => i = k
  BY DEF EntriesOK
<1>4. \A i \in 1 .. Len(q) : EntryOK(IF q[i].id = x.id THEN x ELSE q[i])
  BY <1>1 DEF EntriesOK
<1>5. \A i \in 1 .. Len(q) : (IF q[i].id = x.id THEN x ELSE q[i]) \in Buffer!Partial
  BY <1>4 DEF EntryOK
<1>6. r \in Seq(Buffer!Partial) /\ Len(r) = Len(q) /\ DOMAIN r = 1 .. Len(q)
  BY <1>1, <1>2, <1>5
<1>7. \A i \in 1 .. Len(q) : r[i] = IF q[i].id = x.id THEN x ELSE q[i]
  BY <1>2
<1> HIDE DEF r
<1>8. \A i \in DOMAIN r : r[i].id = q[i].id /\ r[i].first = q[i].first
  BY <1>1, <1>3, <1>6, <1>7
<1>9. EntriesOK(r)
  BY <1>1, <1>4, <1>6, <1>7, <1>8 DEF EntriesOK
<1>10. Fresh(r, clock)
  BY <1>1, <1>6, <1>8 DEF Fresh
<1>11. DOMAIN r = DOMAIN q /\ \A i \in DOMAIN q : r[i] = x \/ r[i] = q[i]
  BY <1>1, <1>6, <1>7
<1>. QED
  BY <1>9, <1>10, <1>11 DEF r

\* What waits in q waited in p, if q has no entries of its own.
LEMMA HeldBefore ==
  ASSUME NEW p, NEW q, NEW f,
         \A k \in DOMAIN q : \/ \E i \in DOMAIN p : q[k] = p[i]
                             \/ q[k].fragments = {}
  PROVE  Held(q, f) \in {0, 1} /\ Held(p, f) \in {0, 1} /\ Held(q, f) <= Held(p, f)
<1>1. (\E k \in DOMAIN q : f \in q[k].fragments) => \E i \in DOMAIN p : f \in p[i].fragments
  OBVIOUS
<1>. QED
  BY <1>1 DEF Held

\* What OneMessage says of one message.
Whole(m) ==
  \A f, g \in m :
    /\ f.id = g.id /\ f.count = g.count /\ f.type = g.type
    /\ f.index = g.index => f = g
    /\ Buffer!Cardinality(m) = f.count
    /\ f.count > 1 => Buffer!SumSizes(m) <= MaxBytes

\* The invariant after a call: what the entries are, what was returned, and that
\* nothing waits or came out more often than it arrived.
LEMMA CallKeeps ==
  ASSUME BufferInv, NEW f \in Fragments, Buffer!Call(f),
         EntriesOK(partials'), Fresh(partials', clock),
         \/ UNCHANGED returns /\ \A g \in Fragments \ {f} : Held(partials', g) <= Held(partials, g)
         \/ \E fs \in SUBSET Fragments :
              /\ returns' = After(returns, fs) /\ Whole(fs)
              /\ \A g \in fs : Held(partials', g) = 0 /\ (g # f => Held(partials, g) = 1)
              /\ \A g \in Fragments \ fs : g # f => Held(partials', g) <= Held(partials, g)
              /\ f \in fs
  PROVE  BufferInv'
<1>1. /\ Buffer!ReassemblyAssumption /\ Buffer!TypeOK /\ Buffer!OneMessage
      /\ \A g \in Fragments : Returned(returns, g) + Held(partials, g) <= Len(arrivals[g])
  BY DEF BufferInv
<1>2. IsFiniteSet(Fragments) /\ LastTime \in Nat /\ clock \in 0 .. LastTime
  BY <1>1, FragmentsAre DEF Buffer!TypeOK
<1>3. /\ arrivals \in [Fragments -> Seq(0 .. LastTime)]
      /\ \A m \in DOMAIN returns : m \subseteq Fragments /\ returns[m] \in Nat \ {0}
  BY <1>1 DEF Buffer!TypeOK
<1>4. lastSweep' = clock /\ clock' = clock
  BY DEF Buffer!Call
<1>5. /\ arrivals' \in [Fragments -> Seq(0 .. LastTime)]
      /\ Len(arrivals'[f]) = Len(arrivals[f]) + 1
      /\ \A g \in Fragments : g # f => arrivals'[g] = arrivals[g]
  <2>1. arrivals' = [arrivals EXCEPT ![f] = Append(arrivals[f], clock)]
    BY DEF Buffer!Call
  <2>2. arrivals[f] \in Seq(0 .. LastTime)
    BY <1>3
  <2>3. /\ Append(arrivals[f], clock) \in Seq(0 .. LastTime)
        /\ Len(Append(arrivals[f], clock)) = Len(arrivals[f]) + 1
    BY <1>2, <2>2
  <2>. QED
    BY <1>3, <2>1, <2>3
<1>6. \A g \in Fragments : Len(arrivals[g]) \in Nat
  BY <1>3
<1>7. \A p, g : Held(p, g) \in {0, 1}
  BY DEF Held
<1>8. IsFiniteSet(DOMAIN returns) /\ \A m \in DOMAIN returns : returns[m] \in Nat
  <2>1. DOMAIN returns \subseteq SUBSET Fragments
    BY <1>3
  <2>2. IsFiniteSet(SUBSET Fragments)
    BY <1>2, FS_SUBSET
  <2>. QED
    BY <1>3, <2>1, <2>2, FS_Subset
<1>9. \A g : Returned(returns, g) \in Nat
  BY <1>8, ReturnCounts
<1>10. /\ \A m \in DOMAIN returns' : m \subseteq Fragments /\ returns'[m] \in Nat \ {0}
       /\ \A m \in DOMAIN returns' : Whole(m)
       /\ \A g \in Fragments : Returned(returns', g) + Held(partials', g) <= Len(arrivals'[g])
  <2>0. \A m \in DOMAIN returns : Whole(m)
    BY <1>1 DEF Buffer!OneMessage, Whole
  <2>1. CASE UNCHANGED returns
              /\ \A g \in Fragments \ {f} : Held(partials', g) <= Held(partials, g)
    <3>1. ASSUME NEW g \in Fragments
          PROVE  Returned(returns', g) + Held(partials', g) <= Len(arrivals'[g])
      <4>1. Returned(returns', g) = Returned(returns, g)
        BY <2>1
      <4>2. CASE g = f
        BY <1>1, <1>5, <1>6, <1>7, <1>9, <4>1, <4>2
      <4>3. CASE g # f
        <5>1. Held(partials', g) <= Held(partials, g) /\ arrivals'[g] = arrivals[g]
          BY <1>5, <2>1, <4>3
        <5>2. Held(partials', g) \in Nat /\ Held(partials, g) \in Nat
          BY <1>7
        <5>. QED
          BY <1>1, <1>6, <1>9, <4>1, <5>1, <5>2
      <4>. QED
        BY <4>2, <4>3
    <3>. QED
      BY <1>3, <2>0, <2>1, <3>1
  <2>2. ASSUME NEW fs \in SUBSET Fragments, returns' = After(returns, fs), Whole(fs),
               \A g \in fs : Held(partials', g) = 0 /\ (g # f => Held(partials, g) = 1),
               \A g \in Fragments \ fs : g # f => Held(partials', g) <= Held(partials, g),
               f \in fs
        PROVE  /\ \A m \in DOMAIN returns' : m \subseteq Fragments /\ returns'[m] \in Nat \ {0}
               /\ \A m \in DOMAIN returns' : Whole(m)
               /\ \A g \in Fragments :
                    Returned(returns', g) + Held(partials', g) <= Len(arrivals'[g])
    <3>1. DOMAIN returns' = DOMAIN returns \cup {fs}
      BY <2>2 DEF After
    <3>2. \A m \in DOMAIN returns' :
            returns'[m] = (IF m \in DOMAIN returns THEN returns[m] ELSE 0) + (IF m = fs THEN 1 ELSE 0)
      BY <2>2 DEF After
    <3>3. ASSUME NEW m \in DOMAIN returns'
          PROVE  m \subseteq Fragments /\ returns'[m] \in Nat \ {0} /\ Whole(m)
      <4>1. CASE m \in DOMAIN returns
        BY <1>3, <2>0, <3>2, <4>1
      <4>2. CASE m \notin DOMAIN returns
        BY <2>2, <3>1, <3>2, <4>2
      <4>. QED
        BY <4>1, <4>2
    <3>4. ASSUME NEW g \in Fragments
          PROVE  Returned(returns', g) + Held(partials', g) <= Len(arrivals'[g])
      <4>1. Returned(returns', g) = Returned(returns, g) + (IF g \in fs THEN 1 ELSE 0)
        BY <1>8, <2>2, ReturnCounts
      <4>2. Returned(returns, g) + Held(partials, g) <= Len(arrivals[g])
        BY <1>1
      <4>3. CASE g = f
        BY <1>5, <1>6, <1>7, <1>9, <2>2, <4>1, <4>2, <4>3
      <4>4. CASE g # f /\ g \in fs
        <5>1. Held(partials', g) = 0 /\ Held(partials, g) = 1 /\ arrivals'[g] = arrivals[g]
          BY <1>5, <2>2, <4>4
        <5>. QED
          BY <1>6, <1>9, <4>1, <4>2, <4>4, <5>1
      <4>5. CASE g # f /\ g \notin fs
        <5>1. Held(partials', g) <= Held(partials, g) /\ arrivals'[g] = arrivals[g]
          BY <1>5, <2>2, <4>5
        <5>2. Held(partials', g) \in Nat /\ Held(partials, g) \in Nat
          BY <1>7
        <5>. QED
          BY <1>6, <1>9, <4>1, <4>2, <4>5, <5>1, <5>2
      <4>. QED
        BY <4>3, <4>4, <4>5
    <3>. QED
      BY <3>3, <3>4
  <2>. QED
    BY <2>1, <2>2
<1>11. Buffer!TypeOK'
  <2>1. partials' \in Seq(Buffer!Partial)
    BY DEF EntriesOK
  <2>. QED
    BY <1>2, <1>4, <1>5, <1>10, <2>1 DEF Buffer!TypeOK
<1>12. Buffer!OneMessage'
  BY <1>10 DEF Buffer!OneMessage, Whole
<1>13. Fresh(partials', lastSweep')
  BY <1>4
<1>14. Buffer!ReassemblyAssumption'
  BY <1>1 DEF Buffer!ReassemblyAssumption
<1>. QED
  BY <1>10, <1>11, <1>12, <1>13, <1>14 DEF BufferInv

\* The action's Return is After.
LEMMA ReturnIs ==
  ASSUME NEW fs, Buffer!Return(fs)
  PROVE  returns' = After(returns, fs)
BY DEF Buffer!Return, After

LEMMA WholeKeeps ==
  ASSUME BufferInv, NEW f \in Fragments, Buffer!AddWhole(f)
  PROVE  BufferInv'
<1>1. /\ f.count = 1 /\ Buffer!Call(f) /\ partials' = Buffer!Unexpired(partials)
      /\ returns' = After(returns, {f})
  BY ReturnIs DEF Buffer!AddWhole
<1>2. Buffer!ReassemblyAssumption /\ EntriesOK(partials)
  BY DEF BufferInv
<1>3. /\ EntriesOK(partials') /\ Fresh(partials', clock)
      /\ \A k \in DOMAIN partials' : \E i \in DOMAIN partials : partials'[k] = partials[i]
  BY <1>1, <1>2, UnexpiredOK
<1>4. Held(partials', f) = 0
  <2>1. ASSUME NEW k \in DOMAIN partials' PROVE f \notin partials'[k].fragments
    BY <1>1, <1>3 DEF EntriesOK, EntryOK
  <2>. QED
    BY <2>1 DEF Held
<1>5. \A g : Held(partials', g) <= Held(partials, g)
  BY <1>3, HeldBefore
<1>6. Whole({f})
  <2>1. Buffer!Cardinality({f}) = 1
    BY SameCardinality, FS_Singleton
  <2>. QED
    BY <1>1, <2>1 DEF Whole
<1>. QED
  BY <1>1, <1>3, <1>4, <1>5, <1>6, CallKeeps

LEMMA RaisesKeeps ==
  ASSUME BufferInv, NEW f \in Fragments, Buffer!AddRaises(f)
  PROVE  BufferInv'
<1> DEFINE q == Buffer!Entries(f)
<1>1. /\ f.count > 1 /\ Buffer!Call(f) /\ partials' = Buffer!Without(q, f.id)
      /\ UNCHANGED returns
  BY DEF Buffer!AddRaises
<1>2. Buffer!ReassemblyAssumption
  BY DEF BufferInv
<1>3. /\ EntriesOK(q) /\ Fresh(q, clock)
      /\ \A k \in DOMAIN q : (\E i \in DOMAIN partials : q[k] = partials[i]) \/ q[k].fragments = {}
  BY <1>1, EntriesAre
<1> HIDE DEF q
<1>4. /\ EntriesOK(partials')
      /\ \A k \in DOMAIN partials' : \E i \in DOMAIN q : partials'[k] = q[i]
  BY <1>1, <1>2, <1>3, WithoutOK
<1>5. Fresh(partials', clock)
  BY <1>3, <1>4 DEF Fresh
<1>6. \A k \in DOMAIN partials' : \/ \E i \in DOMAIN partials : partials'[k] = partials[i]
                                  \/ partials'[k].fragments = {}
  BY <1>3, <1>4
<1>7. \A g : Held(partials', g) <= Held(partials, g)
  BY <1>6, HeldBefore
<1>. QED
  BY <1>1, <1>4, <1>5, <1>7, CallKeeps

LEMMA DuplicateKeeps ==
  ASSUME BufferInv, NEW f \in Fragments, Buffer!AddDuplicate(f)
  PROVE  BufferInv'
<1>1. f.count > 1 /\ Buffer!Call(f) /\ partials' = Buffer!Entries(f) /\ UNCHANGED returns
  BY DEF Buffer!AddDuplicate
<1>2. /\ EntriesOK(partials') /\ Fresh(partials', clock)
      /\ \A k \in DOMAIN partials' : \/ \E i \in DOMAIN partials : partials'[k] = partials[i]
                                     \/ partials'[k].fragments = {}
  BY <1>1, EntriesAre
<1>3. \A g : Held(partials', g) <= Held(partials, g)
  BY <1>2, HeldBefore
<1>. QED
  BY <1>1, <1>2, <1>3, CallKeeps

LEMMA PartKeeps ==
  ASSUME BufferInv, NEW f \in Fragments, Buffer!AddPart(f)
  PROVE  BufferInv'
<1> DEFINE q == Buffer!Entries(f)
           e == Buffer!Entry(f)
           x == Buffer!Added(e, f)
<1>1. /\ f.count > 1 /\ Buffer!Call(f)
      /\ ~Buffer!Inconsistent(e, f) /\ ~Buffer!Has(e, f) /\ ~Buffer!TooLarge(e, f)
      /\ IF Buffer!Complete(x)
         THEN partials' = Buffer!Without(q, f.id) /\ Buffer!Return(x.fragments)
         ELSE partials' = Buffer!Replaced(q, x) /\ UNCHANGED returns
  BY DEF Buffer!AddPart
<1>2. Buffer!ReassemblyAssumption
  BY DEF BufferInv
<1>3. /\ EntriesOK(q) /\ Fresh(q, clock) /\ e.id = f.id
      /\ \E k \in DOMAIN q : q[k] = e
      /\ \A k \in DOMAIN q : (\E i \in DOMAIN partials : q[k] = partials[i]) \/ q[k].fragments = {}
  BY <1>1, EntriesAre
<1> HIDE DEF q, e
<1>4. PICK k \in DOMAIN q : q[k] = e
  BY <1>3
<1>5. EntryOK(e)
  BY <1>3, <1>4 DEF EntriesOK
<1>6. /\ EntryOK(x) /\ x.id = f.id /\ x.count = f.count /\ x.first = e.first
      /\ x.fragments = e.fragments \cup {f}
  BY <1>1, <1>2, <1>3, <1>5, AddedOK
<1> HIDE DEF x
<1>7. \A g \in e.fragments : Held(partials, g) = 1
  <2> SUFFICES ASSUME NEW g \in e.fragments PROVE Held(partials, g) = 1
    OBVIOUS
  <2>1. PICK i \in DOMAIN partials : q[k] = partials[i]
    BY <1>3, <1>4
  <2>2. g \in partials[i].fragments
    BY <1>4, <2>1
  <2>. QED
    BY <2>2 DEF Held
<1>8. \A g : Held(q, g) <= Held(partials, g) /\ Held(q, g) \in {0, 1} /\ Held(partials, g) \in {0, 1}
  BY <1>3, HeldBefore
<1>9. CASE Buffer!Complete(x)
  <2>1. partials' = Buffer!Without(q, f.id) /\ returns' = After(returns, x.fragments)
    BY <1>1, <1>9, ReturnIs
  <2>2. /\ EntriesOK(partials')
        /\ \A j \in DOMAIN partials' :
             partials'[j].id # f.id /\ \E i \in DOMAIN q : partials'[j] = q[i]
    BY <1>2, <1>3, <2>1, WithoutOK
  <2>3. Fresh(partials', clock)
    BY <1>3, <2>2 DEF Fresh
  <2>4. \A j \in DOMAIN partials' : \/ \E i \in DOMAIN partials : partials'[j] = partials[i]
                                    \/ partials'[j].fragments = {}
    BY <1>3, <2>2
  <2>5. \A g : Held(partials', g) <= Held(partials, g)
    BY <2>4, HeldBefore
  <2>6. \A g \in x.fragments : g.id = f.id
    BY <1>6 DEF EntryOK
  <2>7. \A g \in x.fragments : Held(partials', g) = 0
    <3> SUFFICES ASSUME NEW g \in x.fragments PROVE Held(partials', g) = 0
      OBVIOUS
    <3>1. ASSUME NEW j \in DOMAIN partials' PROVE g \notin partials'[j].fragments
      BY <2>2, <2>6 DEF EntriesOK, EntryOK
    <3>. QED
      BY <3>1 DEF Held
  <2>8. Whole(x.fragments)
    <3>1. Buffer!Cardinality(x.fragments) = x.count
      BY <1>9 DEF Buffer!Complete
    <3>. QED
      BY <1>6, <3>1 DEF EntryOK, Whole
  <2>9. x.fragments \in SUBSET Fragments /\ f \in x.fragments
    BY <1>6 DEF EntryOK, Buffer!Partial
  <2>10. \A g \in x.fragments : g # f => Held(partials, g) = 1
    BY <1>6, <1>7
  <2>11. \E fs \in SUBSET Fragments :
              /\ returns' = After(returns, fs) /\ Whole(fs)
              /\ \A g \in fs : Held(partials', g) = 0 /\ (g # f => Held(partials, g) = 1)
              /\ \A g \in Fragments \ fs : g # f => Held(partials', g) <= Held(partials, g)
              /\ f \in fs
    BY <2>1, <2>5, <2>7, <2>8, <2>9, <2>10
  <2>. QED
    BY <1>1, <2>2, <2>3, <2>11, CallKeeps
<1>10. CASE ~Buffer!Complete(x)
  <2>1. partials' = Buffer!Replaced(q, x) /\ UNCHANGED returns
    BY <1>1, <1>10
  <2>2. q[k].id = x.id /\ q[k].first = x.first
    BY <1>3, <1>4, <1>6
  <2>3. /\ EntriesOK(partials') /\ Fresh(partials', clock)
        /\ DOMAIN partials' = DOMAIN q
        /\ \A i \in DOMAIN q : partials'[i] = x \/ partials'[i] = q[i]
    BY <1>3, <1>6, <2>1, <2>2, ReplacedOK
  <2>4. ASSUME NEW g \in Fragments \ {f} PROVE Held(partials', g) <= Held(partials, g)
    <3>1. CASE Held(partials, g) = 1
      BY <3>1 DEF Held
    <3>2. CASE Held(partials, g) = 0
      <4>1. Held(q, g) = 0
        BY <1>8, <3>2
      <4>2. \A i \in DOMAIN q : g \notin q[i].fragments
        BY <4>1 DEF Held
      <4>3. g \notin x.fragments
        BY <1>6, <1>7, <3>2
      <4>4. \A i \in DOMAIN partials' : g \notin partials'[i].fragments
        BY <2>3, <4>2, <4>3
      <4>5. Held(partials', g) = 0
        BY <4>4 DEF Held
      <4>. QED
        BY <3>2, <4>5
    <3>. QED
      BY <1>8, <3>1, <3>2
  <2>. QED
    BY <1>1, <2>1, <2>3, <2>4, CallKeeps
<1>. QED
  BY <1>9, <1>10

LEMMA BufferInvInit ==
  ASSUME Buffer!ReassemblyAssumption, Buffer!Init
  PROVE  BufferInv
<1>1. /\ partials = << >> /\ clock = 0 /\ lastSweep = 0 /\ returns = << >>
      /\ arrivals = [f \in Fragments |-> << >>]
  BY DEF Buffer!Init
<1>2. LastTime \in Nat /\ MaxPartials \in Nat \ {0}
  BY FragmentsAre
<1>3. partials \in Seq(Buffer!Partial) /\ Len(partials) = 0 /\ DOMAIN partials = {}
  BY <1>1
<1>4. DOMAIN returns = {}
  BY <1>1
<1>5. arrivals \in [Fragments -> Seq(0 .. LastTime)] /\ \A f \in Fragments : Len(arrivals[f]) = 0
  BY <1>1
<1>6. Buffer!TypeOK
  BY <1>1, <1>2, <1>3, <1>4, <1>5 DEF Buffer!TypeOK
<1>7. EntriesOK(partials) /\ Fresh(partials, lastSweep)
  BY <1>2, <1>3 DEF EntriesOK, Fresh
<1>8. Buffer!OneMessage
  BY <1>4 DEF Buffer!OneMessage
<1>9. \A f \in Fragments : Returned(returns, f) + Held(partials, f) <= Len(arrivals[f])
  <2> SUFFICES ASSUME NEW f \in Fragments
               PROVE  Returned(returns, f) + Held(partials, f) <= Len(arrivals[f])
    OBVIOUS
  <2>1. Held(partials, f) = 0
    BY <1>3 DEF Held
  <2>2. {x \in DOMAIN returns : f \in x} = {}
    BY <1>4
  <2>3. \A w : Units(w, {}) = {}
    BY DEF Units
  <2>4. Returned(returns, f) = 0
    BY <2>2, <2>3, FS_EmptySet DEF Returned
  <2>. QED
    BY <1>5, <2>1, <2>4
<1>. QED
  BY <1>6, <1>7, <1>8, <1>9 DEF BufferInv

LEMMA BufferInvStep ==
  ASSUME BufferInv, [Buffer!Next]_Buffer!vars
  PROVE  BufferInv'
<1>1. ASSUME NEW f \in Fragments, Buffer!AddWhole(f) PROVE BufferInv'
  BY <1>1, WholeKeeps
<1>2. ASSUME NEW f \in Fragments, Buffer!AddRaises(f) PROVE BufferInv'
  BY <1>2, RaisesKeeps
<1>3. ASSUME NEW f \in Fragments, Buffer!AddDuplicate(f) PROVE BufferInv'
  BY <1>3, DuplicateKeeps
<1>4. ASSUME NEW f \in Fragments, Buffer!AddPart(f) PROVE BufferInv'
  BY <1>4, PartKeeps
<1>5. CASE Buffer!Tick
  <2>1. /\ clock' = clock + 1 /\ clock < LastTime
        /\ UNCHANGED <<partials, lastSweep, arrivals, returns>>
    BY <1>5 DEF Buffer!Tick
  <2>2. LastTime \in Nat /\ clock \in 0 .. LastTime
    BY FragmentsAre DEF BufferInv, Buffer!TypeOK
  <2>3. Buffer!TypeOK'
    BY <2>1, <2>2 DEF BufferInv, Buffer!TypeOK
  <2>4. Buffer!OneMessage' /\ Buffer!ReassemblyAssumption'
    BY <2>1 DEF BufferInv, Buffer!OneMessage, Buffer!ReassemblyAssumption
  <2>. QED
    BY <2>1, <2>3, <2>4 DEF BufferInv
<1>6. CASE UNCHANGED Buffer!vars
  <2>1. UNCHANGED <<partials, clock, lastSweep, arrivals, returns>>
    BY <1>6 DEF Buffer!vars
  <2>2. Buffer!TypeOK' /\ Buffer!OneMessage' /\ Buffer!ReassemblyAssumption'
    BY <2>1 DEF BufferInv, Buffer!TypeOK, Buffer!OneMessage, Buffer!ReassemblyAssumption
  <2>. QED
    BY <2>1, <2>2 DEF BufferInv
<1>. QED
  BY <1>1, <1>2, <1>3, <1>4, <1>5, <1>6 DEF Buffer!Next

LEMMA BufferInvariant == Buffer!ReassemblyAssumption /\ Buffer!Spec => []BufferInv
<1>1. Buffer!ReassemblyAssumption /\ Buffer!Init => BufferInv
  BY BufferInvInit
<1>2. BufferInv /\ [Buffer!Next]_Buffer!vars => BufferInv'
  BY BufferInvStep
<1>. QED
  BY <1>1, <1>2, PTL DEF Buffer!Spec

\* Whatever fragments come, in whatever order and as often as they like, the
\* Reassembler holds no more partial messages, bytes or old entries than its three
\* limits say (Reassembler.add, _expire).
THEOREM BufferStaysBounded ==
  Buffer!ReassemblyAssumption /\ Buffer!Spec => [](Buffer!TypeOK /\ Buffer!Bounded)
<1>1. BufferInv => Buffer!TypeOK /\ Buffer!Bounded
  <2> SUFFICES ASSUME BufferInv PROVE Buffer!Bounded
    BY DEF BufferInv
  <2>1. EntriesOK(partials) /\ Fresh(partials, lastSweep)
    BY DEF BufferInv
  <2>. QED
    BY <2>1 DEF EntriesOK, EntryOK, Fresh, Buffer!Bounded
<1>. QED
  BY <1>1, BufferInvariant, PTL

\* What add returns is the fragments of one message, each index once, and within
\* the limit on its bytes, whatever else came in between (Reassembler.add).
THEOREM WhatComesOutIsOneMessage ==
  Buffer!ReassemblyAssumption /\ Buffer!Spec => []Buffer!OneMessage
<1>1. BufferInv => Buffer!OneMessage
  BY DEF BufferInv
<1>. QED
  BY <1>1, BufferInvariant, PTL

\* A message is returned no more often than each of its fragments arrived: a late
\* copy brings no message out again (Reassembler.add).
THEOREM NoReturnWithoutArrival ==
  Buffer!ReassemblyAssumption /\ Buffer!Spec => []Buffer!NoEcho
<1>1. BufferInv => Buffer!NoEcho
  <2> SUFFICES ASSUME BufferInv, NEW f \in Fragments
               PROVE  Buffer!MapThenSumSet(LAMBDA m : returns[m], {m \in DOMAIN returns : f \in m})
                        <= Len(arrivals[f])
    BY DEF Buffer!NoEcho
  <2> DEFINE D == {m \in DOMAIN returns : f \in m}
  <2>1. IsFiniteSet(DOMAIN returns) /\ \A m \in DOMAIN returns : returns[m] \in Nat
    <3>1. \A m \in DOMAIN returns : m \subseteq Fragments /\ returns[m] \in Nat
      BY DEF BufferInv, Buffer!TypeOK
    <3>2. IsFiniteSet(SUBSET Fragments)
      BY FragmentsAre, FS_SUBSET DEF BufferInv
    <3>. QED
      BY <3>1, <3>2, FS_Subset
  <2>2. IsFiniteSet(D) /\ \A m \in D : returns[m] \in Nat
    BY <2>1, FS_Subset
  <2>3. Buffer!MapThenSumSet(LAMBDA m : returns[m], D)
          = Cardinality(Units([m \in D |-> returns[m]], D))
    BY <2>2, ReturnsCount
  <2>4. Returned(returns, f) \in Nat
    BY <2>1, ReturnCounts
  <2>5. Buffer!MapThenSumSet(LAMBDA m : returns[m], D) = Returned(returns, f)
    BY <2>3 DEF Returned
  <2>6. Held(partials, f) \in {0, 1} /\ Len(arrivals[f]) \in Nat
    BY DEF Held, BufferInv, Buffer!TypeOK
  <2>7. Returned(returns, f) + Held(partials, f) <= Len(arrivals[f])
    BY DEF BufferInv
  <2>. QED
    BY <2>4, <2>5, <2>6, <2>7
<1>. QED
  BY <1>1, BufferInvariant, PTL

-----------------------------------------------------------------------------
(* The store of a router, whose purge chooses as the Reassembler does.     *)
(* Neither the order nor the capacity is inductive by itself: a replay     *)
(* will put back what it kept, so the invariant says where each replay     *)
(* stands in the list it walks, that what it kept is older than what       *)
(* comes, and that it kept no more than it passed.                         *)

\* A list of stored frames, in the order in which they were stored.
Dated(l, time, known) ==
  /\ l \in Seq(Backlog!Entry)
  /\ \A j, k \in DOMAIN l : j <= k => l[j].at <= l[k].at
  /\ \A j \in DOMAIN l : l[j].at <= time /\ l[j].frame \in known

\* Where a replay stands that walks the list l from a position on, with what it
\* kept of the entries before.
Walk(l, from, keep, time, known) ==
  /\ from \in Nat \ {0} /\ from - 1 <= Len(l)
  /\ Dated(keep, time, known) /\ Len(keep) <= from - 1
  /\ \A j \in DOMAIN keep : \A k \in DOMAIN l : from <= k => keep[j].at <= l[k].at

\* The entry on the radio: behind what was kept, and not behind what comes.
Sending(l, me, time, known) ==
  /\ Walk(l, me.next - 1, me.keep, time, known)
  /\ me.next - 1 <= Len(l)
  /\ me.sending \in Backlog!Entry /\ me.sending.frame \in known /\ me.sending.at <= time
  /\ \A j \in DOMAIN me.keep : me.keep[j].at <= me.sending.at
  /\ \A k \in DOMAIN l : me.next <= k => me.sending.at <= l[k].at

ListsInv ==
  /\ \A i \in 1 .. made : Dated(lists[i], hour, stored) /\ Len(lists[i]) <= StoreCapacity
  /\ \A r \in Backlog!Active :
       replaying[r].list <= made /\ Sending(lists[replaying[r].list], replaying[r], hour, stored)

\* While nothing interferes: the frames of a list are different ones, and of those
\* before a position each was kept, was sent or is too old, and of those from there
\* on none was sent.
Apart(l) == \A j, k \in DOMAIN l : l[j].frame = l[k].frame => j = k

Walked(l, from, keep, gone, old) ==
  /\ \A i \in DOMAIN l : i < from => l[i].frame \in Backlog!FramesOf(keep) \cup gone \cup old
  /\ \A j \in DOMAIN keep : \E i \in DOMAIN l : i < from /\ l[i].frame = keep[j].frame
  /\ Apart(keep)
  /\ \A j \in DOMAIN keep : keep[j].frame \notin gone
  /\ \A i \in DOMAIN l : from <= i => l[i].frame \notin gone

FramesInv ==
  /\ Apart(lists[made])
  /\ stored \subseteq Backlog!FramesOf(lists[made]) \cup replayed \cup evicted \cup outdated
  /\ Backlog!Active = {} => Backlog!FramesOf(lists[made]) \cap replayed = {}
  /\ \A r, s \in Backlog!Active : r = s
  /\ \A r \in Backlog!Active :
       /\ replaying[r].list = made
       /\ replaying[r].sending = lists[made][replaying[r].next - 1]
       /\ Walked(lists[made], replaying[r].next - 1, replaying[r].keep, replayed, outdated)

StoreInv ==
  /\ Backlog!RelayStoreAssumption /\ Backlog!IdleAssumption /\ Backlog!TypeOK
  /\ ListsInv
  /\ ~interfered => FramesInv

\* A replay goes to its end, or up to the next frame that is not too old.
ToTheEnd(r, l, from, keep) ==
  /\ made < MaxLists /\ made' = made + 1
  /\ lists' = [lists EXCEPT ![made + 1] = keep]
  /\ replaying' = [replaying EXCEPT ![r] = NoReplay]
  /\ outdated' = outdated \cup {lists[l][i].frame : i \in from .. Len(lists[l])}

UpTo(r, l, from, keep, t, next) ==
  /\ made' = made /\ lists' = lists
  /\ replaying' = [replaying EXCEPT ![r] =
       [list |-> l, next |-> next + 1, sending |-> lists[l][next], keep |-> keep, now |-> t]]
  /\ outdated' = outdated \cup {lists[l][i].frame : i \in from .. next - 1}

LEMMA ProceedIs ==
  ASSUME NEW r, NEW l, NEW from \in Nat, NEW keep, NEW t, lists[l] \in Seq(Backlog!Entry),
         Backlog!Proceed(r, l, from, keep, t)
  PROVE  \/ ToTheEnd(r, l, from, keep)
         \/ \E next \in from .. Len(lists[l]) : UpTo(r, l, from, keep, t, next)
<1> DEFINE p == lists[l]
           todo == Backlog!ToSend(l, from, t)
           next == CHOOSE i \in todo : \A j \in todo : i <= j
           end == IF todo = {} THEN Len(p) + 1 ELSE next
<1>1. /\ outdated' = outdated \cup {p[i].frame : i \in from .. end - 1}
      /\ IF todo = {}
         THEN /\ Backlog!Rebind(keep)
              /\ replaying' = [replaying EXCEPT ![r] = NoReplay]
         ELSE /\ replaying' = [replaying EXCEPT ![r] =
                   [list |-> l, next |-> next + 1,
                    sending |-> p[next], keep |-> keep, now |-> t]]
              /\ UNCHANGED <<made, lists>>
  BY DEF Backlog!Proceed
<1>2. Len(p) \in Nat /\ todo \subseteq from .. Len(p)
  BY DEF Backlog!ToSend
<1> HIDE DEF todo
<1>3. CASE todo = {}
  <2>1. end - 1 = Len(p)
    BY <1>2, <1>3
  <2> HIDE DEF end
  <2>. QED
    BY <1>1, <1>3, <2>1 DEF Backlog!Rebind, ToTheEnd
<1>4. CASE todo # {}
  <2>1. todo \subseteq Nat
    BY <1>2
  <2>2. \E i \in todo : \A j \in todo : i <= j
    BY <1>4, <2>1, SmallestNumber
  <2>3. next \in from .. Len(p)
    BY <1>2, <2>2
  <2>4. end = next
    BY <1>4
  <2> HIDE DEF next, end
  <2>. QED
    BY <1>1, <1>4, <2>3, <2>4 DEF UpTo
<1>. QED
  BY <1>3, <1>4

\* Going on keeps the lists in their order and within the capacity.
LEMMA ProceedKeeps ==
  ASSUME StoreInv, NEW r \in Replays, NEW l \in 1 .. made, NEW from, NEW keep,
         NEW t \in 0 .. LastHour, Walk(lists[l], from, keep, hour, stored),
         Backlog!Proceed(r, l, from, keep, t), UNCHANGED <<hour, stored>>
  PROVE  /\ made' \in 1 .. MaxLists /\ lists' \in [1 .. MaxLists -> Seq(Backlog!Entry)]
         /\ replaying' \in [Replays -> Backlog!Replay \cup {NoReplay}]
         /\ outdated' \subseteq stored /\ ListsInv'
<1>1. /\ Backlog!TypeOK /\ ListsInv /\ NoReplay \notin Backlog!Replay
      /\ MaxLists \in Nat \ {0} /\ StoreCapacity \in Nat \ {0}
  BY DEF StoreInv, Backlog!RelayStoreAssumption, Backlog!IdleAssumption
<1>2. /\ made \in 1 .. MaxLists /\ lists \in [1 .. MaxLists -> Seq(Backlog!Entry)]
      /\ replaying \in [Replays -> Backlog!Replay \cup {NoReplay}]
      /\ outdated \subseteq stored
  BY <1>1 DEF Backlog!TypeOK
<1> DEFINE p == lists[l]
<1>3. /\ l \in 1 .. MaxLists /\ p \in Seq(Backlog!Entry) /\ Len(p) \in Nat
      /\ DOMAIN p = 1 .. Len(p) /\ Len(p) <= StoreCapacity /\ Dated(p, hour, stored)
  BY <1>1, <1>2 DEF ListsInv
<1>4. /\ from \in Nat \ {0} /\ from - 1 <= Len(p)
      /\ Dated(keep, hour, stored) /\ Len(keep) <= from - 1
      /\ \A j \in DOMAIN keep : \A k \in DOMAIN p : from <= k => keep[j].at <= p[k].at
  BY DEF Walk
<1>5. keep \in Seq(Backlog!Entry) /\ Len(keep) \in Nat
  BY <1>4 DEF Dated
<1>6. \A i \in DOMAIN p : p[i] \in Backlog!Entry /\ p[i].frame \in stored
  BY <1>3 DEF Dated
<1>7. CASE ToTheEnd(r, l, from, keep)
  <2>0. /\ made < MaxLists /\ made' = made + 1
        /\ lists' = [lists EXCEPT ![made + 1] = keep]
        /\ replaying' = [replaying EXCEPT ![r] = NoReplay]
        /\ outdated' = outdated \cup {p[i].frame : i \in from .. Len(p)}
    BY <1>7 DEF ToTheEnd
  <2>1. /\ made' \in 1 .. MaxLists /\ lists' \in [1 .. MaxLists -> Seq(Backlog!Entry)]
        /\ replaying' \in [Replays -> Backlog!Replay \cup {NoReplay}]
    BY <1>1, <1>2, <1>5, <2>0
  <2>2. outdated' \subseteq stored
    BY <1>2, <1>3, <1>4, <1>6, <2>0
  <2>3. lists'[made + 1] = keep /\ \A i \in 1 .. made : lists'[i] = lists[i]
    BY <1>1, <1>2, <2>0
  <2>4. ASSUME NEW i \in 1 .. made'
        PROVE  Dated(lists'[i], hour, stored) /\ Len(lists'[i]) <= StoreCapacity
    <3>1. CASE i = made + 1
      <4>1. Len(keep) <= StoreCapacity
        BY <1>1, <1>3, <1>4, <1>5
      <4>. QED
        BY <1>4, <2>3, <3>1, <4>1
    <3>2. CASE i # made + 1
      <4>1. i \in 1 .. made
        BY <1>2, <2>0, <3>2
      <4>. QED
        BY <1>1, <2>3, <4>1 DEF ListsInv
    <3>. QED
      BY <3>1, <3>2
  <2>5. ASSUME NEW s \in Backlog!Active'
        PROVE  /\ replaying'[s].list <= made'
               /\ Sending(lists'[replaying'[s].list], replaying'[s], hour, stored)
    <3>1. s \in Replays /\ replaying'[s] # NoReplay
      BY DEF Backlog!Active
    <3>2. s # r /\ replaying'[s] = replaying[s] /\ s \in Backlog!Active
      BY <1>2, <2>0, <3>1 DEF Backlog!Active
    <3>3. replaying[s] \in Backlog!Replay
      BY <1>2, <3>2 DEF Backlog!Active
    <3>4. replaying[s].list \in 1 .. made
      BY <1>1, <1>2, <3>2, <3>3 DEF ListsInv, Backlog!Replay
    <3>5. replaying[s].list <= made + 1
      BY <1>2, <3>4
    <3>. QED
      BY <1>1, <2>0, <2>3, <3>2, <3>4, <3>5 DEF ListsInv
  <2>6. ListsInv'
    BY <2>4, <2>5 DEF ListsInv
  <2>. QED
    BY <2>1, <2>2, <2>6
<1>8. ASSUME NEW next \in from .. Len(p), UpTo(r, l, from, keep, t, next)
      PROVE  /\ made' \in 1 .. MaxLists /\ lists' \in [1 .. MaxLists -> Seq(Backlog!Entry)]
             /\ replaying' \in [Replays -> Backlog!Replay \cup {NoReplay}]
             /\ outdated' \subseteq stored /\ ListsInv'
  <2> DEFINE me == [list |-> l, next |-> next + 1, sending |-> p[next],
                    keep |-> keep, now |-> t]
  <2>0. /\ made' = made /\ lists' = lists /\ replaying' = [replaying EXCEPT ![r] = me]
        /\ outdated' = outdated \cup {p[i].frame : i \in from .. next - 1}
    BY <1>8 DEF UpTo
  <2>1. next \in Nat \ {0} /\ next \in DOMAIN p /\ from <= next /\ next <= Len(p)
    BY <1>3, <1>4, <1>8
  <2>2. p[next] \in Backlog!Entry /\ p[next].frame \in stored /\ p[next].at <= hour
    BY <1>3, <2>1 DEF Dated
  <2>3. me \in Backlog!Replay
    BY <1>3, <1>5, <2>1, <2>2 DEF Backlog!Replay
  <2>4. me.list = l /\ me.next = next + 1 /\ me.sending = p[next] /\ me.keep = keep
    OBVIOUS
  <2> HIDE DEF me
  <2>6. replaying' \in [Replays -> Backlog!Replay \cup {NoReplay}]
    BY <1>2, <2>0, <2>3
  <2>7. outdated' \subseteq stored
    BY <1>2, <1>3, <1>4, <1>6, <2>0, <2>1
  <2>8. Sending(p, me, hour, stored)
    <3>1. me.next - 1 = next
      BY <2>1, <2>4
    <3>2. Walk(p, next, keep, hour, stored)
      <4>1. next - 1 <= Len(p) /\ Len(keep) <= next - 1
        BY <1>3, <1>4, <1>5, <2>1
      <4>2. \A j \in DOMAIN keep : \A k \in DOMAIN p : next <= k => keep[j].at <= p[k].at
        BY <1>3, <1>4, <2>1
      <4>. QED
        BY <1>4, <2>1, <4>1, <4>2 DEF Walk
    <3>3. \A j \in DOMAIN keep : keep[j].at <= p[next].at
      BY <1>4, <2>1
    <3>4. \A k \in DOMAIN p : next + 1 <= k => p[next].at <= p[k].at
      BY <1>3, <2>1 DEF Dated
    <3>. QED
      BY <2>1, <2>2, <2>4, <3>1, <3>2, <3>3, <3>4 DEF Sending
  <2>9. ASSUME NEW s \in Backlog!Active'
        PROVE  /\ replaying'[s].list <= made'
               /\ Sending(lists'[replaying'[s].list], replaying'[s], hour, stored)
    <3>1. s \in Replays /\ replaying'[s] # NoReplay
      BY DEF Backlog!Active
    <3>2. CASE s = r
      BY <1>2, <2>0, <2>4, <2>8, <3>2
    <3>3. CASE s # r
      <4>1. replaying'[s] = replaying[s] /\ s \in Backlog!Active
        BY <1>2, <2>0, <3>1, <3>3 DEF Backlog!Active
      <4>. QED
        BY <1>1, <2>0, <4>1 DEF ListsInv
    <3>. QED
      BY <3>2, <3>3
  <2>10. ListsInv'
    BY <1>1, <2>0, <2>9 DEF ListsInv
  <2>. QED
    BY <1>2, <2>0, <2>6, <2>7, <2>10
<1>9. \/ ToTheEnd(r, l, from, keep)
      \/ \E next \in from .. Len(p) : UpTo(r, l, from, keep, t, next)
  BY <1>3, <1>4, ProceedIs
<1>. QED
  BY <1>7, <1>8, <1>9

\* Going on keeps account of the frames, as long as nobody else is under way.
LEMMA ProceedAccounts ==
  ASSUME StoreInv, NEW r \in Replays, NEW from, NEW keep, NEW t \in 0 .. LastHour,
         Walk(lists[made], from, keep, hour, stored),
         Backlog!Proceed(r, made, from, keep, t), UNCHANGED <<stored, evicted>>,
         Backlog!Active \subseteq {r}, Apart(lists[made]),
         stored \subseteq Backlog!FramesOf(lists[made]) \cup replayed' \cup evicted \cup outdated,
         Walked(lists[made], from, keep, replayed', outdated)
  PROVE  FramesInv'
<1> DEFINE p == lists[made]
<1>1. /\ made \in 1 .. MaxLists /\ lists \in [1 .. MaxLists -> Seq(Backlog!Entry)]
      /\ replaying \in [Replays -> Backlog!Replay \cup {NoReplay}]
      /\ MaxLists \in Nat \ {0}
  BY DEF StoreInv, Backlog!TypeOK, Backlog!RelayStoreAssumption
<1>2. p \in Seq(Backlog!Entry) /\ Len(p) \in Nat /\ DOMAIN p = 1 .. Len(p)
  BY <1>1
<1>3. from \in Nat \ {0} /\ keep \in Seq(Backlog!Entry)
  BY DEF Walk, Dated
<1>4. /\ \A i \in DOMAIN p : i < from =>
           p[i].frame \in Backlog!FramesOf(keep) \cup replayed' \cup outdated
      /\ \A j \in DOMAIN keep : \E i \in DOMAIN p : i < from /\ p[i].frame = keep[j].frame
      /\ Apart(keep)
      /\ \A j \in DOMAIN keep : keep[j].frame \notin replayed'
      /\ \A i \in DOMAIN p : from <= i => p[i].frame \notin replayed'
  BY DEF Walked
<1>5. CASE ToTheEnd(r, made, from, keep)
  <2>1. /\ made' = made + 1 /\ lists' = [lists EXCEPT ![made + 1] = keep] /\ made < MaxLists
        /\ replaying' = [replaying EXCEPT ![r] = NoReplay]
        /\ outdated' = outdated \cup {p[i].frame : i \in from .. Len(p)}
    BY <1>5 DEF ToTheEnd
  <2>2. lists'[made'] = keep
    BY <1>1, <2>1
  <2>3. Backlog!Active' = {}
    BY <1>1, <2>1 DEF Backlog!Active
  <2>4. ASSUME NEW i \in DOMAIN p
        PROVE  p[i].frame \in Backlog!FramesOf(keep) \cup replayed' \cup outdated'
    <3>1. CASE i < from
      BY <1>4, <2>1, <3>1
    <3>2. CASE ~(i < from)
      BY <1>2, <1>3, <2>1, <3>2
    <3>. QED
      BY <3>1, <3>2
  <2>5. stored \subseteq Backlog!FramesOf(keep) \cup replayed' \cup evicted \cup outdated'
    <3>1. Backlog!FramesOf(p) \subseteq Backlog!FramesOf(keep) \cup replayed' \cup outdated'
      BY <2>4 DEF Backlog!FramesOf
    <3>2. outdated \subseteq outdated'
      BY <2>1
    <3> HIDE DEF p
    <3>. QED
      BY <3>1, <3>2 DEF p
  <2>6. Backlog!FramesOf(keep) \cap replayed' = {}
    BY <1>4 DEF Backlog!FramesOf
  <2>. QED
    BY <1>4, <2>2, <2>3, <2>5, <2>6 DEF FramesInv, Backlog!FramesOf
<1>6. ASSUME NEW next \in from .. Len(p), UpTo(r, made, from, keep, t, next)
      PROVE  FramesInv'
  <2> DEFINE me == [list |-> made, next |-> next + 1, sending |-> p[next],
                    keep |-> keep, now |-> t]
  <2>1. /\ made' = made /\ lists' = lists /\ replaying' = [replaying EXCEPT ![r] = me]
        /\ outdated' = outdated \cup {p[i].frame : i \in from .. next - 1}
    BY <1>6 DEF UpTo
  <2>2. me.list = made /\ me.next = next + 1 /\ me.sending = p[next] /\ me.keep = keep
    OBVIOUS
  <2> HIDE DEF me
  <2>3. next \in Nat /\ from <= next /\ next <= Len(p) /\ me.next - 1 = next
    BY <1>2, <1>3, <1>6, <2>2
  <2>4. replaying'[r] = me /\ \A s \in Backlog!Active' : s = r
    <3>1. replaying'[r] = me /\ \A s \in Replays : s # r => replaying'[s] = replaying[s]
      BY <1>1, <2>1
    <3>2. ASSUME NEW s \in Backlog!Active', s # r PROVE FALSE
      <4>1. s \in Replays /\ replaying'[s] # NoReplay
        BY DEF Backlog!Active
      <4>2. s \in Backlog!Active
        BY <3>1, <3>2, <4>1 DEF Backlog!Active
      <4>. QED
        BY <3>2, <4>2
    <3>. QED
      BY <3>1, <3>2
  <2>5. Walked(p, next, keep, replayed', outdated')
    <3>1. ASSUME NEW i \in DOMAIN p, i < next
          PROVE  p[i].frame \in Backlog!FramesOf(keep) \cup replayed' \cup outdated'
      <4>1. CASE i < from
        BY <1>4, <2>1, <4>1
      <4>2. CASE ~(i < from)
        <5>1. i \in from .. next - 1
          BY <1>2, <1>3, <2>3, <3>1, <4>2
        <5>. QED
          BY <2>1, <5>1
      <4>. QED
        BY <4>1, <4>2
    <3>2. ASSUME NEW j \in DOMAIN keep
          PROVE  \E i \in DOMAIN p : i < next /\ p[i].frame = keep[j].frame
      <4>1. PICK i \in DOMAIN p : i < from /\ p[i].frame = keep[j].frame
        BY <1>4
      <4>2. i < next
        BY <1>2, <1>3, <2>3, <4>1
      <4>. QED
        BY <4>1, <4>2
    <3>3. \A i \in DOMAIN p : next <= i => p[i].frame \notin replayed'
      BY <1>2, <1>3, <1>4, <2>3
    <3> HIDE DEF p
    <3>. QED
      BY <1>4, <3>1, <3>2, <3>3 DEF Walked
  <2>6. stored' \subseteq Backlog!FramesOf(p) \cup replayed' \cup evicted' \cup outdated'
    BY <2>1
  <2>7. r \in Backlog!Active'
    <3>1. me # NoReplay
      <4>1. p[next] \in Backlog!Entry
        BY <1>2, <1>3, <2>3
      <4>2. me \in Backlog!Replay
        BY <1>1, <1>3, <2>3, <4>1 DEF Backlog!Replay, me
      <4>. QED
        BY <4>2 DEF StoreInv, Backlog!IdleAssumption
    <3>. QED
      BY <2>4, <3>1 DEF Backlog!Active
  <2>8. \A s \in Backlog!Active' :
       /\ replaying'[s].list = made'
       /\ replaying'[s].sending = lists'[made'][replaying'[s].next - 1]
       /\ Walked(lists'[made'], replaying'[s].next - 1, replaying'[s].keep, replayed', outdated')
    <3> SUFFICES ASSUME NEW s \in Backlog!Active'
                 PROVE  /\ replaying'[s].list = made'
                        /\ replaying'[s].sending = lists'[made'][replaying'[s].next - 1]
                        /\ Walked(lists'[made'], replaying'[s].next - 1, replaying'[s].keep,
                                  replayed', outdated')
      OBVIOUS
    <3>1. replaying'[s] = me /\ lists'[made'] = p /\ made' = made
      BY <2>1, <2>4
    <3> HIDE DEF p
    <3>. QED
      BY <2>2, <2>3, <2>5, <3>1
  <2>9. /\ Apart(lists'[made'])
        /\ stored' \subseteq Backlog!FramesOf(lists'[made']) \cup replayed' \cup evicted' \cup outdated'
    BY <2>1, <2>6
  <2>10. (\A s, u \in Backlog!Active' : s = u) /\ Backlog!Active' # {}
    BY <2>4, <2>7
  <2> HIDE DEF p
  <2>. QED
    BY <2>8, <2>9, <2>10 DEF FramesInv
<1>7. \/ ToTheEnd(r, made, from, keep)
      \/ \E next \in from .. Len(p) : UpTo(r, made, from, keep, t, next)
  BY <1>2, <1>3, ProceedIs
<1>. QED
  BY <1>5, <1>6, <1>7

LEMMA StartKeeps ==
  ASSUME StoreInv, NEW r \in Replays, Backlog!StartReplay(r)
  PROVE  StoreInv'
<1>1. /\ replaying[r] = NoReplay /\ interfered' = (interfered \/ Backlog!Active # {})
      /\ Backlog!Proceed(r, made, 1, <<>>, hour)
      /\ UNCHANGED <<hour, stored, replayed, evicted>>
  BY DEF Backlog!StartReplay
<1>2. /\ Backlog!TypeOK /\ ListsInv /\ (~interfered => FramesInv)
  BY DEF StoreInv
<1>3. /\ made \in 1 .. MaxLists /\ lists[made] \in Seq(Backlog!Entry) /\ made \in 1 .. made
      /\ hour \in 0 .. LastHour
  BY DEF StoreInv, Backlog!TypeOK, Backlog!RelayStoreAssumption
<1>4. <<>> \in Seq(Backlog!Entry) /\ Len(<<>>) = 0 /\ DOMAIN <<>> = {}
  OBVIOUS
<1>5. Walk(lists[made], 1, <<>>, hour, stored)
  BY <1>3, <1>4 DEF Walk, Dated
<1>6. /\ made' \in 1 .. MaxLists /\ lists' \in [1 .. MaxLists -> Seq(Backlog!Entry)]
      /\ replaying' \in [Replays -> Backlog!Replay \cup {NoReplay}]
      /\ outdated' \subseteq stored /\ ListsInv'
  BY <1>1, <1>3, <1>5, ProceedKeeps
<1>7. ASSUME ~interfered' PROVE FramesInv'
  <2>1. FramesInv /\ Backlog!Active = {}
    BY <1>1, <1>2, <1>7
  <2>2. /\ Apart(lists[made])
        /\ stored \subseteq Backlog!FramesOf(lists[made]) \cup replayed' \cup evicted \cup outdated
        /\ Backlog!FramesOf(lists[made]) \cap replayed' = {}
    BY <1>1, <2>1 DEF FramesInv
  <2>3. Walked(lists[made], 1, <<>>, replayed', outdated)
    <3>1. \A i \in DOMAIN lists[made] : ~(i < 1) /\ lists[made][i].frame \notin replayed'
      BY <1>3, <2>2 DEF Backlog!FramesOf
    <3>. QED
      BY <1>4, <3>1 DEF Walked, Apart
  <2>4. Backlog!Active \subseteq {r}
    BY <2>1
  <2>. QED
    BY <1>1, <1>3, <1>5, <2>2, <2>3, <2>4, ProceedAccounts
<1>8. Backlog!TypeOK'
  BY <1>1, <1>2, <1>6 DEF Backlog!TypeOK
<1>. QED
  BY <1>6, <1>7, <1>8 DEF StoreInv, Backlog!RelayStoreAssumption, Backlog!IdleAssumption,
    Backlog!Replay, Backlog!Entry

\* The replay as it stands when its send ends.
LEMMA Underway ==
  ASSUME StoreInv, NEW r \in Replays, replaying[r] # NoReplay
  PROVE  LET me == replaying[r] IN
         /\ r \in Backlog!Active /\ me \in Backlog!Replay
         /\ me.list \in 1 .. made /\ me.now \in 0 .. LastHour
         /\ me.next - 1 \in Nat \ {0} /\ me.next \in Nat \ {0}
         /\ lists[me.list] \in Seq(Backlog!Entry)
         /\ Sending(lists[me.list], me, hour, stored)
<1> DEFINE me == replaying[r]
<1>1. /\ Backlog!TypeOK /\ ListsInv
  BY DEF StoreInv
<1>2. r \in Backlog!Active /\ me \in Backlog!Replay
  BY <1>1 DEF Backlog!Active, Backlog!TypeOK
<1>3. me.list <= made /\ Sending(lists[me.list], me, hour, stored)
  BY <1>1, <1>2 DEF ListsInv
<1>4. made \in 1 .. MaxLists /\ MaxLists \in Nat /\ lists \in [1 .. MaxLists -> Seq(Backlog!Entry)]
  BY <1>1 DEF Backlog!TypeOK, StoreInv, Backlog!RelayStoreAssumption
<1>5. me.list \in 1 .. MaxLists /\ me.next \in Nat /\ me.now \in 0 .. LastHour
  BY <1>2 DEF Backlog!Replay
<1>6. me.next - 1 \in Nat \ {0}
  BY <1>3 DEF Sending, Walk
<1> HIDE DEF me
<1>7. me.list \in 1 .. made /\ me.next \in Nat \ {0} /\ lists[me.list] \in Seq(Backlog!Entry)
  BY <1>3, <1>4, <1>5, <1>6
<1>. QED
  BY <1>2, <1>3, <1>5, <1>6, <1>7 DEF me

LEMMA SucceedsKeeps ==
  ASSUME StoreInv, NEW r \in Replays, Backlog!SendSucceeds(r)
  PROVE  StoreInv'
<1> DEFINE me == replaying[r]
           p == lists[me.list]
<1>1. /\ me # NoReplay /\ replayed' = replayed \cup {me.sending.frame}
      /\ Backlog!Proceed(r, me.list, me.next, me.keep, me.now)
      /\ UNCHANGED <<hour, stored, evicted, interfered>>
  BY DEF Backlog!SendSucceeds
<1>2. /\ r \in Backlog!Active /\ me \in Backlog!Replay
      /\ me.list \in 1 .. made /\ me.now \in 0 .. LastHour
      /\ me.next - 1 \in Nat \ {0} /\ me.next \in Nat \ {0}
      /\ p \in Seq(Backlog!Entry) /\ Sending(p, me, hour, stored)
  BY <1>1, Underway
<1> HIDE DEF me, p
<1>3. /\ Walk(p, me.next - 1, me.keep, hour, stored) /\ me.next - 1 <= Len(p)
      /\ me.sending \in Backlog!Entry /\ me.sending.frame \in stored
      /\ \A j \in DOMAIN me.keep : me.keep[j].at <= me.sending.at
      /\ \A k \in DOMAIN p : me.next <= k => me.sending.at <= p[k].at
  BY <1>2 DEF Sending
<1>4. /\ Dated(me.keep, hour, stored) /\ Len(me.keep) <= (me.next - 1) - 1
      /\ me.keep \in Seq(Backlog!Entry) /\ Len(me.keep) \in Nat
      /\ \A j \in DOMAIN me.keep : \A k \in DOMAIN p : me.next - 1 <= k => me.keep[j].at <= p[k].at
  BY <1>3 DEF Walk, Dated
<1>5. Len(p) \in Nat /\ DOMAIN p = 1 .. Len(p)
  BY <1>2
<1>6. Walk(p, me.next, me.keep, hour, stored)
  <2>1. Len(me.keep) <= me.next - 1
    BY <1>2, <1>4
  <2>2. \A k \in DOMAIN p : me.next <= k => me.next - 1 <= k
    BY <1>2, <1>5
  <2>3. \A j \in DOMAIN me.keep : \A k \in DOMAIN p : me.next <= k => me.keep[j].at <= p[k].at
    BY <1>4, <2>2
  <2>. QED
    BY <1>2, <1>3, <1>4, <2>1, <2>3 DEF Walk
<1>7. /\ made' \in 1 .. MaxLists /\ lists' \in [1 .. MaxLists -> Seq(Backlog!Entry)]
      /\ replaying' \in [Replays -> Backlog!Replay \cup {NoReplay}]
      /\ outdated' \subseteq stored /\ ListsInv'
  BY <1>1, <1>2, <1>6, ProceedKeeps DEF p
<1>8. ASSUME ~interfered' PROVE FramesInv'
  <2>1. FramesInv
    BY <1>1, <1>8 DEF StoreInv
  <2>2. /\ Apart(lists[made]) /\ Backlog!Active \subseteq {r}
        /\ stored \subseteq Backlog!FramesOf(lists[made]) \cup replayed \cup evicted \cup outdated
        /\ me.list = made /\ me.sending = lists[made][me.next - 1]
        /\ Walked(lists[made], me.next - 1, me.keep, replayed, outdated)
    BY <1>2, <2>1 DEF FramesInv, me
  <2>3. p = lists[made] /\ me.list = made
    BY <2>2 DEF p
  <2>4. Apart(p) /\ me.sending = p[me.next - 1] /\ Walked(p, me.next - 1, me.keep, replayed, outdated)
    BY <2>2, <2>3
  <2>5. me.next - 1 \in DOMAIN p
    BY <1>2, <1>3, <1>5
  <2>6. Walked(p, me.next, me.keep, replayed', outdated)
    <3>1. ASSUME NEW i \in DOMAIN p, i < me.next
          PROVE  p[i].frame \in Backlog!FramesOf(me.keep) \cup replayed' \cup outdated
      <4>1. CASE i = me.next - 1
        BY <1>1, <2>4, <4>1
      <4>2. CASE i # me.next - 1
        <5>1. i < me.next - 1
          BY <1>2, <1>5, <3>1, <4>2
        <5>. QED
          BY <1>1, <2>4, <5>1 DEF Walked
      <4>. QED
        BY <4>1, <4>2
    <3>2. ASSUME NEW j \in DOMAIN me.keep
          PROVE  /\ \E i \in DOMAIN p : i < me.next /\ p[i].frame = me.keep[j].frame
                 /\ me.keep[j].frame \notin replayed'
      <4>1. PICK i \in DOMAIN p : i < me.next - 1 /\ p[i].frame = me.keep[j].frame
        BY <2>4 DEF Walked
      <4>2. i < me.next /\ i # me.next - 1
        BY <1>2, <1>5, <4>1
      <4>3. me.keep[j].frame # me.sending.frame
        BY <2>4, <2>5, <4>1, <4>2 DEF Apart
      <4>. QED
        BY <1>1, <2>4, <4>1, <4>2, <4>3 DEF Walked
    <3>3. ASSUME NEW i \in DOMAIN p, me.next <= i PROVE p[i].frame \notin replayed'
      <4>1. me.next - 1 <= i /\ i # me.next - 1
        BY <1>2, <1>5, <3>3
      <4>2. p[i].frame # me.sending.frame
        BY <2>4, <2>5, <4>1 DEF Apart
      <4>. QED
        BY <1>1, <2>4, <4>1, <4>2 DEF Walked
    <3>4. Apart(me.keep)
      BY <2>4 DEF Walked
    <3>. QED
      BY <3>1, <3>2, <3>3, <3>4 DEF Walked
  <2>7. stored \subseteq Backlog!FramesOf(lists[made]) \cup replayed' \cup evicted \cup outdated
    BY <1>1, <2>2
  <2>8. /\ Backlog!Proceed(r, made, me.next, me.keep, me.now)
        /\ Walk(lists[made], me.next, me.keep, hour, stored)
        /\ Walked(lists[made], me.next, me.keep, replayed', outdated)
    BY <1>1, <1>6, <2>3, <2>6
  <2>. QED
    BY <1>1, <1>2, <2>2, <2>7, <2>8, ProceedAccounts
<1>9. Backlog!TypeOK'
  BY <1>1, <1>3, <1>7 DEF StoreInv, Backlog!TypeOK
<1>. QED
  BY <1>7, <1>8, <1>9 DEF StoreInv, Backlog!RelayStoreAssumption, Backlog!IdleAssumption,
    Backlog!Replay, Backlog!Entry

LEMMA FailsKeeps ==
  ASSUME StoreInv, NEW r \in Replays, Backlog!SendFails(r)
  PROVE  StoreInv'
<1> DEFINE me == replaying[r]
           p == lists[me.list]
           n == Len(me.keep)
           kept == Append(me.keep, me.sending)
<1>1. /\ me # NoReplay
      /\ Backlog!Proceed(r, me.list, me.next, kept, me.now)
      /\ UNCHANGED <<hour, stored, replayed, evicted, interfered>>
  BY DEF Backlog!SendFails, Backlog!Kept
<1>2. /\ r \in Backlog!Active /\ me \in Backlog!Replay
      /\ me.list \in 1 .. made /\ me.now \in 0 .. LastHour
      /\ me.next - 1 \in Nat \ {0} /\ me.next \in Nat \ {0}
      /\ p \in Seq(Backlog!Entry) /\ Sending(p, me, hour, stored)
  BY <1>1, Underway
<1> HIDE DEF me, p
<1>3. /\ Walk(p, me.next - 1, me.keep, hour, stored) /\ me.next - 1 <= Len(p)
      /\ me.sending \in Backlog!Entry /\ me.sending.frame \in stored /\ me.sending.at <= hour
      /\ \A j \in DOMAIN me.keep : me.keep[j].at <= me.sending.at
      /\ \A k \in DOMAIN p : me.next <= k => me.sending.at <= p[k].at
  BY <1>2 DEF Sending
<1>4. /\ Dated(me.keep, hour, stored) /\ n <= (me.next - 1) - 1
      /\ me.keep \in Seq(Backlog!Entry) /\ n \in Nat /\ DOMAIN me.keep = 1 .. n
      /\ \A j \in DOMAIN me.keep : \A k \in DOMAIN p : me.next - 1 <= k => me.keep[j].at <= p[k].at
  BY <1>3 DEF Walk, Dated
<1>5. Len(p) \in Nat /\ DOMAIN p = 1 .. Len(p)
  BY <1>2
<1>6. /\ kept \in Seq(Backlog!Entry) /\ Len(kept) = n + 1 /\ DOMAIN kept = 1 .. n + 1
      /\ kept[n + 1] = me.sending /\ \A j \in 1 .. n : kept[j] = me.keep[j]
  <2>1. kept \in Seq(Backlog!Entry) /\ Len(kept) = n + 1
    BY <1>3, <1>4
  <2>2. kept[n + 1] = me.sending
    BY <1>3, <1>4
  <2>3. \A j \in 1 .. n : kept[j] = me.keep[j]
    BY <1>3, <1>4
  <2> HIDE DEF kept, n
  <2>. QED
    BY <2>1, <2>2, <2>3
<1> HIDE DEF kept, n
<1>7. \A j \in DOMAIN kept : \/ j = n + 1 /\ kept[j] = me.sending
                             \/ j \in 1 .. n /\ j \in DOMAIN me.keep /\ kept[j] = me.keep[j]
  <2> SUFFICES ASSUME NEW j \in DOMAIN kept
               PROVE  \/ j = n + 1 /\ kept[j] = me.sending
                      \/ j \in 1 .. n /\ j \in DOMAIN me.keep /\ kept[j] = me.keep[j]
    OBVIOUS
  <2>1. j = n + 1 \/ j \in 1 .. n
    BY <1>4, <1>6
  <2>. QED
    BY <1>4, <1>6, <2>1
<1>8. Walk(p, me.next, kept, hour, stored)
  <2>1. ASSUME NEW j \in DOMAIN kept, NEW k \in DOMAIN kept, j <= k
        PROVE  kept[j].at <= kept[k].at
    <3>1. CASE k = n + 1 /\ j = n + 1
      <4>1. me.sending.at \in Int
        BY <1>3 DEF Backlog!Entry
      <4>. QED
        BY <1>6, <3>1, <4>1
    <3>2. CASE k = n + 1 /\ j \in 1 .. n
      BY <1>3, <1>4, <1>6, <3>2
    <3>3. CASE k \in 1 .. n /\ j \in 1 .. n
      BY <1>4, <1>6, <2>1, <3>3 DEF Dated
    <3>4. CASE k \in 1 .. n /\ j = n + 1
      BY <1>4, <2>1, <3>4
    <3>. QED
      BY <1>7, <3>1, <3>2, <3>3, <3>4
  <2>2. \A j \in DOMAIN kept : kept[j].at <= hour /\ kept[j].frame \in stored
    BY <1>3, <1>4, <1>7 DEF Dated
  <2>3. Dated(kept, hour, stored)
    BY <1>6, <2>1, <2>2 DEF Dated
  <2>4. Len(kept) <= me.next - 1
    BY <1>2, <1>4, <1>6
  <2>5. \A k \in DOMAIN p : me.next <= k => me.next - 1 <= k
    BY <1>2, <1>5
  <2>6. \A j \in DOMAIN kept : \A k \in DOMAIN p : me.next <= k => kept[j].at <= p[k].at
    BY <1>3, <1>4, <1>7, <2>5
  <2>. QED
    BY <1>2, <1>3, <2>3, <2>4, <2>6 DEF Walk
<1>9. /\ made' \in 1 .. MaxLists /\ lists' \in [1 .. MaxLists -> Seq(Backlog!Entry)]
      /\ replaying' \in [Replays -> Backlog!Replay \cup {NoReplay}]
      /\ outdated' \subseteq stored /\ ListsInv'
  BY <1>1, <1>2, <1>8, ProceedKeeps DEF p
<1>10. ASSUME ~interfered' PROVE FramesInv'
  <2>1. FramesInv
    BY <1>1, <1>10 DEF StoreInv
  <2>2. /\ Apart(lists[made]) /\ Backlog!Active \subseteq {r}
        /\ stored \subseteq Backlog!FramesOf(lists[made]) \cup replayed \cup evicted \cup outdated
        /\ me.list = made /\ me.sending = lists[made][me.next - 1]
        /\ Walked(lists[made], me.next - 1, me.keep, replayed, outdated)
    BY <1>2, <2>1 DEF FramesInv, me
  <2>3. p = lists[made] /\ me.list = made
    BY <2>2 DEF p
  <2>4. Apart(p) /\ me.sending = p[me.next - 1] /\ Walked(p, me.next - 1, me.keep, replayed, outdated)
    BY <2>2, <2>3
  <2>5. me.next - 1 \in DOMAIN p
    BY <1>2, <1>3, <1>5
  <2>6. Walked(p, me.next, kept, replayed, outdated)
    <3>1. Backlog!FramesOf(kept) = Backlog!FramesOf(me.keep) \cup {me.sending.frame}
      <4>1. ASSUME NEW x \in Backlog!FramesOf(kept)
            PROVE  x \in Backlog!FramesOf(me.keep) \cup {me.sending.frame}
        BY <1>7, <4>1 DEF Backlog!FramesOf
      <4>2. ASSUME NEW x \in Backlog!FramesOf(me.keep) PROVE x \in Backlog!FramesOf(kept)
        <5>1. PICK j \in DOMAIN me.keep : x = me.keep[j].frame
          BY DEF Backlog!FramesOf
        <5>2. j \in DOMAIN kept /\ x = kept[j].frame
          BY <1>4, <1>6, <5>1
        <5>. QED
          BY <5>2 DEF Backlog!FramesOf
      <4>3. me.sending.frame \in Backlog!FramesOf(kept)
        <5>1. n + 1 \in DOMAIN kept
          BY <1>4, <1>6
        <5>. QED
          BY <1>6, <5>1 DEF Backlog!FramesOf
      <4>. QED
        BY <4>1, <4>2, <4>3
    <3>2. ASSUME NEW i \in DOMAIN p, i < me.next
          PROVE  p[i].frame \in Backlog!FramesOf(kept) \cup replayed \cup outdated
      <4>1. CASE i = me.next - 1
        BY <2>4, <3>1, <4>1
      <4>2. CASE i # me.next - 1
        <5>1. i < me.next - 1
          BY <1>2, <1>5, <3>2, <4>2
        <5>. QED
          BY <2>4, <3>1, <5>1 DEF Walked
      <4>. QED
        BY <4>1, <4>2
    <3>3. ASSUME NEW j \in DOMAIN me.keep
          PROVE  /\ \E i \in DOMAIN p : i < me.next /\ p[i].frame = me.keep[j].frame
                 /\ me.keep[j].frame \notin replayed /\ me.keep[j].frame # me.sending.frame
      <4>1. PICK i \in DOMAIN p : i < me.next - 1 /\ p[i].frame = me.keep[j].frame
        BY <2>4 DEF Walked
      <4>2. i < me.next /\ i # me.next - 1
        BY <1>2, <1>5, <4>1
      <4>3. me.keep[j].frame # me.sending.frame
        BY <2>4, <2>5, <4>1, <4>2 DEF Apart
      <4>. QED
        BY <2>4, <4>1, <4>2, <4>3 DEF Walked
    <3>4. me.sending.frame \notin replayed
      BY <1>2, <2>4, <2>5 DEF Walked
    <3>5. ASSUME NEW j \in DOMAIN kept
          PROVE  /\ \E i \in DOMAIN p : i < me.next /\ p[i].frame = kept[j].frame
                 /\ kept[j].frame \notin replayed
      <4>1. CASE kept[j] = me.sending
        <5>1. me.next - 1 < me.next
          BY <1>2
        <5>. QED
          BY <2>4, <2>5, <3>4, <4>1, <5>1
      <4>2. CASE j \in DOMAIN me.keep /\ kept[j] = me.keep[j]
        BY <3>3, <4>2
      <4>. QED
        BY <1>7, <4>1, <4>2
    <3>6. Apart(kept)
      <4> SUFFICES ASSUME NEW j \in DOMAIN kept, NEW k \in DOMAIN kept,
                          kept[j].frame = kept[k].frame
                   PROVE  j = k
        BY DEF Apart
      <4>1. CASE j = n + 1 /\ k = n + 1
        BY <4>1
      <4>2. CASE j = n + 1 /\ k \in 1 .. n
        BY <1>4, <1>6, <3>3, <4>2
      <4>3. CASE j \in 1 .. n /\ k = n + 1
        BY <1>4, <1>6, <3>3, <4>3
      <4>4. CASE j \in 1 .. n /\ k \in 1 .. n
        BY <1>4, <1>6, <2>4, <4>4 DEF Walked, Apart
      <4>. QED
        BY <1>7, <4>1, <4>2, <4>3, <4>4
    <3>7. ASSUME NEW i \in DOMAIN p, me.next <= i PROVE p[i].frame \notin replayed
      <4>1. me.next - 1 <= i
        BY <1>2, <1>5, <3>7
      <4>. QED
        BY <2>4, <4>1 DEF Walked
    <3>. QED
      BY <3>2, <3>5, <3>6, <3>7 DEF Walked
  <2>7. /\ Backlog!Proceed(r, made, me.next, kept, me.now)
        /\ Walk(lists[made], me.next, kept, hour, stored)
        /\ Walked(lists[made], me.next, kept, replayed', outdated)
        /\ stored \subseteq Backlog!FramesOf(lists[made]) \cup replayed' \cup evicted \cup outdated
    BY <1>1, <1>8, <2>2, <2>3, <2>6
  <2>. QED
    BY <1>1, <1>2, <2>2, <2>7, ProceedAccounts
<1>11. Backlog!TypeOK'
  BY <1>1, <1>9 DEF StoreInv, Backlog!TypeOK
<1>. QED
  BY <1>9, <1>10, <1>11 DEF StoreInv, Backlog!RelayStoreAssumption, Backlog!IdleAssumption,
    Backlog!Replay, Backlog!Entry

\* What holds at a time of what was stored holds later.
LEMMA DatedLater ==
  ASSUME NEW l, NEW t \in Int, NEW u \in Int, t <= u, NEW K, NEW L, K \subseteq L, Dated(l, t, K)
  PROVE  Dated(l, u, L)
<1>1. l \in Seq(Backlog!Entry) /\ \A j \in DOMAIN l : l[j].at <= t /\ l[j].frame \in K
  BY DEF Dated
<1>2. \A j \in DOMAIN l : l[j].at \in Int
  <2>1. ASSUME NEW j \in DOMAIN l PROVE l[j] \in Backlog!Entry
    BY <1>1
  <2>2. \A e \in Backlog!Entry : e.at \in Int
    BY DEF Backlog!Entry
  <2>. QED
    BY <2>1, <2>2
<1>3. \A j \in DOMAIN l : l[j].at <= u /\ l[j].frame \in L
  BY <1>1, <1>2
<1>. QED
  BY <1>3 DEF Dated

LEMMA SendingLater ==
  ASSUME NEW l, NEW me, NEW t \in Int, NEW u \in Int, t <= u, NEW K, NEW L, K \subseteq L,
         Sending(l, me, t, K)
  PROVE  Sending(l, me, u, L)
<1>1. Dated(me.keep, u, L)
  BY DatedLater DEF Sending, Walk
<1>2. me.sending.at <= u
  <2>1. me.sending.at \in Int /\ me.sending.at <= t
    BY DEF Sending, Backlog!Entry
  <2>. QED
    BY <2>1
<1>. QED
  BY <1>1, <1>2 DEF Sending, Walk

\* What a list l is when the entry e has joined it: the list, or, if it was full,
\* all of it but its oldest entry (m), with e at the end (n).
Joined(l, m, n, e) ==
  /\ Len(l) <= Len(n) /\ Len(n) <= StoreCapacity
  /\ n[Len(n)] = e
  /\ \A k \in DOMAIN n : k # Len(n) => \E i \in DOMAIN l : k <= i /\ n[k] = l[i]
  /\ \A j, k \in DOMAIN n : j # Len(n) /\ k # Len(n) =>
       \E a, b \in DOMAIN l : n[j] = l[a] /\ n[k] = l[b] /\ (a = b => j = k)
  /\ m = l => Len(n) = Len(l) + 1 /\ \A k \in DOMAIN l : n[k] = l[k]
  /\ Backlog!FramesOf(n) = Backlog!FramesOf(m) \cup {e.frame}
  /\ Backlog!FramesOf(m) \subseteq Backlog!FramesOf(l)

LEMMA RoomIs ==
  ASSUME NEW l \in Seq(Backlog!Entry), StoreCapacity \in Nat \ {0}, Len(l) <= StoreCapacity
  PROVE  \E d \in {0, 1} :
           /\ d <= Len(l) /\ Backlog!Room(l) \in Seq(Backlog!Entry)
           /\ Len(Backlog!Room(l)) = Len(l) - d /\ Len(Backlog!Room(l)) < StoreCapacity
           /\ \A k \in 1 .. Len(Backlog!Room(l)) : Backlog!Room(l)[k] = l[k + d]
           /\ Backlog!Room(l) = l => d = 0
<1> DEFINE m == Backlog!Room(l)
<1>1. Len(l) \in Nat /\ DOMAIN l = 1 .. Len(l)
  OBVIOUS
<1>2. CASE Len(l) >= StoreCapacity
  <2>0. m = Tail(l)
    BY <1>2 DEF Backlog!Room
  <2> HIDE DEF m
  <2>1. l # <<>> /\ m = Tail(l) /\ Len(l) = StoreCapacity
    <3> DEFINE c == Len(l)
    <3>0. c \in Nat /\ c <= StoreCapacity /\ c >= StoreCapacity /\ StoreCapacity \in Nat
      BY <1>1, <1>2
    <3> HIDE DEF c
    <3>1. c = StoreCapacity
      BY <3>0
    <3>2. Len(l) # 0
      BY <3>1 DEF c
    <3>3. Len(<<>>) = 0
      OBVIOUS
    <3>. QED
      BY <2>0, <3>1, <3>2, <3>3 DEF c
  <2>2. Tail(l) \in Seq(Backlog!Entry) /\ Len(Tail(l)) = Len(l) - 1
    BY <2>1
  <2>3. \A k \in 1 .. Len(l) - 1 : Tail(l)[k] = l[k + 1]
    BY <1>1, <2>1
  <2>4. m \in Seq(Backlog!Entry) /\ Len(m) = Len(l) - 1
    BY <2>1, <2>2
  <2>5. Len(m) # Len(l) /\ 1 <= Len(l) /\ Len(m) < StoreCapacity
    BY <1>1, <2>1, <2>4
  <2>6. \A k \in 1 .. Len(m) : m[k] = l[k + 1]
    BY <2>1, <2>2, <2>3
  <2>7. m # l
    BY <2>5
  <2>. QED
    BY <2>4, <2>5, <2>6, <2>7 DEF m
<1>3. CASE ~(Len(l) >= StoreCapacity)
  <2>1. m = l
    BY <1>3 DEF Backlog!Room
  <2> HIDE DEF m
  <2>2. 0 <= Len(l) /\ Len(l) = Len(l) - 0 /\ Len(l) < StoreCapacity
    BY <1>1, <1>3
  <2>3. \A k \in 1 .. Len(l) : k + 0 = k
    BY <1>1
  <2>. QED
    BY <2>1, <2>2, <2>3 DEF m
<1>. QED
  BY <1>2, <1>3

LEMMA JoinedIs ==
  ASSUME NEW l, NEW time \in Int, NEW known, Dated(l, time, known),
         NEW e \in Backlog!Entry, e.at = time,
         StoreCapacity \in Nat \ {0}, Len(l) <= StoreCapacity
  PROVE  /\ Joined(l, Backlog!Room(l), Append(Backlog!Room(l), e), e)
         /\ Dated(Append(Backlog!Room(l), e), time, known \cup {e.frame})
<1> DEFINE m == Backlog!Room(l)
           n == Append(m, e)
<1>1. l \in Seq(Backlog!Entry) /\ Len(l) \in Nat /\ DOMAIN l = 1 .. Len(l)
  BY DEF Dated
<1>2. PICK d \in {0, 1} :
        /\ d <= Len(l) /\ m \in Seq(Backlog!Entry)
        /\ Len(m) = Len(l) - d /\ Len(m) < StoreCapacity
        /\ \A k \in 1 .. Len(m) : m[k] = l[k + d]
        /\ m = l => d = 0
  BY <1>1, RoomIs
<1> HIDE DEF m
<1>3. /\ n \in Seq(Backlog!Entry) /\ Len(n) = Len(m) + 1 /\ Len(m) \in Nat /\ DOMAIN m = 1 .. Len(m)
      /\ n[Len(m) + 1] = e /\ \A k \in 1 .. Len(m) : n[k] = m[k]
  <2>1. n \in Seq(Backlog!Entry) /\ Len(n) = Len(m) + 1
    BY <1>2
  <2>2. Len(m) \in Nat /\ DOMAIN m = 1 .. Len(m)
    BY <1>2
  <2>3. n[Len(m) + 1] = e
    BY <1>2
  <2>4. \A k \in 1 .. Len(m) : n[k] = m[k]
    BY <1>2
  <2>. QED
    BY <2>1, <2>2, <2>3, <2>4
<1>4. DOMAIN n = 1 .. Len(m) + 1 /\ d \in Nat
  BY <1>3
<1> HIDE DEF n
<1>5. ASSUME NEW k \in 1 .. Len(m)
      PROVE  k + d \in DOMAIN l /\ n[k] = l[k + d] /\ k <= k + d
  <2>1. k \in Nat /\ 1 <= k /\ k <= Len(m)
    BY <1>3
  <2>2. Len(m) + d = Len(l)
    BY <1>1, <1>2, <1>3, <1>4
  <2>3. k + d \in 1 .. Len(l) /\ k <= k + d
    BY <1>1, <1>3, <1>4, <2>1, <2>2
  <2>. QED
    BY <1>1, <1>2, <1>3, <2>3
<1>6. \A k \in DOMAIN n : \/ k = Len(n) /\ k = Len(m) + 1 /\ n[k] = e
                          \/ k \in 1 .. Len(m) /\ k # Len(n)
  BY <1>3, <1>4
<1>7. Dated(n, time, known \cup {e.frame})
  <2>1. ASSUME NEW j \in DOMAIN n PROVE n[j].at <= time /\ n[j].frame \in known \cup {e.frame}
    <3>1. CASE n[j] = e
      BY <3>1
    <3>2. CASE j \in 1 .. Len(m)
      BY <1>5, <3>2 DEF Dated
    <3>. QED
      BY <1>6, <3>1, <3>2
  <2>2. ASSUME NEW j \in DOMAIN n, NEW k \in DOMAIN n, j <= k PROVE n[j].at <= n[k].at
    <3>1. CASE n[k] = e
      BY <2>1, <3>1
    <3>2. CASE k \in 1 .. Len(m)
      <4>1. j \in 1 .. Len(m) /\ j + d <= k + d
        BY <1>2, <1>3, <1>4, <2>2, <3>2
      <4>. QED
        BY <1>5, <3>2, <4>1 DEF Dated
    <3>. QED
      BY <1>6, <3>1, <3>2
  <2>. QED
    BY <1>3, <2>1, <2>2 DEF Dated
<1>8. Len(l) <= Len(n) /\ Len(n) <= StoreCapacity /\ n[Len(n)] = e
  <2>1. CASE d = 0
    BY <1>1, <1>2, <1>3, <2>1
  <2>2. CASE d = 1
    BY <1>1, <1>2, <1>3, <2>2
  <2>. QED
    BY <2>1, <2>2
<1>9. \A k \in DOMAIN n : k # Len(n) => \E i \in DOMAIN l : k <= i /\ n[k] = l[i]
  BY <1>5, <1>6
<1>10. ASSUME NEW j \in DOMAIN n, NEW k \in DOMAIN n, j # Len(n), k # Len(n)
       PROVE  \E a, b \in DOMAIN l : n[j] = l[a] /\ n[k] = l[b] /\ (a = b => j = k)
  <2>1. j \in 1 .. Len(m) /\ k \in 1 .. Len(m)
    BY <1>6, <1>10
  <2>2. j + d = k + d => j = k
    BY <1>2, <1>3, <2>1
  <2>3. j + d \in DOMAIN l /\ k + d \in DOMAIN l /\ n[j] = l[j + d] /\ n[k] = l[k + d]
    BY <1>5, <2>1
  <2>. QED
    BY <2>2, <2>3
<1>11. ASSUME m = l
       PROVE  Len(n) = Len(l) + 1 /\ \A k \in DOMAIN l : n[k] = l[k]
  BY <1>1, <1>3, <1>4, <1>11
<1>12. Backlog!FramesOf(n) = Backlog!FramesOf(m) \cup {e.frame}
  <2>1. ASSUME NEW x \in Backlog!FramesOf(n) PROVE x \in Backlog!FramesOf(m) \cup {e.frame}
    <3>1. PICK k \in DOMAIN n : x = n[k].frame
      BY DEF Backlog!FramesOf
    <3>. QED
      BY <1>3, <1>6, <3>1 DEF Backlog!FramesOf
  <2>2. ASSUME NEW k \in DOMAIN m PROVE m[k].frame \in Backlog!FramesOf(n)
    <3>1. k \in DOMAIN n /\ n[k] = m[k]
      BY <1>3, <1>4
    <3>. QED
      BY <3>1 DEF Backlog!FramesOf
  <2>3. e.frame \in Backlog!FramesOf(n)
    <3>1. Len(m) + 1 \in DOMAIN n
      BY <1>3, <1>4
    <3>. QED
      BY <1>3, <3>1 DEF Backlog!FramesOf
  <2>4. Backlog!FramesOf(m) \subseteq Backlog!FramesOf(n)
    BY <2>2 DEF Backlog!FramesOf
  <2>. QED
    BY <2>1, <2>3, <2>4
<1>13. Backlog!FramesOf(m) \subseteq Backlog!FramesOf(l)
  <2> SUFFICES ASSUME NEW k \in DOMAIN m PROVE m[k].frame \in Backlog!FramesOf(l)
    BY DEF Backlog!FramesOf
  <2>1. k + d \in DOMAIN l /\ m[k] = l[k + d]
    BY <1>3, <1>5
  <2>. QED
    BY <2>1 DEF Backlog!FramesOf
<1>. QED
  <2>1. Joined(l, m, n, e)
    BY <1>8, <1>9, <1>10, <1>11, <1>12, <1>13 DEF Joined
  <2>. QED
    BY <1>7, <2>1 DEF n, m

LEMMA StoreKeeps ==
  ASSUME StoreInv, NEW f \in Frames, Backlog!StoreFrame(f)
  PROVE  StoreInv'
<1> DEFINE l == lists[made]
           e == [frame |-> f, at |-> hour]
           n == Append(Backlog!Room(l), e)
<1>1. /\ f \notin stored /\ lists' = [lists EXCEPT ![made] = n] /\ stored' = stored \cup {f}
      /\ evicted' = evicted \cup (Backlog!FramesOf(l) \ Backlog!FramesOf(Backlog!Room(l)))
      /\ interfered' = (interfered \/ (Backlog!Active # {} /\ Backlog!Room(l) # l))
      /\ UNCHANGED <<hour, made, replaying, replayed, outdated>>
  BY DEF Backlog!StoreFrame, Backlog!Store
<1>2. Backlog!TypeOK /\ ListsInv
  BY DEF StoreInv
<1>3. /\ made \in 1 .. MaxLists /\ lists \in [1 .. MaxLists -> Seq(Backlog!Entry)]
      /\ hour \in 0 .. LastHour /\ hour \in Int /\ MaxLists \in Nat /\ StoreCapacity \in Nat \ {0}
      /\ replaying \in [Replays -> Backlog!Replay \cup {NoReplay}] /\ made \in 1 .. made
      /\ replayed \subseteq stored /\ evicted \subseteq stored /\ outdated \subseteq stored
  BY <1>2 DEF Backlog!TypeOK, StoreInv, Backlog!RelayStoreAssumption
<1>4. Dated(l, hour, stored) /\ Len(l) <= StoreCapacity
  BY <1>2, <1>3 DEF ListsInv
<1>5. e \in Backlog!Entry /\ e.at = hour /\ e.frame = f
  BY <1>3 DEF Backlog!Entry
<1> HIDE DEF l, e
<1>6. Joined(l, Backlog!Room(l), n, e) /\ Dated(n, hour, stored \cup {f})
  BY <1>3, <1>4, <1>5, JoinedIs
<1> HIDE DEF n
<1>7. /\ l \in Seq(Backlog!Entry) /\ Len(l) \in Nat /\ DOMAIN l = 1 .. Len(l)
      /\ n \in Seq(Backlog!Entry) /\ Len(n) \in Nat /\ DOMAIN n = 1 .. Len(n)
      /\ Len(n) <= StoreCapacity /\ Len(l) <= Len(n)
      /\ \A k \in DOMAIN l : l[k].frame \in stored
  BY <1>4, <1>6 DEF Dated, Joined
<1>8. lists'[made] = n /\ \A i \in 1 .. MaxLists : i # made => lists'[i] = lists[i]
  BY <1>1, <1>3
<1>9. Backlog!Active' = Backlog!Active
  BY <1>1 DEF Backlog!Active
<1>10. ListsInv'
  <2>1. ASSUME NEW i \in 1 .. made
        PROVE  Dated(lists'[i], hour, stored') /\ Len(lists'[i]) <= StoreCapacity
    <3>1. CASE i = made
      BY <1>1, <1>6, <1>7, <1>8, <3>1
    <3>2. CASE i # made
      <4>1. i \in 1 .. MaxLists
        BY <1>3
      <4>2. Dated(lists[i], hour, stored) /\ Len(lists[i]) <= StoreCapacity
        BY <1>2 DEF ListsInv
      <4>3. Dated(lists[i], hour, stored')
        BY <1>1, <1>3, <4>2, DatedLater
      <4>. QED
        BY <1>8, <3>2, <4>1, <4>2, <4>3
    <3>. QED
      BY <3>1, <3>2
  <2>2. ASSUME NEW r \in Backlog!Active
        PROVE  /\ replaying[r].list <= made
               /\ Sending(lists'[replaying[r].list], replaying[r], hour, stored')
    <3> DEFINE me == replaying[r]
               p == lists[me.list]
    <3>1. /\ me.list \in 1 .. made /\ me.next - 1 \in Nat \ {0} /\ me.next \in Nat \ {0}
          /\ Sending(p, me, hour, stored)
      BY Underway DEF Backlog!Active
    <3> HIDE DEF me, p
    <3>2. Sending(p, me, hour, stored')
      BY <1>1, <1>3, <3>1, SendingLater
    <3>3. CASE me.list # made
      <4>1. lists'[me.list] = p
        BY <1>3, <1>8, <3>1, <3>3 DEF p
      <4>. QED
        BY <1>3, <3>1, <3>2, <4>1 DEF me
    <3>4. CASE me.list = made
      <4>1. p = l
        BY <3>4 DEF p, l
      <4>2. /\ me.sending \in Backlog!Entry /\ me.sending.frame \in stored' /\ me.sending.at <= hour
            /\ \A j \in DOMAIN me.keep : me.keep[j].at <= me.sending.at
            /\ \A k \in DOMAIN l : me.next <= k => me.sending.at <= l[k].at
            /\ me.next - 1 <= Len(l)
        BY <3>2, <4>1 DEF Sending
      <4>3. /\ Dated(me.keep, hour, stored') /\ Len(me.keep) <= (me.next - 1) - 1
            /\ \A j \in DOMAIN me.keep : \A k \in DOMAIN l : me.next - 1 <= k => me.keep[j].at <= l[k].at
            /\ \A j \in DOMAIN me.keep : me.keep[j].at <= hour
        BY <3>2, <4>1 DEF Sending, Walk, Dated
      <4>4. ASSUME NEW k \in DOMAIN n
            PROVE  /\ me.next <= k => me.sending.at <= n[k].at
                   /\ me.next - 1 <= k => \A j \in DOMAIN me.keep : me.keep[j].at <= n[k].at
        <5>1. CASE k = Len(n)
          <6>1. n[k] = e
            BY <1>6, <5>1 DEF Joined
          <6>. QED
            BY <1>5, <4>2, <4>3, <6>1
        <5>2. CASE k # Len(n)
          <6>1. PICK i \in DOMAIN l : k <= i /\ n[k] = l[i]
            BY <1>6, <5>2 DEF Joined
          <6>2. (me.next <= k => me.next <= i) /\ (me.next - 1 <= k => me.next - 1 <= i)
            BY <1>7, <3>1, <6>1
          <6>. QED
            BY <4>2, <4>3, <6>1, <6>2
        <5>. QED
          BY <5>1, <5>2
      <4>5. me.next - 1 <= Len(n) /\ (me.next - 1) - 1 <= Len(n)
        BY <1>6, <1>7, <3>1, <4>2
      <4>6. Walk(n, me.next - 1, me.keep, hour, stored')
        BY <3>1, <4>3, <4>4, <4>5 DEF Walk
      <4>7. Sending(n, me, hour, stored')
        BY <4>2, <4>4, <4>5, <4>6 DEF Sending
      <4>. QED
        BY <1>8, <3>1, <3>4, <4>7 DEF me
    <3>. QED
      BY <3>3, <3>4
  <2>. QED
    BY <1>1, <1>9, <2>1, <2>2 DEF ListsInv
<1>11. ASSUME ~interfered' PROVE FramesInv'
  <2>1. FramesInv /\ (Backlog!Active = {} \/ Backlog!Room(l) = l)
    BY <1>1, <1>11 DEF StoreInv
  <2>2. /\ Apart(l) /\ stored \subseteq Backlog!FramesOf(l) \cup replayed \cup evicted \cup outdated
        /\ Backlog!Active = {} => Backlog!FramesOf(l) \cap replayed = {}
        /\ \A r, s \in Backlog!Active : r = s
    BY <2>1 DEF FramesInv, l
  <2>3. f \notin replayed
    BY <1>1, <1>3
  <2>4. ASSUME NEW k \in DOMAIN n, k # Len(n) PROVE n[k].frame # f
    <3>1. PICK i \in DOMAIN l : n[k] = l[i]
      BY <1>6, <2>4 DEF Joined
    <3>. QED
      BY <1>1, <1>7, <3>1
  <2>5. n[Len(n)].frame = f
    BY <1>5, <1>6 DEF Joined
  <2>6. ASSUME NEW j \in DOMAIN n, NEW k \in DOMAIN n, n[j].frame = n[k].frame PROVE j = k
    <3>1. CASE j = Len(n) \/ k = Len(n)
      BY <2>4, <2>5, <2>6, <3>1
    <3>2. CASE j # Len(n) /\ k # Len(n)
      <4>1. PICK a \in DOMAIN l, b \in DOMAIN l :
              n[j] = l[a] /\ n[k] = l[b] /\ (a = b => j = k)
        BY <1>6, <3>2 DEF Joined
      <4>. QED
        BY <2>2, <2>6, <4>1 DEF Apart
    <3>. QED
      BY <3>1, <3>2
  <2>7. /\ Backlog!FramesOf(n) = Backlog!FramesOf(Backlog!Room(l)) \cup {f}
        /\ Backlog!FramesOf(Backlog!Room(l)) \subseteq Backlog!FramesOf(l)
    BY <1>5, <1>6 DEF Joined
  <2>8. stored' \subseteq Backlog!FramesOf(n) \cup replayed \cup evicted' \cup outdated
    BY <1>1, <2>2, <2>7
  <2>9. Backlog!Active = {} => Backlog!FramesOf(n) \cap replayed = {}
    BY <2>2, <2>3, <2>7
  <2>10. ASSUME NEW r \in Backlog!Active
         PROVE  /\ replaying[r].list = made
                /\ replaying[r].sending = n[replaying[r].next - 1]
                /\ Walked(n, replaying[r].next - 1, replaying[r].keep, replayed, outdated)
    <3> DEFINE me == replaying[r]
               at == me.next - 1
    <3>1. /\ me.list = made /\ me.sending = l[at]
          /\ Walked(l, at, me.keep, replayed, outdated)
      BY <2>1 DEF FramesInv, l
    <3>2. at \in Nat \ {0} /\ Sending(lists[me.list], me, hour, stored)
      BY Underway DEF Backlog!Active
    <3>3. at <= Len(l)
      BY <3>1, <3>2 DEF Sending, l
    <3> HIDE DEF me, at
    <3>4. Len(n) = Len(l) + 1 /\ \A k \in DOMAIN l : n[k] = l[k]
      BY <1>6, <2>1 DEF Joined
    <3>5. \A k \in DOMAIN l : k \in DOMAIN n /\ k # Len(n)
      BY <1>7, <3>4
    <3>6. at \in DOMAIN l
      BY <1>7, <3>2, <3>3
    <3>7. \A i \in DOMAIN n : \/ i \in DOMAIN l /\ n[i] = l[i]
                              \/ i = Len(n) /\ ~(i < at)
      <4>1. ~(Len(n) < at)
        BY <1>7, <3>2, <3>3, <3>4
      <4>2. \A i \in DOMAIN n : i \in DOMAIN l \/ i = Len(n)
        BY <1>7, <3>4
      <4>. QED
        BY <3>4, <4>1, <4>2
    <3>8. Walked(n, at, me.keep, replayed, outdated)
      <4>1. ASSUME NEW i \in DOMAIN n, i < at
            PROVE  n[i].frame \in Backlog!FramesOf(me.keep) \cup replayed \cup outdated
        BY <3>1, <3>7, <4>1 DEF Walked
      <4>2. ASSUME NEW j \in DOMAIN me.keep
            PROVE  \E i \in DOMAIN n : i < at /\ n[i].frame = me.keep[j].frame
        <5>1. PICK i \in DOMAIN l : i < at /\ l[i].frame = me.keep[j].frame
          BY <3>1 DEF Walked
        <5>. QED
          BY <3>4, <3>5, <5>1
      <4>3. ASSUME NEW i \in DOMAIN n, at <= i PROVE n[i].frame \notin replayed
        <5>1. CASE i \in DOMAIN l /\ n[i] = l[i]
          BY <3>1, <4>3, <5>1 DEF Walked
        <5>2. CASE i = Len(n)
          BY <2>3, <2>5, <5>2
        <5>. QED
          BY <3>7, <5>1, <5>2
      <4>4. Apart(me.keep) /\ \A j \in DOMAIN me.keep : me.keep[j].frame \notin replayed
        BY <3>1 DEF Walked
      <4>. QED
        BY <4>1, <4>2, <4>3, <4>4 DEF Walked
    <3>9. me.sending = n[at]
      BY <3>1, <3>4, <3>6
    <3>. QED
      BY <3>1, <3>8, <3>9 DEF me, at
  <2>11. Apart(n)
    BY <2>6 DEF Apart
  <2>. QED
    BY <1>1, <1>8, <1>9, <2>2, <2>8, <2>9, <2>10, <2>11 DEF FramesInv
<1>12. Backlog!TypeOK'
  <2>1. lists' \in [1 .. MaxLists -> Seq(Backlog!Entry)]
    BY <1>1, <1>3, <1>7
  <2>2. evicted' \subseteq stored'
    <3>1. Backlog!FramesOf(l) \subseteq stored
      BY <1>7 DEF Backlog!FramesOf
    <3>. QED
      BY <1>1, <1>3, <3>1
  <2>3. interfered' \in BOOLEAN
    BY <1>1, <1>2 DEF Backlog!TypeOK
  <2>. QED
    BY <1>1, <1>2, <2>1, <2>2, <2>3 DEF Backlog!TypeOK
<1>. QED
  BY <1>10, <1>11, <1>12 DEF StoreInv, Backlog!RelayStoreAssumption, Backlog!IdleAssumption,
    Backlog!Replay, Backlog!Entry

\* The choice of places is the same operator in both instances.
LEMMA SameChosen ==
  ASSUME NEW p, NEW I
  PROVE  Backlog!Chosen(p, I) = Buffer!Chosen(p, I)
<1> DEFINE b == Backlog!Cardinality(I)
           c == Buffer!Cardinality(I)
           x == CHOOSE f \in [1 .. b -> I] : \A j, k \in DOMAIN f : j < k => f[j] < f[k]
           y == CHOOSE f \in [1 .. c -> I] : \A j, k \in DOMAIN f : j < k => f[j] < f[k]
<1>1. b = c
  <2>1. Backlog!Cardinality(I) = Cardinality(I)
    BY DEF Backlog!Cardinality, Cardinality
  <2>. QED
    BY <2>1, SameCardinality
<1>2. Backlog!Chosen(p, I) = [k \in 1 .. b |-> p[x[k]]]
  BY DEF Backlog!Chosen
<1>3. Buffer!Chosen(p, I) = [k \in 1 .. c |-> p[y[k]]]
  BY DEF Buffer!Chosen
<1> HIDE DEF b, c
<1>4. x = y
  BY <1>1
<1> HIDE DEF x, y
<1>. QED
  BY <1>1, <1>2, <1>3, <1>4

\* What is kept of a list: in its order, and what a place of it has is at one place.
LEMMA ChosenOf ==
  ASSUME NEW l, NEW time, NEW known, Dated(l, time, known), NEW I \in SUBSET DOMAIN l
  PROVE  LET q == Backlog!Chosen(l, I) IN
         /\ Dated(q, time, known) /\ Len(q) <= Len(l)
         /\ Apart(l) => Apart(q)
         /\ \A k \in DOMAIN q : \E i \in I : q[k] = l[i]
         /\ \A i \in I : \E k \in DOMAIN q : q[k] = l[i]
<1> DEFINE q == Backlog!Chosen(l, I)
<1>1. l \in Seq(Backlog!Entry)
  BY DEF Dated
<1>2. q \in Seq(Backlog!Entry) /\ Keeps(q, l, I)
  <2>1. Buffer!Chosen(l, I) \in Seq(Backlog!Entry) /\ Keeps(Buffer!Chosen(l, I), l, I)
    BY <1>1, ChosenIs
  <2>. QED
    BY <2>1, SameChosen
<1> HIDE DEF q
<1>3. PICK place \in [1 .. Len(q) -> I] :
           /\ Increasing(place)
           /\ \A k \in 1 .. Len(q) : q[k] = l[place[k]]
           /\ \A i \in I : \E k \in 1 .. Len(q) : place[k] = i
  BY <1>2 DEF Keeps
<1>4. /\ DOMAIN q = 1 .. Len(q) /\ Len(q) \in Nat /\ DOMAIN l = 1 .. Len(l) /\ Len(l) \in Nat
      /\ Len(q) = Cardinality(I)
  BY <1>1, <1>2 DEF Keeps
<1>5. Len(q) <= Len(l)
  <2>1. I \subseteq 1 .. Len(l)
    BY <1>4
  <2>. QED
    BY <1>4, <2>1, FewerPlaces
<1>6. \A k \in DOMAIN q : place[k] \in I /\ place[k] \in DOMAIN l /\ place[k] \in Nat /\ q[k] = l[place[k]]
  BY <1>3, <1>4
<1>7. \A j, k \in DOMAIN q : j < k => place[j] < place[k]
  BY <1>3, <1>4 DEF Increasing
<1>8. ASSUME NEW j \in DOMAIN q, NEW k \in DOMAIN q, j <= k PROVE q[j].at <= q[k].at
  <2>1. place[j] <= place[k]
    <3>1. CASE j = k
      BY <1>6, <3>1
    <3>2. CASE j # k
      <4>1. j < k
        BY <1>4, <1>8, <3>2
      <4>. QED
        BY <1>6, <1>7, <4>1
    <3>. QED
      BY <3>1, <3>2
  <2>. QED
    BY <1>6, <2>1 DEF Dated
<1>9. Dated(q, time, known)
  BY <1>2, <1>6, <1>8 DEF Dated
<1>10. ASSUME Apart(l), NEW j \in DOMAIN q, NEW k \in DOMAIN q, q[j].frame = q[k].frame
       PROVE  j = k
  <2>1. place[j] = place[k]
    BY <1>6, <1>10 DEF Apart
  <2>2. ~(place[j] < place[k]) /\ ~(place[k] < place[j])
    BY <1>6, <2>1
  <2>3. ~(j < k) /\ ~(k < j)
    BY <1>7, <2>2
  <2>. QED
    BY <1>4, <2>3
<1>11. \A i \in I : \E k \in DOMAIN q : q[k] = l[i]
  BY <1>3, <1>4
<1>12. Apart(l) => Apart(q)
  BY <1>10 DEF Apart
<1>13. \A k \in DOMAIN q : \E i \in I : q[k] = l[i]
  BY <1>6
<1>. QED
  BY <1>5, <1>9, <1>11, <1>12, <1>13 DEF q

LEMMA PurgeKeeps ==
  ASSUME StoreInv, Backlog!Purge
  PROVE  StoreInv'
<1> DEFINE l == lists[made]
           fresh == {i \in DOMAIN l : ~Backlog!Outdated(l[i], hour)}
           q == Backlog!Chosen(l, fresh)
           left == DOMAIN l \ fresh
<1>1. /\ made < MaxLists /\ made' = made + 1 /\ lists' = [lists EXCEPT ![made + 1] = q]
      /\ outdated' = outdated \cup {l[i].frame : i \in left}
      /\ interfered' = (interfered \/ Backlog!Active # {})
      /\ UNCHANGED <<hour, replaying, stored, replayed, evicted>>
  BY DEF Backlog!Purge, Backlog!Store, Backlog!Rebind
<1>2. Backlog!TypeOK /\ ListsInv
  BY DEF StoreInv
<1>3. /\ made \in 1 .. MaxLists /\ lists \in [1 .. MaxLists -> Seq(Backlog!Entry)]
      /\ MaxLists \in Nat /\ StoreCapacity \in Nat \ {0} /\ made \in 1 .. made
      /\ outdated \subseteq stored
  BY <1>2 DEF Backlog!TypeOK, StoreInv, Backlog!RelayStoreAssumption
<1>4. Dated(l, hour, stored) /\ Len(l) <= StoreCapacity
  BY <1>2, <1>3 DEF ListsInv
<1>5. fresh \in SUBSET DOMAIN l
  OBVIOUS
<1> HIDE DEF fresh
<1>6. /\ Dated(q, hour, stored) /\ Len(q) <= Len(l)
      /\ Apart(l) => Apart(q)
      /\ \A k \in DOMAIN q : \E i \in fresh : q[k] = l[i]
      /\ \A i \in fresh : \E k \in DOMAIN q : q[k] = l[i]
  BY <1>4, <1>5, ChosenOf
<1> HIDE DEF q, l
<1>7. /\ l \in Seq(Backlog!Entry) /\ Len(l) \in Nat /\ q \in Seq(Backlog!Entry) /\ Len(q) \in Nat
      /\ \A i \in DOMAIN l : l[i].frame \in stored
  BY <1>4, <1>6 DEF Dated
<1>8. lists'[made + 1] = q /\ \A i \in 1 .. made : lists'[i] = lists[i]
  BY <1>1, <1>3
<1>9. Backlog!Active' = Backlog!Active
  BY <1>1 DEF Backlog!Active
<1>10. ListsInv'
  <2>1. ASSUME NEW i \in 1 .. made'
        PROVE  Dated(lists'[i], hour, stored) /\ Len(lists'[i]) <= StoreCapacity
    <3>1. CASE i = made + 1
      <4>1. Len(q) <= StoreCapacity
        BY <1>3, <1>4, <1>6, <1>7
      <4>. QED
        BY <1>6, <1>8, <3>1, <4>1
    <3>2. CASE i # made + 1
      <4>1. i \in 1 .. made
        BY <1>1, <1>3, <3>2
      <4>. QED
        BY <1>2, <1>8, <4>1 DEF ListsInv
    <3>. QED
      BY <3>1, <3>2
  <2>2. ASSUME NEW r \in Backlog!Active
        PROVE  /\ replaying[r].list <= made'
               /\ Sending(lists'[replaying[r].list], replaying[r], hour, stored)
    <3>1. /\ replaying[r].list \in 1 .. made
          /\ Sending(lists[replaying[r].list], replaying[r], hour, stored)
      BY Underway DEF Backlog!Active
    <3>2. replaying[r].list <= made + 1
      BY <1>3, <3>1
    <3>. QED
      BY <1>1, <1>8, <3>1, <3>2
  <2>. QED
    BY <1>1, <1>9, <2>1, <2>2 DEF ListsInv
<1>11. ASSUME ~interfered' PROVE FramesInv'
  <2>1. FramesInv /\ Backlog!Active = {}
    BY <1>1, <1>11 DEF StoreInv
  <2>2. /\ Apart(l) /\ stored \subseteq Backlog!FramesOf(l) \cup replayed \cup evicted \cup outdated
        /\ Backlog!FramesOf(l) \cap replayed = {}
    BY <2>1 DEF FramesInv, l
  <2>3. Backlog!FramesOf(q) \subseteq Backlog!FramesOf(l)
    <3>1. ASSUME NEW k \in DOMAIN q PROVE q[k].frame \in Backlog!FramesOf(l)
      <4>1. PICK i \in fresh : q[k] = l[i]
        BY <1>6
      <4>. QED
        BY <1>5, <4>1 DEF Backlog!FramesOf
    <3>. QED
      BY <3>1 DEF Backlog!FramesOf
  <2>4. Backlog!FramesOf(l) \subseteq Backlog!FramesOf(q) \cup outdated'
    <3>1. ASSUME NEW i \in DOMAIN l PROVE l[i].frame \in Backlog!FramesOf(q) \cup outdated'
      <4>1. CASE i \in fresh
        <5>1. PICK k \in DOMAIN q : q[k] = l[i]
          BY <1>6, <4>1
        <5>. QED
          BY <5>1 DEF Backlog!FramesOf
      <4>2. CASE i \notin fresh
        BY <1>1, <4>2
      <4>. QED
        BY <4>1, <4>2
    <3>. QED
      BY <3>1 DEF Backlog!FramesOf
  <2>5. /\ stored' \subseteq Backlog!FramesOf(q) \cup replayed' \cup evicted' \cup outdated'
        /\ Backlog!FramesOf(q) \cap replayed' = {}
    BY <1>1, <2>2, <2>3, <2>4
  <2>6. lists'[made'] = q /\ Apart(q) /\ Backlog!Active' = {}
    BY <1>1, <1>6, <1>8, <1>9, <2>1, <2>2
  <2>. QED
    BY <2>5, <2>6 DEF FramesInv
<1>12. Backlog!TypeOK'
  <2>1. made' \in 1 .. MaxLists /\ lists' \in [1 .. MaxLists -> Seq(Backlog!Entry)]
    BY <1>1, <1>3, <1>7
  <2>2. outdated' \subseteq stored
    BY <1>1, <1>3, <1>7
  <2>3. interfered' \in BOOLEAN
    BY <1>1, <1>2 DEF Backlog!TypeOK
  <2>. QED
    BY <1>1, <1>2, <2>1, <2>2, <2>3 DEF Backlog!TypeOK
<1>. QED
  BY <1>10, <1>11, <1>12 DEF StoreInv, Backlog!RelayStoreAssumption, Backlog!IdleAssumption,
    Backlog!Replay, Backlog!Entry

LEMMA HourKeeps ==
  ASSUME StoreInv, Backlog!Tick
  PROVE  StoreInv'
<1>1. /\ hour < LastHour /\ hour' = hour + 1
      /\ UNCHANGED <<lists, made, replaying, stored, replayed, evicted, outdated, interfered>>
  BY DEF Backlog!Tick
<1>2. Backlog!TypeOK /\ ListsInv /\ hour \in 0 .. LastHour /\ LastHour \in Nat
  BY DEF StoreInv, Backlog!TypeOK, Backlog!RelayStoreAssumption
<1>3. hour \in Int /\ hour' \in Int /\ hour <= hour' /\ hour' \in 0 .. LastHour
  BY <1>1, <1>2
<1>4. Backlog!Active' = Backlog!Active
  BY <1>1 DEF Backlog!Active
<1>5. ListsInv'
  <2>1. ASSUME NEW i \in 1 .. made PROVE Dated(lists[i], hour', stored)
    BY <1>2, <1>3, DatedLater DEF ListsInv
  <2>2. ASSUME NEW r \in Backlog!Active
        PROVE  Sending(lists[replaying[r].list], replaying[r], hour', stored)
    BY <1>2, <1>3, SendingLater DEF ListsInv
  <2>. QED
    BY <1>1, <1>2, <1>4, <2>1, <2>2 DEF ListsInv
<1>6. ~interfered' => FramesInv'
  BY <1>1, <1>4 DEF StoreInv, FramesInv
<1>7. Backlog!TypeOK'
  BY <1>1, <1>2, <1>3 DEF Backlog!TypeOK
<1>. QED
  BY <1>5, <1>6, <1>7 DEF StoreInv, Backlog!RelayStoreAssumption, Backlog!IdleAssumption,
    Backlog!Replay, Backlog!Entry

LEMMA StoreInit ==
  ASSUME Backlog!RelayStoreAssumption, Backlog!IdleAssumption, Backlog!Init
  PROVE  StoreInv
<1>1. /\ hour = 0 /\ lists = [i \in 1 .. MaxLists |-> <<>>] /\ made = 1
      /\ replaying = [r \in Replays |-> NoReplay]
      /\ stored = {} /\ replayed = {} /\ evicted = {} /\ outdated = {} /\ interfered = FALSE
  BY DEF Backlog!Init
<1>2. MaxLists \in Nat \ {0} /\ LastHour \in Nat /\ StoreCapacity \in Nat \ {0}
  BY DEF Backlog!RelayStoreAssumption
<1>3. <<>> \in Seq(Backlog!Entry) /\ Len(<<>>) = 0 /\ DOMAIN <<>> = {}
  OBVIOUS
<1>4. Backlog!TypeOK
  <2>1. lists \in [1 .. MaxLists -> Seq(Backlog!Entry)]
    BY <1>1, <1>3
  <2>2. hour \in 0 .. LastHour /\ made \in 1 .. MaxLists
    BY <1>1, <1>2
  <2>. QED
    BY <1>1, <2>1, <2>2 DEF Backlog!TypeOK
<1>5. Backlog!Active = {}
  BY <1>1 DEF Backlog!Active
<1>6. \A i \in 1 .. made : lists[i] = <<>>
  BY <1>1, <1>2
<1>7. Dated(<<>>, hour, stored) /\ Len(<<>>) <= StoreCapacity
  BY <1>2, <1>3 DEF Dated
<1>8. ListsInv
  BY <1>5, <1>6, <1>7 DEF ListsInv
<1>9. FramesInv
  <2>1. lists[made] = <<>>
    BY <1>1, <1>2
  <2>. QED
    BY <1>1, <1>3, <1>5, <2>1 DEF FramesInv, Apart
<1>. QED
  BY <1>4, <1>8, <1>9 DEF StoreInv

LEMMA StoreInvariant ==
  Backlog!RelayStoreAssumption /\ Backlog!IdleAssumption /\ Backlog!Spec => []StoreInv
<1>1. Backlog!RelayStoreAssumption /\ Backlog!IdleAssumption /\ Backlog!Init => StoreInv
  BY StoreInit
<1>2. StoreInv /\ [Backlog!Next]_Backlog!vars => StoreInv'
  <2> SUFFICES ASSUME StoreInv, [Backlog!Next]_Backlog!vars PROVE StoreInv'
    OBVIOUS
  <2>1. ASSUME NEW f \in Frames, Backlog!StoreFrame(f) PROVE StoreInv'
    BY <2>1, StoreKeeps
  <2>2. ASSUME NEW r \in Replays, Backlog!StartReplay(r) PROVE StoreInv'
    BY <2>2, StartKeeps
  <2>3. ASSUME NEW r \in Replays, Backlog!SendSucceeds(r) PROVE StoreInv'
    BY <2>3, SucceedsKeeps
  <2>4. ASSUME NEW r \in Replays, Backlog!SendFails(r) PROVE StoreInv'
    BY <2>4, FailsKeeps
  <2>5. CASE Backlog!Purge
    BY <2>5, PurgeKeeps
  <2>6. CASE Backlog!Tick
    BY <2>6, HourKeeps
  <2>7. CASE UNCHANGED Backlog!vars
    <3>1. UNCHANGED <<hour, lists, made, replaying, stored, replayed, evicted, outdated, interfered>>
      BY <2>7 DEF Backlog!vars
    <3>2. Backlog!TypeOK' /\ Backlog!Active' = Backlog!Active
      BY <3>1 DEF StoreInv, Backlog!TypeOK, Backlog!Active
    <3>3. ListsInv' /\ (~interfered' => FramesInv')
      BY <3>1, <3>2 DEF StoreInv, ListsInv, FramesInv
    <3>. QED
      BY <3>2, <3>3 DEF StoreInv, Backlog!RelayStoreAssumption, Backlog!IdleAssumption,
        Backlog!Replay, Backlog!Entry
  <2>. QED
    BY <2>1, <2>2, <2>3, <2>4, <2>5, <2>6, <2>7 DEF Backlog!Next
<1>. QED
  BY <1>1, <1>2, PTL DEF Backlog!Spec

\* A long outage does not grow memory without bound, whatever overlaps: neither the
\* store nor what a replay has put aside exceeds the capacity (Router.store,
\* replay_store, purge_store).
THEOREM OutageStaysBounded ==
  Backlog!RelayStoreAssumption /\ Backlog!IdleAssumption /\ Backlog!Spec
    => [](Backlog!TypeOK /\ Backlog!StoreBounded)
<1>1. StoreInv => Backlog!TypeOK /\ Backlog!StoreBounded
  <2> SUFFICES ASSUME StoreInv PROVE Backlog!StoreBounded
    BY DEF StoreInv
  <2>1. /\ ListsInv /\ made \in 1 .. made /\ StoreCapacity \in Nat
        /\ replaying \in [Replays -> Backlog!Replay \cup {NoReplay}]
        /\ lists \in [1 .. MaxLists -> Seq(Backlog!Entry)]
        /\ made \in 1 .. MaxLists /\ MaxLists \in Nat
    BY DEF StoreInv, Backlog!TypeOK, Backlog!RelayStoreAssumption
  <2>2. Len(Backlog!Store) <= StoreCapacity
    BY <2>1 DEF ListsInv, Backlog!Store
  <2>3. ASSUME NEW r \in Backlog!Active PROVE Len(replaying[r].keep) <= StoreCapacity
    <3> DEFINE me == replaying[r]
               p == lists[me.list]
    <3>1. /\ me.list \in 1 .. made /\ me.next - 1 \in Nat \ {0}
          /\ p \in Seq(Backlog!Entry) /\ Sending(p, me, hour, stored)
      BY Underway DEF Backlog!Active
    <3>2. Len(p) <= StoreCapacity
      BY <2>1, <3>1 DEF ListsInv
    <3> HIDE DEF me, p
    <3>3. /\ me.next - 1 <= Len(p) /\ Len(me.keep) <= (me.next - 1) - 1
          /\ me.keep \in Seq(Backlog!Entry)
      BY <3>1 DEF Sending, Walk, Dated
    <3>4. Len(me.keep) \in Nat /\ Len(p) \in Nat
      BY <3>1, <3>3
    <3>5. Len(me.keep) <= StoreCapacity
      BY <2>1, <3>1, <3>2, <3>3, <3>4
    <3>. QED
      BY <3>5 DEF me
  <2>. QED
    BY <2>2, <2>3 DEF Backlog!StoreBounded
<1>. QED
  BY <1>1, StoreInvariant, PTL

\* The store stays in the order of storing, also when a replay puts back what it kept
\* while frames were stored or purged: at the capacity the oldest frame goes
\* (Router.store, replay_store).
THEOREM OldestGoesFirst ==
  Backlog!RelayStoreAssumption /\ Backlog!IdleAssumption /\ Backlog!Spec
    => []Backlog!OldestFirst
<1>1. StoreInv => Backlog!OldestFirst
  <2> SUFFICES ASSUME StoreInv PROVE Backlog!OldestFirst
    OBVIOUS
  <2>1. ListsInv /\ made \in 1 .. made
    BY DEF StoreInv, Backlog!TypeOK, Backlog!RelayStoreAssumption
  <2>. QED
    BY <2>1 DEF ListsInv, Dated, Backlog!OldestFirst, Backlog!Store
<1>. QED
  BY <1>1, StoreInvariant, PTL

\* As long as nothing takes a frame out of the list under a replay, every stored frame
\* is held or put aside, was sent, is too old or made room (replay_store).
THEOREM NothingIsForgotten ==
  Backlog!RelayStoreAssumption /\ Backlog!IdleAssumption /\ Backlog!Spec
    => []Backlog!Accounted
<1>1. StoreInv => Backlog!Accounted
  BY DEF StoreInv, FramesInv, Backlog!Accounted, Backlog!Store
<1>. QED
  BY <1>1, StoreInvariant, PTL

\* ... and no frame that was sent is kept to be sent again: none is put aside, and none
\* is in the store when the replay is over (replay_store).
THEOREM ReplayedIsGone ==
  Backlog!RelayStoreAssumption /\ Backlog!IdleAssumption /\ Backlog!Spec
    => []Backlog!SentIsNotHeld
<1>1. StoreInv => Backlog!SentIsNotHeld
  BY DEF StoreInv, FramesInv, Walked, Backlog!SentIsNotHeld, Backlog!Store, Backlog!FramesOf
<1>. QED
  BY <1>1, StoreInvariant, PTL

-----------------------------------------------------------------------------
(* How start() configures a RYLR module: a refusal in the port or in the   *)
(* buffer is that of a command written before, and as long as the module   *)
(* answers in time, the port and the buffer hold the answer to the one     *)
(* command under way.                                                      *)

RefusalIn(pieces) == \E i \in DOMAIN pieces : pieces[i][1] = "+ERR"

Verdict == Dialogue!LineOf(IF command \in refuses THEN "+ERR" ELSE "+OK")

\* While the module answers in time and hears nothing, its answer is that to the
\* one command under way, and every command before was accepted.
InStep ==
  /\ \A c \in refuses : command <= c
  /\ phase = "writes" => toAnswer = <<>> /\ port = <<>>
  /\ phase = "reads" => \/ toAnswer = <<command>> /\ port = <<>> /\ buf = <<>>
                        \/ toAnswer = <<>> /\ buf \o port = Verdict
  /\ phase = "configured" => refuses = {}
  /\ phase = "raised" => command \in refuses

DialogueInv ==
  /\ Dialogue!AtAssumption /\ Dialogue!TypeOK
  /\ \A i \in DOMAIN toAnswer : toAnswer[i] <= command
  /\ RefusalIn(port) \/ RefusalIn(buf) \/ phase = "raised" => \E c \in refuses : c <= command
  /\ ~late /\ heard = 0 => InStep

\* A line, and what it holds.
LEMMA LineIs ==
  ASSUME NEW k \in Dialogue!Kinds
  PROVE  LET l == Dialogue!LineOf(k)
         IN  /\ l \in Seq(Dialogue!Piece) /\ Len(l) = 2
             /\ l[1] = <<k, "head">> /\ l[2] = <<k, "tail">>
BY DEF Dialogue!LineOf, Dialogue!Piece

\* What is put behind the port.
LEMMA PortGrows ==
  ASSUME NEW p \in Seq(Dialogue!Piece), NEW k \in Dialogue!Kinds
  PROVE  /\ p \o Dialogue!LineOf(k) \in Seq(Dialogue!Piece)
         /\ RefusalIn(p \o Dialogue!LineOf(k)) => RefusalIn(p) \/ k = "+ERR"
<1> DEFINE l == Dialogue!LineOf(k)
           q == p \o l
<1>1. l \in Seq(Dialogue!Piece) /\ Len(l) = 2 /\ l[1][1] = k /\ l[2][1] = k
  BY LineIs
<1> HIDE DEF l
<1>2. /\ q \in Seq(Dialogue!Piece) /\ Len(q) = Len(p) + 2
      /\ \A i \in 1 .. Len(q) : q[i] = IF i <= Len(p) THEN p[i] ELSE l[i - Len(p)]
  <2>1. /\ p \o l \in Seq(Dialogue!Piece)
        /\ Len(p \o l) = Len(p) + Len(l)
        /\ \A i \in 1 .. Len(p) + Len(l) :
             (p \o l)[i] = IF i <= Len(p) THEN p[i] ELSE l[i - Len(p)]
    BY <1>1, ConcatProperties
  <2>. QED
    BY <1>1, <2>1
<1> HIDE DEF q
<1>3. ASSUME NEW i \in DOMAIN q, q[i][1] = "+ERR"
      PROVE  RefusalIn(p) \/ k = "+ERR"
  <2>1. i \in 1 .. Len(p) + 2 /\ Len(p) \in Nat
    BY <1>2
  <2>2. CASE i <= Len(p)
    <3>1. i \in DOMAIN p /\ p[i][1] = "+ERR"
      BY <1>2, <1>3, <2>1, <2>2
    <3>. QED
      BY <3>1 DEF RefusalIn
  <2>3. CASE ~(i <= Len(p))
    <3>1. i - Len(p) = 1 \/ i - Len(p) = 2
      BY <2>1, <2>3
    <3>2. q[i] = l[i - Len(p)]
      BY <1>2, <2>1, <2>3
    <3>. QED
      BY <1>1, <1>3, <3>1, <3>2
  <2>. QED
    BY <2>2, <2>3
<1>. QED
  BY <1>2, <1>3 DEF q, RefusalIn, l

\* What a read moves from the port to what _at collected.
LEMMA ChunkMoves ==
  ASSUME NEW b \in Seq(Dialogue!Piece), NEW p \in Seq(Dialogue!Piece), NEW n \in 1 .. Len(p)
  PROVE  LET c == b \o SubSeq(p, 1, n)
             r == SubSeq(p, n + 1, Len(p))
         IN  /\ c \in Seq(Dialogue!Piece) /\ r \in Seq(Dialogue!Piece)
             /\ c \o r = b \o p /\ c # <<>>
             /\ RefusalIn(c) \/ RefusalIn(r) => RefusalIn(b) \/ RefusalIn(p)
<1> DEFINE f == SubSeq(p, 1, n)
           r == SubSeq(p, n + 1, Len(p))
           c == b \o f
<1>1. Len(p) \in Nat /\ n \in Nat /\ 1 <= n /\ n <= Len(p)
  OBVIOUS
<1>2. /\ f \in Seq(Dialogue!Piece) /\ r \in Seq(Dialogue!Piece)
      /\ Len(f) = n /\ Len(r) = Len(p) - n
      /\ \A i \in 1 .. n : f[i] = p[i]
      /\ \A i \in 1 .. Len(p) - n : r[i] = p[n + i]
  <2>1. f \in Seq(Dialogue!Piece) /\ Len(f) = n /\ \A i \in 1 .. n : f[i] = p[i]
    BY <1>1
  <2>2. r \in Seq(Dialogue!Piece) /\ Len(r) = Len(p) - n
    BY <1>1
  <2>3. \A i \in 1 .. Len(p) - n : r[i] = p[n + i]
    BY <1>1
  <2>. QED
    BY <2>1, <2>2, <2>3
<1>3. f \o r = p
  <2>1. f \o r = SubSeq(p, 1, Len(p))
    BY <1>1, ConcatAdjacentSubSeq
  <2>. QED
    BY <2>1, SubSeqFull
<1> HIDE DEF f, r
<1>4. c \o r = b \o p
  <2>1. f \in Seq(Dialogue!Piece) /\ r \in Seq(Dialogue!Piece)
    BY <1>2
  <2>2. (b \o f) \o r = b \o (f \o r)
    <3> DEFINE S == Dialogue!Piece
    <3>1. b \in Seq(S) /\ f \in Seq(S) /\ r \in Seq(S)
      BY <2>1
    <3> HIDE DEF S
    <3>. QED
      BY <3>1, ConcatAssociative, SMTT(30)
  <2>. QED
    BY <1>3, <2>2
<1>5. /\ c \in Seq(Dialogue!Piece) /\ Len(c) = Len(b) + n /\ Len(b) \in Nat
      /\ \A i \in 1 .. Len(c) : c[i] = IF i <= Len(b) THEN b[i] ELSE f[i - Len(b)]
  <2>1. /\ b \o f \in Seq(Dialogue!Piece)
        /\ Len(b \o f) = Len(b) + Len(f)
        /\ \A i \in 1 .. Len(b) + Len(f) :
             (b \o f)[i] = IF i <= Len(b) THEN b[i] ELSE f[i - Len(b)]
    BY <1>2, ConcatProperties
  <2>. QED
    BY <1>2, <2>1
<1>6. c # <<>>
  BY <1>1, <1>5
<1> HIDE DEF c
<1>7. ASSUME NEW i \in DOMAIN c, c[i][1] = "+ERR" PROVE RefusalIn(b) \/ RefusalIn(p)
  <2>1. i \in 1 .. Len(b) + n
    BY <1>5
  <2>2. CASE i <= Len(b)
    <3>1. i \in DOMAIN b /\ c[i] = b[i]
      BY <1>5, <2>1, <2>2
    <3>. QED
      BY <1>7, <3>1 DEF RefusalIn
  <2>3. CASE ~(i <= Len(b))
    <3>1. i - Len(b) \in 1 .. n /\ c[i] = f[i - Len(b)]
      BY <1>1, <1>5, <2>1, <2>3
    <3>2. i - Len(b) \in DOMAIN p /\ c[i] = p[i - Len(b)]
      BY <1>1, <1>2, <3>1
    <3>. QED
      BY <1>7, <3>2 DEF RefusalIn
  <2>. QED
    BY <2>2, <2>3
<1>8. ASSUME NEW i \in DOMAIN r, r[i][1] = "+ERR" PROVE RefusalIn(p)
  <2>1. i \in 1 .. Len(p) - n
    BY <1>2
  <2>2. n + i \in DOMAIN p /\ r[i] = p[n + i]
    BY <1>1, <1>2, <2>1
  <2>. QED
    BY <1>8, <2>2 DEF RefusalIn
<1>9. /\ c \in Seq(Dialogue!Piece) /\ r \in Seq(Dialogue!Piece) /\ c \o r = b \o p /\ c # <<>>
      /\ RefusalIn(c) \/ RefusalIn(r) => RefusalIn(b) \/ RefusalIn(p)
  <2>1. RefusalIn(c) \/ RefusalIn(r) => RefusalIn(b) \/ RefusalIn(p)
    BY <1>7, <1>8 DEF RefusalIn
  <2>. QED
    BY <1>2, <1>4, <1>5, <1>6, <2>1
<1>. QED
  BY <1>9 DEF c, f, r

\* The first refusal ends the loop.
LEMMA GoesIs ==
  ASSUME NEW reply, Dialogue!AtAssumption, command \in 1 .. Commands, Dialogue!Goes(reply)
  PROVE  \/ /\ phase' = "raised" /\ command' = command
            /\ reply # <<>> /\ reply[1] = <<"+ERR", "head">>
         \/ /\ phase' = "configured" /\ command' = command /\ command = Commands
            /\ reply = <<>> \/ reply[1] # <<"+ERR", "head">>
         \/ /\ phase' = "writes" /\ command' = command + 1 /\ command < Commands
            /\ reply = <<>> \/ reply[1] # <<"+ERR", "head">>
<1>1. command \in Nat /\ Commands \in Nat /\ command <= Commands
  BY DEF Dialogue!AtAssumption
<1>2. Head(reply) = reply[1]
  OBVIOUS
<1>. QED
  BY <1>1, <1>2 DEF Dialogue!Goes

\* What follows from a reply for the numbers of the commands.
LEMMA GoesKeeps ==
  ASSUME DialogueInv, NEW reply, phase = "reads", Dialogue!Goes(reply),
         reply # <<>> /\ reply[1] = <<"+ERR", "head">> => \E c \in refuses : c <= command,
         refuses' = refuses, toAnswer' = toAnswer
  PROVE  /\ command' \in 1 .. Commands /\ phase' \in {"writes", "configured", "raised"}
         /\ \A i \in DOMAIN toAnswer' : toAnswer'[i] <= command'
         /\ \A c \in refuses : c <= command => c <= command'
         /\ phase' = "raised" => \E c \in refuses' : c <= command'
<1>1. /\ command \in 1 .. Commands /\ Commands \in Nat /\ refuses \subseteq 1 .. Commands
      /\ toAnswer \in Seq(1 .. Commands) /\ Dialogue!AtAssumption
  BY DEF DialogueInv, Dialogue!TypeOK, Dialogue!AtAssumption
<1>2. \A i \in DOMAIN toAnswer : toAnswer[i] \in Nat /\ toAnswer[i] <= command
  BY <1>1 DEF DialogueInv
<1>3. \A c \in refuses : c \in Nat
  BY <1>1
<1>4. \/ phase' = "raised" /\ command' = command /\ \E c \in refuses : c <= command
      \/ phase' = "configured" /\ command' = command
      \/ phase' = "writes" /\ command' = command + 1 /\ command < Commands
  BY <1>1, GoesIs
<1>5. CASE command' = command /\ phase' # "writes"
  BY <1>1, <1>2, <1>4, <1>5
<1>6. CASE phase' = "writes" /\ command' = command + 1 /\ command < Commands
  <2>1. command' \in 1 .. Commands
    BY <1>1, <1>6
  <2>2. \A i \in DOMAIN toAnswer' : toAnswer'[i] <= command'
    BY <1>1, <1>2, <1>6
  <2>3. \A c \in refuses : c <= command => c <= command'
    BY <1>1, <1>3, <1>6
  <2>. QED
    BY <1>6, <2>1, <2>2, <2>3
<1>. QED
  BY <1>4, <1>5, <1>6

LEMMA AnswerKeeps ==
  ASSUME DialogueInv, Dialogue!Answer
  PROVE  DialogueInv'
<1> DEFINE k == IF Head(toAnswer) \in refuses THEN "+ERR" ELSE "+OK"
<1>1. /\ toAnswer # <<>> /\ port' = port \o Dialogue!LineOf(k) /\ toAnswer' = Tail(toAnswer)
      /\ UNCHANGED <<refuses, command, phase, buf, late, heard>>
  BY DEF Dialogue!Answer
<1>2. /\ refuses \subseteq 1 .. Commands /\ command \in 1 .. Commands /\ Commands \in Nat
      /\ toAnswer \in Seq(1 .. Commands) /\ port \in Seq(Dialogue!Piece)
  BY DEF DialogueInv, Dialogue!TypeOK, Dialogue!AtAssumption
<1>3. k \in Dialogue!Kinds
  BY DEF Dialogue!Kinds
<1>4. Head(toAnswer) = toAnswer[1] /\ 1 \in DOMAIN toAnswer /\ toAnswer[1] <= command
  BY <1>1, <1>2 DEF DialogueInv
<1>5. k = "+ERR" => \E c \in refuses : c <= command
  BY <1>4
<1>6. /\ Tail(toAnswer) \in Seq(1 .. Commands)
      /\ \A i \in DOMAIN Tail(toAnswer) : Tail(toAnswer)[i] <= command
  <2>1. /\ Tail(toAnswer) \in Seq(1 .. Commands)
        /\ \A i \in DOMAIN Tail(toAnswer) : i + 1 \in DOMAIN toAnswer
                                            /\ Tail(toAnswer)[i] = toAnswer[i + 1]
    BY <1>1, <1>2
  <2>. QED
    BY <2>1 DEF DialogueInv
<1>7. ASSUME ~late, heard = 0, InStep PROVE InStep'
  <2>1. phase # "writes"
    BY <1>1, <1>7 DEF InStep
  <2>2. CASE phase = "reads"
    <3>1. toAnswer = <<command>> /\ port = <<>> /\ buf = <<>>
      BY <1>1, <1>7, <2>2 DEF InStep
    <3>2. toAnswer' = <<>> /\ Head(toAnswer) = command
      BY <1>1, <3>1
    <3>3. port' = Verdict
      <4>1. port' = <<>> \o Dialogue!LineOf(k) /\ Dialogue!LineOf(k) \in Seq(Dialogue!Piece)
        BY <1>1, <1>3, <3>1, LineIs
      <4>2. port' = Dialogue!LineOf(k)
        BY <4>1, ConcatEmptySeq
      <4>. QED
        BY <3>2, <4>2 DEF Verdict
    <3>4. buf' \o port' = Verdict
      <4>1. Verdict \in Seq(Dialogue!Piece)
        BY <1>3, <3>2, LineIs DEF Verdict
      <4>. QED
        BY <1>1, <3>1, <3>3, <4>1, ConcatEmptySeq
    <3>5. Verdict' = Verdict
      BY <1>1 DEF Verdict, Dialogue!LineOf
    <3>. QED
      BY <1>1, <1>7, <2>2, <3>2, <3>4, <3>5 DEF InStep
  <2>3. CASE phase # "reads"
    BY <1>1, <1>7, <2>1, <2>3 DEF InStep
  <2>. QED
    BY <2>2, <2>3
<1> HIDE DEF k
<1>8. port' \in Seq(Dialogue!Piece) /\ (RefusalIn(port') => RefusalIn(port) \/ k = "+ERR")
  BY <1>1, <1>2, <1>3, PortGrows
<1>9. Dialogue!TypeOK' /\ Dialogue!AtAssumption'
  BY <1>1, <1>6, <1>8 DEF DialogueInv, Dialogue!TypeOK, Dialogue!AtAssumption
<1>10. RefusalIn(port') \/ RefusalIn(buf') \/ phase' = "raised" => \E c \in refuses' : c <= command'
  BY <1>1, <1>5, <1>8 DEF DialogueInv
<1>11. \A i \in DOMAIN toAnswer' : toAnswer'[i] <= command'
  BY <1>1, <1>6
<1>12. ~late' /\ heard' = 0 => InStep'
  BY <1>1, <1>7 DEF DialogueInv
<1>. QED
  BY <1>9, <1>10, <1>11, <1>12 DEF DialogueInv, RefusalIn

LEMMA HearKeeps ==
  ASSUME DialogueInv, Dialogue!Hear
  PROVE  DialogueInv'
<1>1. /\ heard < MaxHeard /\ port' = port \o Dialogue!LineOf("+RCV") /\ heard' = heard + 1
      /\ UNCHANGED <<refuses, command, phase, toAnswer, buf, late>>
  BY DEF Dialogue!Hear
<1>2. port \in Seq(Dialogue!Piece) /\ heard \in 0 .. MaxHeard /\ MaxHeard \in Nat
  BY DEF DialogueInv, Dialogue!TypeOK, Dialogue!AtAssumption
<1>3. port' \in Seq(Dialogue!Piece) /\ (RefusalIn(port') => RefusalIn(port))
  <2>1. "+RCV" \in Dialogue!Kinds /\ "+RCV" # "+ERR"
    BY DEF Dialogue!Kinds
  <2>. QED
    BY <1>1, <1>2, <2>1, PortGrows
<1>4. heard' \in 0 .. MaxHeard /\ heard' # 0
  BY <1>1, <1>2
<1>5. Dialogue!TypeOK' /\ Dialogue!AtAssumption'
  BY <1>1, <1>3, <1>4 DEF DialogueInv, Dialogue!TypeOK, Dialogue!AtAssumption
<1>6. RefusalIn(port') \/ RefusalIn(buf') \/ phase' = "raised" => \E c \in refuses' : c <= command'
  BY <1>1, <1>3 DEF DialogueInv
<1>7. \A i \in DOMAIN toAnswer' : toAnswer'[i] <= command'
  BY <1>1 DEF DialogueInv
<1>. QED
  BY <1>4, <1>5, <1>6, <1>7 DEF DialogueInv, RefusalIn

LEMMA WriteKeeps ==
  ASSUME DialogueInv, Dialogue!WriteCommand
  PROVE  DialogueInv'
<1>1. /\ phase = "writes" /\ toAnswer' = Append(toAnswer, command) /\ buf' = <<>>
      /\ phase' = "reads" /\ UNCHANGED <<refuses, command, port, late, heard>>
  BY DEF Dialogue!WriteCommand
<1>2. /\ command \in 1 .. Commands /\ Commands \in Nat /\ toAnswer \in Seq(1 .. Commands)
      /\ port \in Seq(Dialogue!Piece)
  BY DEF DialogueInv, Dialogue!TypeOK, Dialogue!AtAssumption
<1>3. /\ toAnswer' \in Seq(1 .. Commands)
      /\ \A i \in DOMAIN toAnswer' : toAnswer'[i] <= command'
  <2>1. toAnswer' \in Seq(1 .. Commands) /\ Len(toAnswer') = Len(toAnswer) + 1
    BY <1>1, <1>2
  <2>2. ASSUME NEW i \in DOMAIN toAnswer' PROVE toAnswer'[i] <= command
    <3>1. i \in 1 .. Len(toAnswer) \/ i = Len(toAnswer) + 1
      BY <1>2, <2>1
    <3>2. CASE i \in 1 .. Len(toAnswer)
      <4>1. toAnswer'[i] = toAnswer[i] /\ i \in DOMAIN toAnswer
        BY <1>1, <1>2, <3>2
      <4>. QED
        BY <4>1 DEF DialogueInv
    <3>3. CASE i = Len(toAnswer) + 1
      <4>1. toAnswer'[i] = command
        BY <1>1, <1>2, <3>3
      <4>. QED
        BY <1>2, <4>1
    <3>. QED
      BY <3>1, <3>2, <3>3
  <2>. QED
    BY <1>1, <2>1, <2>2
<1>4. buf' \in Seq(Dialogue!Piece) /\ DOMAIN buf' = {}
  BY <1>1
<1>5. Dialogue!TypeOK' /\ Dialogue!AtAssumption'
  BY <1>1, <1>3, <1>4 DEF DialogueInv, Dialogue!TypeOK, Dialogue!AtAssumption
<1>6. RefusalIn(port') \/ RefusalIn(buf') \/ phase' = "raised" => \E c \in refuses' : c <= command'
  BY <1>1, <1>4 DEF DialogueInv, RefusalIn
<1>7. ASSUME InStep PROVE InStep'
  <2>1. toAnswer' = <<command>> /\ port' = <<>> /\ buf' = <<>>
    BY <1>1, <1>7 DEF InStep
  <2>. QED
    BY <1>1, <1>7, <2>1 DEF InStep
<1>. QED
  BY <1>1, <1>3, <1>5, <1>6, <1>7 DEF DialogueInv, RefusalIn

\* What was collected of an answer is its first piece, or all of it.
LEMMA Collected ==
  ASSUME NEW k \in Dialogue!Kinds, NEW c \in Seq(Dialogue!Piece), NEW r \in Seq(Dialogue!Piece),
         c # <<>>, c \o r = Dialogue!LineOf(k), Dialogue!HasLine(c)
  PROVE  c[1] = <<k, "head">> /\ r = <<>>
<1> DEFINE l == Dialogue!LineOf(k)
<1>1. l \in Seq(Dialogue!Piece) /\ Len(l) = 2 /\ l[1] = <<k, "head">> /\ l[2] = <<k, "tail">>
  BY LineIs
<1> HIDE DEF l
<1>2. Len(c) \in Nat /\ Len(r) \in Nat /\ Len(c) # 0
  OBVIOUS
<1>3. c \o r = l
  BY DEF l
<1>4. /\ Len(c) + Len(r) = 2
      /\ \A i \in 1 .. Len(c) + Len(r) : l[i] = IF i <= Len(c) THEN c[i] ELSE r[i - Len(c)]
  BY <1>1, <1>3, ConcatProperties
<1>5. \A i \in 1 .. Len(c) : c[i] = l[i]
  BY <1>2, <1>4
<1>6. PICK i \in 1 .. Len(c) : c[i][2] = "tail"
  BY DEF Dialogue!HasLine
<1>7. i = 1 \/ i = 2
  BY <1>2, <1>4
<1>8. i = 2
  BY <1>1, <1>5, <1>6, <1>7
<1>9. Len(r) = 0
  BY <1>2, <1>4, <1>8
<1>10. c[1] = <<k, "head">>
  BY <1>1, <1>2, <1>5
<1>. QED
  BY <1>9, <1>10

\* What remains to be said of a read once Goes was.
LEMMA ReadKeeps ==
  ASSUME DialogueInv, Dialogue!ReadChunk
  PROVE  DialogueInv'
<1>1. phase = "reads" /\ UNCHANGED <<refuses, toAnswer, heard, late>>
  BY DEF Dialogue!ReadChunk, Dialogue!module
<1>2. PICK n \in 1 .. Len(port) : /\ buf' = buf \o SubSeq(port, 1, n)
                                  /\ port' = SubSeq(port, n + 1, Len(port))
  BY DEF Dialogue!ReadChunk
<1>3. IF Dialogue!HasLine(buf') THEN Dialogue!Goes(buf') ELSE UNCHANGED <<phase, command>>
  BY DEF Dialogue!ReadChunk
<1>4. /\ command \in 1 .. Commands /\ Commands \in Nat /\ refuses \subseteq 1 .. Commands
      /\ buf \in Seq(Dialogue!Piece) /\ port \in Seq(Dialogue!Piece) /\ Dialogue!AtAssumption
  BY DEF DialogueInv, Dialogue!TypeOK, Dialogue!AtAssumption
<1>5. /\ buf' \in Seq(Dialogue!Piece) /\ port' \in Seq(Dialogue!Piece)
      /\ buf' \o port' = buf \o port /\ buf' # <<>>
      /\ RefusalIn(buf') \/ RefusalIn(port') => RefusalIn(buf) \/ RefusalIn(port)
  BY <1>2, <1>4, ChunkMoves
<1>6. RefusalIn(buf') \/ RefusalIn(port') => \E c \in refuses : c <= command
  BY <1>5 DEF DialogueInv
<1>7. buf' # <<>> /\ buf'[1] = <<"+ERR", "head">> => \E c \in refuses : c <= command
  <2>1. buf'[1] = <<"+ERR", "head">> => RefusalIn(buf')
    <3>1. 1 \in DOMAIN buf'
      BY <1>5
    <3>. QED
      BY <3>1 DEF RefusalIn
  <2>. QED
    BY <1>6, <2>1
<1>8. CASE Dialogue!HasLine(buf')
  <2>1. Dialogue!Goes(buf')
    BY <1>3, <1>8
  <2>2. /\ command' \in 1 .. Commands /\ phase' \in {"writes", "configured", "raised"}
        /\ \A i \in DOMAIN toAnswer' : toAnswer'[i] <= command'
        /\ \A c \in refuses : c <= command => c <= command'
        /\ phase' = "raised" => \E c \in refuses' : c <= command'
    BY <1>1, <1>7, <2>1, GoesKeeps
  <2>3. ASSUME InStep, ~late, heard = 0 PROVE InStep'
    <3> DEFINE k == IF command \in refuses THEN "+ERR" ELSE "+OK"
    <3>1. k \in Dialogue!Kinds /\ Verdict = Dialogue!LineOf(k)
      BY DEF Verdict, Dialogue!Kinds
    <3>2. port # <<>>
      BY <1>2, <1>4
    <3>3. toAnswer = <<>> /\ buf \o port = Dialogue!LineOf(k)
      BY <1>1, <2>3, <3>1, <3>2 DEF InStep
    <3> HIDE DEF k
    <3>4. buf'[1] = <<k, "head">> /\ port' = <<>>
      BY <1>5, <1>8, <3>1, <3>3, Collected
    <3>5. \A c \in refuses : command <= c /\ c \in 1 .. Commands
      BY <1>4, <2>3 DEF InStep
    <3>6. \/ /\ phase' = "raised" /\ command' = command
             /\ buf' # <<>> /\ buf'[1] = <<"+ERR", "head">>
          \/ /\ phase' = "configured" /\ command' = command /\ command = Commands
             /\ buf' = <<>> \/ buf'[1] # <<"+ERR", "head">>
          \/ /\ phase' = "writes" /\ command' = command + 1 /\ command < Commands
             /\ buf' = <<>> \/ buf'[1] # <<"+ERR", "head">>
      BY <1>4, <2>1, GoesIs
    <3>7. CASE phase' = "raised" /\ command' = command /\ buf'[1] = <<"+ERR", "head">>
      <4>1. k = "+ERR"
        BY <3>4, <3>7
      <4>2. command \in refuses
        BY <4>1 DEF k
      <4>. QED
        BY <1>1, <3>5, <3>7, <4>2 DEF InStep
    <3>8. CASE buf'[1] # <<"+ERR", "head">>
      <4>1. command \notin refuses
        BY <3>4, <3>8 DEF k
      <4>2. CASE phase' = "configured" /\ command' = command /\ command = Commands
        <5>1. refuses = {}
          <6>1. ASSUME NEW c \in refuses PROVE FALSE
            BY <1>4, <3>5, <4>1, <4>2
          <6>. QED
            BY <6>1
        <5>. QED
          BY <1>1, <4>2, <5>1 DEF InStep
      <4>3. CASE phase' = "writes" /\ command' = command + 1
        <5>1. \A c \in refuses : command + 1 <= c
          <6> SUFFICES ASSUME NEW c \in refuses PROVE command + 1 <= c
            OBVIOUS
          <6>1. c \in Nat /\ command <= c /\ c # command /\ command \in Nat
            BY <1>4, <3>5, <4>1
          <6>. QED
            BY <6>1
        <5>. QED
          BY <1>1, <3>3, <3>4, <4>3, <5>1 DEF InStep
      <4>. QED
        BY <1>5, <3>6, <3>8, <4>2, <4>3
    <3>. QED
      BY <1>5, <3>6, <3>7, <3>8
  <2>4. Dialogue!TypeOK' /\ Dialogue!AtAssumption'
    BY <1>1, <1>5, <2>2 DEF DialogueInv, Dialogue!TypeOK, Dialogue!AtAssumption
  <2>5. RefusalIn(port') \/ RefusalIn(buf') \/ phase' = "raised" => \E c \in refuses' : c <= command'
    BY <1>1, <1>6, <2>2
  <2>. QED
    BY <1>1, <2>2, <2>3, <2>4, <2>5 DEF DialogueInv, RefusalIn
<1>9. CASE ~Dialogue!HasLine(buf')
  <2>1. UNCHANGED <<phase, command>>
    BY <1>3, <1>9
  <2>2. \A i \in DOMAIN buf' : buf'[i][2] = "head"
    <3> SUFFICES ASSUME NEW i \in DOMAIN buf' PROVE buf'[i][2] = "head"
      OBVIOUS
    <3>1. buf'[i] \in Dialogue!Piece
      BY <1>5
    <3>2. buf'[i][2] \in {"head", "tail"}
      BY <3>1 DEF Dialogue!Piece
    <3>. QED
      BY <1>9, <3>2 DEF Dialogue!HasLine
  <2>3. Dialogue!TypeOK' /\ Dialogue!AtAssumption'
    BY <1>1, <1>5, <2>1, <2>2 DEF DialogueInv, Dialogue!TypeOK, Dialogue!AtAssumption
  <2>4. RefusalIn(port') \/ RefusalIn(buf') \/ phase' = "raised" => \E c \in refuses' : c <= command'
    BY <1>1, <1>6, <2>1
  <2>5. ASSUME InStep PROVE InStep'
    <3>1. port # <<>>
      BY <1>2, <1>4
    <3>2. toAnswer = <<>> /\ buf \o port = Verdict
      BY <1>1, <2>5, <3>1 DEF InStep
    <3>3. Verdict' = Verdict
      BY <1>1, <2>1 DEF Verdict, Dialogue!LineOf
    <3>. QED
      BY <1>1, <1>5, <2>1, <2>5, <3>2, <3>3 DEF InStep
  <2>6. \A i \in DOMAIN toAnswer' : toAnswer'[i] <= command'
    BY <1>1, <2>1 DEF DialogueInv
  <2>. QED
    BY <1>1, <2>3, <2>4, <2>5, <2>6 DEF DialogueInv, RefusalIn
<1>. QED
  BY <1>8, <1>9

LEMMA DeadlineKeeps ==
  ASSUME DialogueInv, Dialogue!Deadline
  PROVE  DialogueInv'
<1>1. /\ phase = "reads" /\ buf' = <<>> /\ late' = TRUE /\ Dialogue!Goes(<<>>)
      /\ UNCHANGED <<refuses, toAnswer, heard, port>>
  BY DEF Dialogue!Deadline, Dialogue!module
<1>2. /\ command' \in 1 .. Commands /\ phase' \in {"writes", "configured", "raised"}
      /\ \A i \in DOMAIN toAnswer' : toAnswer'[i] <= command'
      /\ \A c \in refuses : c <= command => c <= command'
      /\ phase' = "raised" => \E c \in refuses' : c <= command'
  BY <1>1, GoesKeeps
<1>3. buf' \in Seq(Dialogue!Piece) /\ DOMAIN buf' = {}
  BY <1>1
<1>4. Dialogue!TypeOK' /\ Dialogue!AtAssumption'
  BY <1>1, <1>2, <1>3 DEF DialogueInv, Dialogue!TypeOK, Dialogue!AtAssumption
<1>5. RefusalIn(port') \/ RefusalIn(buf') \/ phase' = "raised" => \E c \in refuses' : c <= command'
  BY <1>1, <1>2, <1>3 DEF DialogueInv, RefusalIn
<1>. QED
  BY <1>1, <1>2, <1>4, <1>5 DEF DialogueInv, RefusalIn

LEMMA DialogueInvariant == Dialogue!AtAssumption /\ Dialogue!Spec => []DialogueInv
<1>1. Dialogue!AtAssumption /\ Dialogue!Init => DialogueInv
  <2> SUFFICES ASSUME Dialogue!AtAssumption, Dialogue!Init PROVE DialogueInv
    OBVIOUS
  <2>1. /\ refuses \subseteq 1 .. Commands /\ command = 1 /\ phase = "writes" /\ toAnswer = <<>>
        /\ port = <<>> /\ buf = <<>> /\ late = FALSE /\ heard = 0
        /\ Commands \in Nat \ {0} /\ MaxHeard \in Nat
    BY DEF Dialogue!Init, Dialogue!AtAssumption
  <2>2. /\ toAnswer \in Seq(1 .. Commands) /\ port \in Seq(Dialogue!Piece)
        /\ buf \in Seq(Dialogue!Piece) /\ DOMAIN toAnswer = {} /\ DOMAIN port = {} /\ DOMAIN buf = {}
    <3>1. toAnswer \in Seq(1 .. Commands) /\ DOMAIN toAnswer = {}
      BY <2>1
    <3>2. port \in Seq(Dialogue!Piece) /\ DOMAIN port = {}
      BY <2>1
    <3>3. buf \in Seq(Dialogue!Piece) /\ DOMAIN buf = {}
      BY <2>1
    <3>. QED
      BY <3>1, <3>2, <3>3
  <2>3. Dialogue!TypeOK
    <3>1. 1 \in 1 .. Commands /\ 0 \in 0 .. MaxHeard
      BY <2>1
    <3>. QED
      BY <2>1, <2>2, <3>1 DEF Dialogue!TypeOK
  <2>4. InStep
    BY <2>1 DEF InStep
  <2>. QED
    BY <2>1, <2>2, <2>3, <2>4 DEF DialogueInv, RefusalIn
<1>2. DialogueInv /\ [Dialogue!Next]_Dialogue!vars => DialogueInv'
  <2> SUFFICES ASSUME DialogueInv, [Dialogue!Next]_Dialogue!vars PROVE DialogueInv'
    OBVIOUS
  <2>1. CASE Dialogue!Answer
    BY <2>1, AnswerKeeps
  <2>2. CASE Dialogue!Hear
    BY <2>2, HearKeeps
  <2>3. CASE Dialogue!WriteCommand
    BY <2>3, WriteKeeps
  <2>4. CASE Dialogue!ReadChunk
    BY <2>4, ReadKeeps
  <2>5. CASE Dialogue!Deadline
    BY <2>5, DeadlineKeeps
  <2>6. CASE UNCHANGED Dialogue!vars
    <3>1. UNCHANGED <<refuses, command, phase, toAnswer, port, buf, late, heard>>
      BY <2>6 DEF Dialogue!vars
    <3>2. Dialogue!TypeOK' /\ Dialogue!AtAssumption'
      BY <3>1 DEF DialogueInv, Dialogue!TypeOK, Dialogue!AtAssumption
    <3>3. InStep' <=> InStep
      BY <3>1 DEF InStep, Verdict, Dialogue!LineOf
    <3>. QED
      BY <3>1, <3>2, <3>3 DEF DialogueInv, RefusalIn
  <2>. QED
    BY <2>1, <2>2, <2>3, <2>4, <2>5, <2>6 DEF Dialogue!Next
<1>. QED
  BY <1>1, <1>2, PTL DEF Dialogue!Spec

\* Whatever is late, cut or heard in between, start() raises only over a refusal, that
\* of the command under way or of one before (_configure_rylr).
THEOREM RaisesOnlyOverRefusals ==
  Dialogue!AtAssumption /\ Dialogue!Spec => [](Dialogue!TypeOK /\ Dialogue!RaisesOverRefusal)
<1>1. DialogueInv => Dialogue!TypeOK /\ Dialogue!RaisesOverRefusal
  BY DEF DialogueInv, Dialogue!RaisesOverRefusal
<1>. QED
  BY <1>1, DialogueInvariant, PTL

\* With a module that answers in time and hears nothing meanwhile, start() raises at
\* the first command it refuses and at no other, however the answers are cut
\* (_at, _configure_rylr).
THEOREM RaisesAtTheFirst ==
  Dialogue!AtAssumption /\ Dialogue!Spec => []Dialogue!RaisesAtFirst
<1>1. DialogueInv => Dialogue!RaisesAtFirst
  BY DEF DialogueInv, InStep, Dialogue!RaisesAtFirst
<1>. QED
  BY <1>1, DialogueInvariant, PTL
=============================================================================
