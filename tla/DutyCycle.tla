----------------------------- MODULE DutyCycle -----------------------------
(***************************************************************************)
(* Sending through the LoRa transport: the duty-cycle governor             *)
(* (radio/airtime.py), the transmit lock of LoRaTransport.send and the     *)
(* retry of send_when_permitted (radio/lora.py), with the tasks of a node  *)
(* as concurrent senders.  Time is in ticks; airtimes, the window and the  *)
(* budget are whole numbers of ticks.                                      *)
(***************************************************************************)
EXTENDS Integers, Sequences, FiniteSetsExt

CONSTANTS Senders,      \* tasks that call send or send_when_permitted
          Airtimes,     \* airtimes of the frames
          Window,       \* window_seconds
          Budget,       \* budget_seconds
          MaxDwell,     \* max_dwell_ms
          MaxWait,      \* max_wait
          NoSender,
          MaxTime,      \* bound: the last tick
          MaxRestarts   \* bound: how often the program starts again

ASSUME DutyAssumption ==
  /\ Airtimes \subseteq Nat \ {0}
  /\ Window \in Nat /\ Budget \in Nat /\ Budget <= Window
  /\ MaxDwell \in Nat /\ MaxWait \in Nat
  /\ NoSender \notin Senders
  /\ MaxTime \in Nat /\ MaxRestarts \in Nat

VARIABLES now,       \* time.monotonic
          events,    \* DutyCycleGovernor._events
          sent,      \* LoRaTransport.frames_sent
          owner,     \* who holds _tx_lock
          task,      \* where each sender is, with its locals
          onair,     \* history: what the radio transmitted
          restarts   \* history, for the bound

vars == <<now, events, sent, owner, task, onair, restarts>>

Event == [at : Nat, airtime : Airtimes]

\* patient: through send_when_permitted; retry: its second attempt; until: the
\* end of the sleep it is in; refused: frames_sent when it was refused.
Idle == [state |-> "idle"]
Task == {Idle} \cup
        [state : {"queued", "writing", "sending", "waiting"}, airtime : Airtimes,
         patient : BOOLEAN, retry : BOOLEAN, until : Nat, refused : Nat]

-----------------------------------------------------------------------------
\* The governor.

\* _prune: events leave at the front, up to one that is recent.
Recent(es) == {i \in DOMAIN es : es[i].at >= now - Window}
Pruned(es) == IF Recent(es) = {} THEN << >> ELSE SubSeq(es, Min(Recent(es)), Len(es))

\* Airtime of the events of es at the positions in S.
Airtime(es, S) == MapThenSumSet(LAMBDA i : es[i].airtime, S)
Used(es) == Airtime(es, DOMAIN es)

TooLong(a) == a > MaxDwell

\* check() returns.
Permitted(a) == ~TooLong(a) /\ Used(Pruned(events)) + a <= Budget

\* The events whose end frees enough for a.
Freeing(es, a) ==
  {i \in DOMAIN es : Airtime(es, 1 .. i) >= Used(es) + a - Budget}

\* DutyCycleExceeded.wait_seconds.
Wait(a) ==
  LET es == Pruned(events)
  IN  IF TooLong(a) THEN 0
      ELSE IF Freeing(es, a) = {} THEN Window
      ELSE Max({0, es[Min(Freeing(es, a))].at + Window - now})

\* check() prunes, unless the frame was refused for its length.
Checked(a) == events' = IF TooLong(a) THEN events ELSE Pruned(events)

-----------------------------------------------------------------------------
\* The transport.

\* A task calls send, or send_when_permitted, and queues for the lock.
Call(s, a, patient) ==
  /\ task[s] = Idle
  /\ task' = [task EXCEPT ![s] =
                [state |-> "queued", airtime |-> a, patient |-> patient,
                 retry |-> FALSE, until |-> 0, refused |-> 0]]
  /\ UNCHANGED <<now, events, sent, owner, onair, restarts>>

\* Variant: sending takes no lock.
LockIgnored(s) == task[s].state = "queued"

\* s is next to get the lock.
GetsLock(s) == task[s].state = "queued" /\ owner = NoSender

\* The governor agrees, and the write to the serial port begins.
StartWrite(s) ==
  /\ GetsLock(s)
  /\ Permitted(task[s].airtime)
  /\ Checked(task[s].airtime)
  /\ owner' = s
  /\ task' = [task EXCEPT ![s].state = "writing"]
  /\ UNCHANGED <<now, sent, onair, restarts>>

\* Variant: the margin of 0.1 s is left out.
WokenAt(a) == now + Wait(a)

\* When a task that was refused tries again.
WakesAt(a) == now + Wait(a) + 1

\* send_when_permitted catches the refusal and sleeps.
Sleeps(t) == /\ t.patient /\ ~t.retry
             /\ Wait(t.airtime) <= MaxWait /\ Wait(t.airtime) > 0

\* The governor refuses: the lock is released, and the task is told, or waits.
Refuse(s) ==
  LET t == task[s]
  IN  /\ GetsLock(s)
      /\ ~Permitted(t.airtime)
      /\ Checked(t.airtime)
      /\ task' = [task EXCEPT ![s] =
                    IF Sleeps(t)
                    THEN [t EXCEPT !.state = "waiting", !.refused = sent,
                                   !.until = WakesAt(t.airtime)]
                    ELSE Idle]
      /\ UNCHANGED <<now, sent, owner, onair, restarts>>

\* The second attempt of send_when_permitted.
Retry(s) ==
  /\ task[s].state = "waiting"
  /\ task[s].until <= now
  /\ task' = [task EXCEPT ![s].state = "queued", ![s].retry = TRUE]
  /\ UNCHANGED <<now, events, sent, owner, onair, restarts>>

\* Variant: the lock is not held during the transmission.
OwnerAtOnce == NoSender

\* Who holds the lock when the frame is being transmitted.
OwnerOnAir == owner

\* The write is done: the radio transmits, and the governor is told.
Written(s) ==
  LET a == task[s].airtime
  IN  /\ task[s].state = "writing"
      /\ events' = Pruned(Append(events, [at |-> now, airtime |-> a]))
      /\ sent' = sent + 1
      /\ onair' = onair \cup {[at |-> now, airtime |-> a, run |-> restarts]}
      /\ task' = [task EXCEPT ![s].state = "sending", ![s].until = now + a]
      /\ owner' = OwnerOnAir
      /\ UNCHANGED <<now, restarts>>

\* The write raises: nothing is transmitted.
WriteFails(s) ==
  /\ task[s].state = "writing"
  /\ task' = [task EXCEPT ![s] = Idle]
  /\ owner' = NoSender
  /\ UNCHANGED <<now, events, sent, onair, restarts>>

\* The transmission is over and the lock is released.
Finish(s) ==
  /\ task[s].state = "sending"
  /\ task[s].until <= now
  /\ task' = [task EXCEPT ![s] = Idle]
  /\ owner' = NoSender
  /\ UNCHANGED <<now, events, sent, onair, restarts>>

\* Frames whose write has begun: the thread that writes is not cancelled.
BeingWritten == {[at |-> now, airtime |-> task[s].airtime, run |-> restarts] :
                   s \in {q \in Senders : task[q].state = "writing"}}

\* The program ends, and starts again with a new governor.
Restart ==
  /\ restarts < MaxRestarts
  /\ restarts' = restarts + 1
  /\ \E W \in SUBSET BeingWritten : onair' = onair \cup W
  /\ events' = << >> /\ sent' = 0 /\ owner' = NoSender
  /\ task' = [s \in Senders |-> Idle]
  /\ UNCHANGED now

\* Time passes; a sleeping task may be late.
Tick == /\ now < MaxTime
        /\ now' = now + 1
        /\ UNCHANGED <<events, sent, owner, task, onair, restarts>>

Init ==
  /\ now = 0
  /\ events = << >>
  /\ sent = 0
  /\ owner = NoSender
  /\ task = [s \in Senders |-> Idle]
  /\ onair = {}
  /\ restarts = 0

Next ==
  \/ \E s \in Senders :
       \/ \E a \in Airtimes, patient \in BOOLEAN : Call(s, a, patient)
       \/ StartWrite(s) \/ Refuse(s) \/ Retry(s)
       \/ Written(s) \/ WriteFails(s) \/ Finish(s)
  \/ Restart
  \/ Tick

Spec == Init /\ [][Next]_vars

-----------------------------------------------------------------------------
(***************************************************************************)
(* Properties                                                              *)
(***************************************************************************)

\* Every variable has its type, and a task that writes or sends holds the
\* lock.
TypeOK ==
  /\ now \in 0 .. MaxTime
  /\ events \in Seq(Event)
  /\ sent \in Nat
  /\ owner \in Senders \cup {NoSender}
  /\ task \in [Senders -> Task]
  /\ \A s \in Senders : task[s].state \in {"writing", "sending"} => owner = s
  /\ onair \in SUBSET [at : Nat, airtime : Airtimes, run : Nat]
  /\ restarts \in 0 .. MaxRestarts

\* How much of the transmission e lies between x and x + Window.
Overlap(e, x) ==
  Max({0, Min({e.at + e.airtime, x + Window}) - Max({e.at, x})})

OnAir(es, x) == MapThenSumSet(LAMBDA e : Overlap(e, x), es)

OfRun(k) == {e \in onair : e.run = k}

\* In no window of time, wherever it begins, does one process keep the radio on
\* for longer than the budget.  The governor counts whole events by the time
\* they began, and tests them when another may begin; the property is about
\* the airtime within the window.
WindowBudget ==
  \A x \in 0 .. now : \A k \in 0 .. restarts : OnAir(OfRun(k), x) <= Budget

\* No window holds more airtime than the budget, whoever transmitted it: the
\* radio "will refuse to transmit rather than let you exceed 1%" (lora.py).
BudgetKept == \A x \in 0 .. now : OnAir(onair, x) <= Budget

\* A process has no two frames on the air at once: "the radio is half-duplex and
\* queueing a second frame mid-transmission drops it" (lora.py).
OneAtATime ==
  \A e, f \in onair :
    e # f /\ e.run = f.run =>
      e.at + e.airtime <= f.at \/ f.at + f.airtime <= e.at

\* A task that slept as long as it was told is permitted, if nobody sent in the
\* meantime (send_when_permitted): the announced wait is enough.
WaitIsEnough ==
  \A s \in Senders :
    /\ task[s].state = "queued"
    /\ task[s].retry
    /\ task[s].refused = sent
    /\ task[s].airtime <= Budget
    => Permitted(task[s].airtime)
=============================================================================
