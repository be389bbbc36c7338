-------------------------- MODULE HandshakeProofs --------------------------
(***************************************************************************)
(* What holds of the session managers and trust stores for any number of   *)
(* peers, handshakes and answers, over a medium that loses, delays,        *)
(* reorders and repeats, through restarts and whatever the users decide.   *)
(***************************************************************************)
EXTENDS Handshake, TLAPS

-----------------------------------------------------------------------------
(* The operators of the model stay within their types. *)

Entries == [HsIds -> Entry \cup {None}]

\* _expire_pending only removes entries.
LEMMA UnexpiredType ==
  ASSUME NEW entries \in Entries
  PROVE  /\ Unexpired(entries) \in Entries
         /\ \A h \in HsIds : Unexpired(entries)[h] \in {None, entries[h]}
  BY DEF Unexpired, Entries

Aged(e) == [e EXCEPT !.stale = TRUE]

\* Reading and ageing change one field of an entry.
LEMMA EntryUpdates ==
  ASSUME NEW e \in Entry
  PROVE  /\ Read(e) \in Entry
         /\ Read(e).read /\ Read(e).initiator = e.initiator /\ Read(e).answer = e.answer
         /\ Aged(e) \in Entry
         /\ Aged(e).read = e.read /\ Aged(e).initiator = e.initiator
         /\ Aged(e).answer = e.answer
  BY DEF Read, Aged, Entry

\* Marking a pin keeps its key, accepting a key unmarks it.
LEMMA PinUpdates ==
  ASSUME NEW pin \in Pin
  PROVE  /\ [pin EXCEPT !.verified = TRUE] \in Pin
         /\ [pin EXCEPT !.verified = TRUE].static = pin.static
  BY DEF Pin

\* Whatever a delivery does with the message, the medium carries messages.
LEMMA DeliveredType ==
  ASSUME HandshakeAssumption, TypeOK, NEW m \in net, NEW sent \in SUBSET Message,
         Delivered(m, sent)
  PROVE  /\ net' \subseteq Message /\ net' \subseteq net \cup sent
         /\ troubles' \in 0 .. MaxTroubles
  BY DEF Delivered, TypeOK, HandshakeAssumption

\* A response or a FIN is from a peer, with a key and a transcript.
LEMMA MessageFields ==
  ASSUME NEW m \in Message
  PROVE  /\ m.hs \in HsIds /\ m.from \in Peers /\ m.to \in Peers
         /\ m.static \in Statics
         /\ m.type \in {"INIT", "RESP", "FIN"}
         /\ m.type # "INIT" => m.answer \in Answers
  BY DEF Message

\* observe pins an unknown peer, and leaves the pins of a known one alone.
LEMMA ObserveEffect ==
  ASSUME NEW p, NEW m, pins' \in Observe(p, m)
  PROVE  \/ pins[p][m.from] = None /\ pins' = PinFirst(p, m)
         \/ /\ pins[p][m.from] # None /\ pins' = pins
            /\ pins[p][m.from].static = m.static
  BY DEF Observe

\* Every session comes from a transcript.
LEMMA NewSessionType ==
  ASSUME NEW entry \in Entry, NEW m \in Message, m.type # "INIT",
         Authentic(entry, m)
  PROVE  /\ NewSession(entry, m) \in Session
         /\ NewSession(entry, m) =
              [hs |-> m.hs, answer |-> m.answer, initiator |-> entry.initiator,
               static |-> m.static]
<1>1. IF entry.initiator THEN TRUE ELSE entry.answer = m.answer
  BY DEF Authentic, Entry
<1>2. entry.initiator \in BOOLEAN
  BY DEF Entry
<1>. QED
  BY <1>1, <1>2, MessageFields DEF NewSession, Session

-----------------------------------------------------------------------------
\* Type correctness of the session managers, the trust stores and the medium.
THEOREM TypeCorrect == Spec => []TypeOK
<1> USE HandshakeAssumption
<1>1. Init => TypeOK
  BY DEF Init, TypeOK, HandshakeAssumption, Statics
<1>2. TypeOK /\ [Next]_vars => TypeOK'
  <2> SUFFICES ASSUME TypeOK, [Next]_vars PROVE TypeOK'
    OBVIOUS
  <2>0. \A p \in Peers : pending[p] \in Entries /\ Unexpired(pending[p]) \in Entries
    BY UnexpiredType DEF TypeOK, Entries
  <2>1. ASSUME NEW p \in Peers, NEW q \in Peers, StartHandshake(p, q)
        PROVE TypeOK'
    <3>1. started' \in 0 .. MaxHandshakes /\ started + 1 \in HsIds
      BY <2>1 DEF StartHandshake, TypeOK, HsIds, HandshakeAssumption
    <3>2. pending' \in [Peers -> [HsIds -> Entry \cup {None}]]
      <4> DEFINE e == [initiator |-> TRUE, answer |-> 0, read |-> FALSE, stale |-> FALSE]
      <4>1. e \in Entry
        BY DEF Entry, HandshakeAssumption
      <4> HIDE DEF e
      <4>2. pending' = [pending EXCEPT ![p] = [Unexpired(pending[p]) EXCEPT ![started + 1] = e]]
        BY <2>1 DEF StartHandshake, e
      <4>. QED
        BY <4>1, <4>2, <3>1, <2>0 DEF TypeOK, Entries
    <3>3. net' \subseteq Message
      BY <2>1, <3>1 DEF StartHandshake, TypeOK, Message
    <3>. QED
      BY <2>1, <3>1, <3>2, <3>3 DEF StartHandshake, TypeOK
  <2>2. ASSUME NEW p \in Peers, NEW m \in net, AnswerInit(p, m)
        PROVE TypeOK'
    <3>1. answered' \in 0 .. MaxAnswers /\ answered + 1 \in Answers
      BY <2>2 DEF AnswerInit, TypeOK, Answers, HandshakeAssumption
    <3>2. m \in Message
      BY DEF TypeOK
    <3>3. pending' \in [Peers -> [HsIds -> Entry \cup {None}]]
      <4> DEFINE e == [initiator |-> FALSE, answer |-> answered + 1,
                       read |-> FALSE, stale |-> FALSE]
      <4>1. e \in Entry
        BY <3>1 DEF Entry, Answers
      <4> HIDE DEF e
      <4>2. pending' = [pending EXCEPT ![p] = [Unexpired(pending[p]) EXCEPT ![m.hs] = e]]
        BY <2>2 DEF AnswerInit, e
      <4>. QED
        BY <4>1, <4>2, <3>2, <2>0, MessageFields DEF TypeOK, Entries
    <3>4. net' \subseteq Message /\ troubles' \in 0 .. MaxTroubles
      <4> DEFINE r == [type |-> "RESP", hs |-> m.hs, answer |-> answered + 1,
                       from |-> p, to |-> m.from, static |-> static[p]]
      <4>1. r \in Message
        BY <3>1, <3>2, MessageFields DEF Message, TypeOK
      <4>2. Delivered(m, {r})
        BY <2>2 DEF AnswerInit
      <4> HIDE DEF r
      <4>. QED
        BY <4>1, <4>2, DeliveredType
    <3>. QED
      BY <2>2, <3>1, <3>3, <3>4 DEF AnswerInit, TypeOK
  <2>3. ASSUME NEW p \in Peers, NEW m \in net, IgnoreInit(p, m)
        PROVE TypeOK'
    <3>1. net' \subseteq Message /\ troubles' \in 0 .. MaxTroubles
      BY <2>3, DeliveredType DEF IgnoreInit
    <3>2. pending' \in [Peers -> [HsIds -> Entry \cup {None}]]
      BY <2>3, <2>0 DEF IgnoreInit, TypeOK, Entries
    <3>. QED
      BY <2>3, <3>1, <3>2 DEF IgnoreInit, TypeOK
  <2>4. ASSUME NEW p \in Peers, NEW m \in net, IgnoreMessage(p, m)
        PROVE TypeOK'
    <3>1. net' \subseteq Message /\ troubles' \in 0 .. MaxTroubles
      BY <2>4, DeliveredType DEF IgnoreMessage
    <3>. QED
      BY <2>4, <3>1 DEF IgnoreMessage, TypeOK
  <2>5. ASSUME NEW p \in Peers, NEW m \in net, RejectMessage(p, m)
        PROVE TypeOK'
    <3>1. net' \subseteq Message /\ troubles' \in 0 .. MaxTroubles
      BY <2>5, DeliveredType DEF RejectMessage
    <3>. QED
      BY <2>5, <3>1 DEF RejectMessage, Without, TypeOK
  <2>6. ASSUME NEW p \in Peers, NEW m \in net, RefuseKey(p, m)
        PROVE TypeOK'
    <3>1. net' \subseteq Message /\ troubles' \in 0 .. MaxTroubles
      BY <2>6, DeliveredType DEF RefuseKey
    <3>2. m \in Message /\ m.type # "INIT" /\ m.to = p /\ pending[p][m.hs] # None
      BY <2>6 DEF RefuseKey, Awaits, TypeOK
    <3>3. pending[p][m.hs] \in Entry
      BY <3>2, MessageFields DEF TypeOK
    <3>4. Read(pending[p][m.hs]) \in Entry
      BY <3>3, EntryUpdates
    <3>5. pending' \in [Peers -> [HsIds -> Entry \cup {None}]]
      <4>1. pending' = [pending EXCEPT ![p][m.hs] = Read(pending[p][m.hs])]
        BY <2>6 DEF RefuseKey
      <4>. QED
        BY <4>1, <3>4 DEF TypeOK
    <3>6. refused' \subseteq (Peers \X HsIds \X Answers)
      BY <2>6, <3>2, MessageFields DEF RefuseKey, TypeOK
    <3>. QED
      BY <2>6, <3>1, <3>5, <3>6 DEF RefuseKey, TypeOK
  <2>7. ASSUME NEW p \in Peers, NEW m \in net, Finalise(p, m)
        PROVE TypeOK'
    <3> DEFINE entry == pending[p][m.hs]
               session == NewSession(entry, m)
               fin == [type |-> "FIN", hs |-> m.hs, answer |-> m.answer,
                       from |-> p, to |-> m.from, static |-> static[p]]
    <3>1. m \in Message /\ m.type # "INIT" /\ m.to = p /\ entry # None
      BY <2>7 DEF Finalise, Awaits, TypeOK
    <3>2. entry \in Entry /\ Authentic(entry, m)
      BY <2>7, <3>1, MessageFields DEF Finalise, TypeOK
    <3>3. session \in Session
      BY <3>1, <3>2, NewSessionType
    <3>4. fin \in Message
      BY <3>1, MessageFields DEF Message, TypeOK
    <3>5. net' \subseteq Message /\ troubles' \in 0 .. MaxTroubles
      BY <2>7, <3>4, DeliveredType DEF Finalise
    <3>6. pins' \in [Peers -> [Peers -> Pin \cup {None}]]
      <4>1. pins' \in Observe(p, m)
        BY <2>7 DEF Finalise
      <4>2. CASE pins' = pins
        BY <4>2 DEF TypeOK
      <4>3. CASE pins' = PinFirst(p, m)
        BY <4>3, <3>1, MessageFields DEF PinFirst, Pin, TypeOK
      <4>. QED
        BY <4>1, <4>2, <4>3, ObserveEffect
    <3>7. pending' \in [Peers -> [HsIds -> Entry \cup {None}]]
      BY <2>7 DEF Finalise, Without, TypeOK
    <3>8. /\ sessions' = [sessions EXCEPT ![p][m.from] = session]
          /\ finalised' = finalised \cup {<<p, m.from, session>>}
          /\ UNCHANGED <<static, started, answered, decisions, refused, compared>>
      BY <2>7 DEF Finalise
    <3> HIDE DEF session, entry, fin
    <3>. QED
      BY <3>1, <3>3, <3>5, <3>6, <3>7, <3>8, MessageFields DEF TypeOK
  <2>8. ASSUME NEW p \in Peers, NEW q \in Peers,
               MarkVerified(p, q) \/ Repin(p, q) \/ Forget(p, q)
        PROVE TypeOK'
    <3>1. pins[p][q] \in Pin /\ decisions' \in 0 .. MaxDecisions
      BY <2>8 DEF MarkVerified, Repin, Forget, Decide, TypeOK, HandshakeAssumption
    <3>2. pins' \in [Peers -> [Peers -> Pin \cup {None}]]
      <4>1. CASE MarkVerified(p, q)
        <5>1. pins' = [pins EXCEPT ![p][q] = [pins[p][q] EXCEPT !.verified = TRUE]]
          BY <4>1 DEF MarkVerified
        <5>. QED
          BY <5>1, <3>1, PinUpdates DEF TypeOK
      <4>2. CASE Repin(p, q)
        BY <4>2 DEF Repin, Pin, TypeOK
      <4>3. CASE Forget(p, q)
        BY <4>3 DEF Forget, TypeOK
      <4>. QED
        BY <2>8, <4>1, <4>2, <4>3
    <3>3. compared' \subseteq (Peers \X Peers \X Statics)
      BY <2>8, <3>1 DEF MarkVerified, Repin, Forget, Pin, TypeOK
    <3>. QED
      BY <2>8, <3>1, <3>2, <3>3 DEF MarkVerified, Repin, Forget, Decide, TypeOK
  <2>9. ASSUME NEW m \in net, Lose(m) PROVE TypeOK'
    BY <2>9 DEF Lose, Trouble, TypeOK, HandshakeAssumption
  <2>10. ASSUME NEW p \in Peers, TimeOut(p) PROVE TypeOK'
    <3>1. \A h \in HsIds : pending[p][h] # None =>
            Aged(pending[p][h]) \in Entry
      BY EntryUpdates DEF TypeOK
    <3>2. pending' = [pending EXCEPT ![p] =
                        [h \in HsIds |-> IF pending[p][h] = None THEN None
                                         ELSE Aged(pending[p][h])]]
      BY <2>10 DEF TimeOut, Aged, TypeOK
    <3>3. pending' \in [Peers -> [HsIds -> Entry \cup {None}]]
      BY <3>1, <3>2 DEF TypeOK
    <3>. QED
      BY <2>10, <3>3 DEF TimeOut, Trouble, TypeOK, HandshakeAssumption
  <2>11. ASSUME NEW p \in Peers, Restart(p) PROVE TypeOK'
    <3>1. static' \in [Peers -> Statics]
      BY <2>11 DEF Restart, TypeOK
    <3>. QED
      BY <2>11, <3>1 DEF Restart, Trouble, TypeOK, HandshakeAssumption
  <2>12. CASE UNCHANGED vars
    BY <2>12 DEF TypeOK, vars
  <2>. QED
    BY <2>1, <2>2, <2>3, <2>4, <2>5, <2>6, <2>7, <2>8, <2>9, <2>10, <2>11, <2>12
       DEF Next
<1>. QED
  BY <1>1, <1>2, PTL DEF Spec

-----------------------------------------------------------------------------
(* Pins: what is pinned, what the user compared, and the session on it. *)

\* The decisions of the user are the only steps that touch a pin which exists.
LEMMA PinSteps ==
  ASSUME TypeOK, [Next]_vars
  PROVE  \/ /\ pins' = pins /\ sessions' = sessions
            /\ compared' = compared /\ decisions' = decisions
         \/ \E p \in Peers : \E m \in net : Finalise(p, m)
         \/ \E p, q \in Peers : MarkVerified(p, q) \/ Repin(p, q) \/ Forget(p, q)
         \/ \E p \in Peers : Restart(p)
  BY DEF Next, vars, StartHandshake, AnswerInit, IgnoreInit, IgnoreMessage,
         RejectMessage, RefuseKey, Lose, TimeOut

\* A first pin is the only one that changes, and says nothing is verified.
LEMMA PinFirstEffect ==
  ASSUME TypeOK, NEW p \in Peers, NEW m \in Message
  PROVE  /\ PinFirst(p, m)[p][m.from] \in Pin
         /\ PinFirst(p, m)[p][m.from].static = m.static
         /\ ~PinFirst(p, m)[p][m.from].verified
         /\ \A r, q \in Peers :
              ~(r = p /\ q = m.from) => PinFirst(p, m)[r][q] = pins[r][q]
  BY MessageFields DEF PinFirst, Pin, TypeOK

\* What Finalise does to pins and sessions, without the rest of the step.
LEMMA FinalisedPin ==
  ASSUME TypeOK, NEW p \in Peers, NEW m \in net, Finalise(p, m)
  PROVE  /\ m.from \in Peers /\ m.hs \in HsIds
         /\ NewSession(pending[p][m.hs], m) \in Session
         /\ NewSession(pending[p][m.hs], m).static = m.static
         /\ sessions' = [sessions EXCEPT ![p][m.from] =
                            NewSession(pending[p][m.hs], m)]
         /\ \/ pins[p][m.from] = None /\ pins' = PinFirst(p, m)
            \/ /\ pins[p][m.from] # None /\ pins' = pins
               /\ pins[p][m.from].static = m.static
         /\ compared' = compared /\ decisions' = decisions
<1>1. m \in Message /\ m.type # "INIT" /\ pending[p][m.hs] # None
  BY DEF Finalise, Awaits, TypeOK
<1>2. pending[p][m.hs] \in Entry /\ Authentic(pending[p][m.hs], m)
  BY <1>1, MessageFields DEF Finalise, TypeOK
<1>3. pins' \in Observe(p, m)
  BY DEF Finalise
<1>4. NewSession(pending[p][m.hs], m).static = m.static
  BY DEF NewSession
<1>. QED
  BY <1>1, <1>2, <1>3, <1>4, MessageFields, NewSessionType, ObserveEffect
     DEF Finalise

\* A pin says "verified" only of the key that the user compared (mark_verified,
\* repin, observe).
THEOREM VerifiedByHand == Spec => []VerifiedWasCompared
<1>1. Init => VerifiedWasCompared
  BY DEF Init, VerifiedWasCompared
<1>2. TypeOK /\ VerifiedWasCompared /\ [Next]_vars => VerifiedWasCompared'
  <2> SUFFICES ASSUME TypeOK, VerifiedWasCompared, [Next]_vars
               PROVE  VerifiedWasCompared'
    OBVIOUS
  <2>1. CASE pins' = pins /\ compared' = compared
    BY <2>1 DEF VerifiedWasCompared
  <2>2. ASSUME NEW p \in Peers, NEW m \in net, Finalise(p, m)
        PROVE  VerifiedWasCompared'
    <3>1. CASE pins' = pins
      BY <2>1, <2>2, <3>1, FinalisedPin
    <3>2. CASE pins' = PinFirst(p, m)
      <4>1. compared' = compared /\ m \in Message
        BY <2>2, FinalisedPin DEF TypeOK
      <4>. QED
        BY <4>1, <3>2, PinFirstEffect DEF VerifiedWasCompared
    <3>. QED
      BY <2>2, <3>1, <3>2, FinalisedPin
  <2>3. ASSUME NEW p \in Peers, NEW q \in Peers, MarkVerified(p, q)
        PROVE  VerifiedWasCompared'
    <3>1. pins[p][q] \in Pin
      BY <2>3 DEF MarkVerified, Decide, TypeOK
    <3>2. pins' = [pins EXCEPT ![p][q] = [pins[p][q] EXCEPT !.verified = TRUE]]
      BY <2>3 DEF MarkVerified
    <3>3. pins'[p][q].static = pins[p][q].static
      BY <3>1, <3>2, PinUpdates DEF TypeOK
    <3>4. compared' = compared \cup {<<p, q, pins[p][q].static>>}
      BY <2>3 DEF MarkVerified
    <3>5. \A r, s \in Peers : <<r, s>> # <<p, q>> => pins'[r][s] = pins[r][s]
      BY <3>2 DEF TypeOK
    <3>. QED
      BY <3>3, <3>4, <3>5 DEF VerifiedWasCompared
  <2>4. ASSUME NEW p \in Peers, NEW q \in Peers, Repin(p, q) \/ Forget(p, q)
        PROVE  VerifiedWasCompared'
    <3>1. CASE Forget(p, q)
      BY <3>1 DEF Forget, VerifiedWasCompared, TypeOK
    <3>2. CASE Repin(p, q)
      <4>1. PICK s \in Statics :
              pins' = [pins EXCEPT ![p][q] = [static |-> s, verified |-> FALSE]]
        BY <3>2 DEF Repin
      <4>2. /\ ~pins'[p][q].verified
            /\ \A r, t \in Peers : ~(r = p /\ t = q) => pins'[r][t] = pins[r][t]
        BY <4>1 DEF TypeOK
      <4>3. compared' = compared
        BY <3>2 DEF Repin
      <4>. QED
        BY <4>2, <4>3 DEF VerifiedWasCompared
    <3>. QED
      BY <2>4, <3>1, <3>2
  <2>5. ASSUME NEW p \in Peers, Restart(p) PROVE VerifiedWasCompared'
    BY <2>5 DEF Restart, VerifiedWasCompared
  <2>. QED
    BY <2>1, <2>2, <2>3, <2>4, <2>5, PinSteps
<1>. QED
  BY <1>1, <1>2, TypeCorrect, PTL DEF Spec

\* Until the user decides otherwise, a session is with the key that is pinned:
\* observe runs before a session is made, and pins outlive it.
THEOREM SessionKeyPinned == Spec => []SessionOnPin
<1> USE NoneAssumption
<1>1. Init => SessionOnPin
  BY DEF Init, SessionOnPin
<1>2. TypeOK /\ SessionOnPin /\ [Next]_vars => SessionOnPin'
  <2> SUFFICES ASSUME TypeOK, SessionOnPin, [Next]_vars PROVE SessionOnPin'
    OBVIOUS
  <2>2. CASE pins' = pins /\ sessions' = sessions /\ decisions' = decisions
    BY <2>2 DEF SessionOnPin
  <2>3. ASSUME NEW p \in Peers, NEW m \in net, Finalise(p, m)
        PROVE  SessionOnPin'
    <3>1. SUFFICES ASSUME decisions = 0, NEW r \in Peers, NEW q \in Peers,
                          sessions'[r][q] # None
                   PROVE  /\ pins'[r][q] # None
                          /\ pins'[r][q].static = sessions'[r][q].static
      BY <2>3, FinalisedPin DEF SessionOnPin
    <3>0. m \in Message /\ (pins' = pins \/ pins' = PinFirst(p, m))
      BY <2>3, FinalisedPin DEF TypeOK
    <3>2. CASE r = p /\ q = m.from
      <4>1. sessions'[r][q].static = m.static
        BY <2>3, <3>2, FinalisedPin DEF TypeOK
      <4>2. /\ pins'[r][q] # None
            /\ pins'[r][q].static = m.static
        <5>1. CASE pins' = pins
          BY <2>3, <3>2, <5>1, FinalisedPin, PinFirstEffect, <3>0
        <5>2. CASE pins' = PinFirst(p, m)
          BY <3>0, <3>2, <5>2, PinFirstEffect
        <5>. QED
          BY <3>0, <5>1, <5>2
      <4>. QED
        BY <4>1, <4>2
    <3>3. CASE ~(r = p /\ q = m.from)
      <4>1. sessions'[r][q] = sessions[r][q]
        BY <2>3, <3>3, FinalisedPin DEF TypeOK
      <4>2. pins'[r][q] = pins[r][q]
        BY <3>0, <3>3, PinFirstEffect
      <4>. QED
        BY <3>1, <4>1, <4>2 DEF SessionOnPin
    <3>. QED
      BY <3>2, <3>3
  <2>4. ASSUME NEW p \in Peers, NEW q \in Peers,
               MarkVerified(p, q) \/ Repin(p, q) \/ Forget(p, q)
        PROVE  SessionOnPin'
    BY <2>4 DEF MarkVerified, Repin, Forget, Decide, SessionOnPin, TypeOK
  <2>5. ASSUME NEW p \in Peers, Restart(p) PROVE SessionOnPin'
    BY <2>5 DEF Restart, SessionOnPin, TypeOK
  <2>. QED
    BY <2>2, <2>3, <2>4, <2>5, PinSteps
<1>. QED
  BY <1>1, <1>2, TypeCorrect, PTL DEF Spec

-----------------------------------------------------------------------------
(* Transcripts: who is in which run of the handshake, and which answer the *)
(* initiator took.  starter[h] is the peer that started the handshake h;   *)
(* no variable of the model holds it, so the invariant says that there is  *)
(* such a function.                                                        *)

\* What is on its way belongs to a handshake that was started.  An INIT is not
\* for the peer that started it, and behind a FIN stands a session.
NetInv(starter) ==
  \A m \in net :
    /\ m.hs <= started
    /\ m.type = "INIT" => m.to # starter[m.hs]
    /\ m.type # "INIT" => m.answer <= answered
    /\ m.type = "FIN" =>
         \E t \in Session :
           /\ <<m.from, m.to, t>> \in finalised
           /\ t.initiator /\ t.hs = m.hs /\ t.answer = m.answer

\* A pending handshake has the role its owner has in it.
PendingInv(starter) ==
  \A p \in Peers, h \in HsIds :
    pending[p][h] # None =>
      /\ h <= started
      /\ pending[p][h].initiator <=> (p = starter[h])

\* Nothing pending can lead to the transcript of a session once more.
ClosedInv(starter) ==
  \A p, q \in Peers, s \in Session :
    <<p, q, s>> \in finalised =>
      /\ s.hs <= started /\ s.answer <= answered
      /\ s.initiator <=> (p = starter[s.hs])
      /\ pending[p][s.hs] # None =>
           /\ ~pending[p][s.hs].initiator
           /\ pending[p][s.hs].answer # s.answer

\* An initiator takes one answer.
OneChoice ==
  \A p, q, r \in Peers, s, t \in Session :
    /\ <<p, q, s>> \in finalised /\ <<p, r, t>> \in finalised
    /\ s.initiator /\ t.initiator /\ s.hs = t.hs
    => s.answer = t.answer

\* What was refused is not waited for any more.
RefusedInv ==
  \A p \in Peers, h \in HsIds, a \in Answers :
    <<p, h, a>> \in refused =>
      /\ h <= started /\ a <= answered
      /\ \/ pending[p][h] = None
         \/ pending[p][h].read
         \/ ~pending[p][h].initiator /\ pending[p][h].answer # a

TranscriptInv(starter) ==
  /\ NetInv(starter) /\ PendingInv(starter) /\ ClosedInv(starter)
  /\ OneChoice /\ RefusedInv /\ Agreement /\ RefusedNeverOpens

Starters == [HsIds -> Peers \cup {None}]

TranscriptsInv == \E starter \in Starters : TranscriptInv(starter)

\* The entry of p for h is the one it was, perhaps read in the meantime.
Followed(p, h) ==
  /\ pending[p][h] # None
  /\ pending'[p][h].initiator = pending[p][h].initiator
  /\ pending'[p][h].answer = pending[p][h].answer
  /\ pending[p][h].read => pending'[p][h].read

NothingNew ==
  \A p \in Peers, h \in HsIds : pending'[p][h] = None \/ Followed(p, h)

\* A step in which nobody begins, answers, finalises or refuses.
Quiet ==
  /\ NothingNew
  /\ net' \subseteq net
  /\ UNCHANGED <<started, answered, finalised, refused>>

\* Dropping a message, deleting what is pending, timeouts, restarts and
\* decisions of the user are quiet.
LEMMA QuietSteps ==
  ASSUME TypeOK, [Next]_vars
  PROVE  \/ Quiet
         \/ \E p, q \in Peers : StartHandshake(p, q)
         \/ \E p \in Peers : \E m \in net : AnswerInit(p, m)
         \/ \E p \in Peers : \E m \in net : RefuseKey(p, m)
         \/ \E p \in Peers : \E m \in net : Finalise(p, m)
<1>1. ASSUME pending' = pending PROVE NothingNew
  BY <1>1 DEF NothingNew, Followed
<1>2. ASSUME NEW p \in Peers, NEW m \in net, IgnoreInit(p, m) PROVE Quiet
  <2>1. \A h \in HsIds : Unexpired(pending[p])[h] \in {None, pending[p][h]}
    BY UnexpiredType DEF TypeOK, Entries
  <2>2. NothingNew
    BY <1>2, <2>1 DEF IgnoreInit, NothingNew, Followed, TypeOK
  <2>. QED
    BY <1>2, <2>2 DEF IgnoreInit, Delivered, Quiet
<1>3. ASSUME NEW p \in Peers, NEW m \in net, IgnoreMessage(p, m) PROVE Quiet
  BY <1>1, <1>3 DEF IgnoreMessage, Delivered, Quiet
<1>4. ASSUME NEW p \in Peers, NEW m \in net, RejectMessage(p, m) PROVE Quiet
  <2>1. NothingNew
    BY <1>4 DEF RejectMessage, Without, NothingNew, Followed, TypeOK
  <2>. QED
    BY <1>4, <2>1 DEF RejectMessage, Delivered, Quiet
<1>5. ASSUME NEW p \in Peers, NEW q \in Peers,
             MarkVerified(p, q) \/ Repin(p, q) \/ Forget(p, q)
      PROVE  Quiet
  BY <1>1, <1>5 DEF MarkVerified, Repin, Forget, Decide, Quiet
<1>6. ASSUME NEW m \in net, Lose(m) PROVE Quiet
  BY <1>1, <1>6 DEF Lose, Quiet
<1>7. ASSUME NEW p \in Peers, TimeOut(p) PROVE Quiet
  <2>1. pending' = [pending EXCEPT ![p] =
                      [h \in HsIds |-> IF pending[p][h] = None THEN None
                                       ELSE Aged(pending[p][h])]]
    BY <1>7 DEF TimeOut, Aged, TypeOK
  <2>2. \A h \in HsIds : pending[p][h] # None => pending[p][h] \in Entry
    BY DEF TypeOK
  <2>3. NothingNew
    BY <2>1, <2>2, EntryUpdates DEF NothingNew, Followed, TypeOK
  <2>. QED
    BY <1>7, <2>3 DEF TimeOut, Quiet
<1>8. ASSUME NEW p \in Peers, Restart(p) PROVE Quiet
  <2>1. NothingNew
    BY <1>8 DEF Restart, NothingNew, Followed, TypeOK
  <2>. QED
    BY <1>8, <2>1 DEF Restart, Quiet
<1>9. CASE UNCHANGED vars
  BY <1>1, <1>9 DEF vars, Quiet
<1>. QED
  BY <1>2, <1>3, <1>4, <1>5, <1>6, <1>7, <1>8, <1>9 DEF Next

\* What is said of the past alone holds while nobody finalises or refuses.
LEMMA PastKept ==
  ASSUME OneChoice, Agreement, RefusedNeverOpens, UNCHANGED <<finalised, refused>>
  PROVE  OneChoice' /\ Agreement' /\ RefusedNeverOpens'
  BY DEF OneChoice, Agreement, Mirror, RefusedNeverOpens

\* A quiet step keeps what is known of the transcripts.
LEMMA QuietKeeps ==
  ASSUME TypeOK, NEW starter \in Starters, TranscriptInv(starter), Quiet
  PROVE  TranscriptInv(starter)'
<1>1. NetInv(starter)'
  BY DEF TranscriptInv, NetInv, Quiet
<1>2. PendingInv(starter)'
  BY DEF TranscriptInv, PendingInv, Quiet, NothingNew, Followed
<1>3. ClosedInv(starter)'
  BY DEF TranscriptInv, ClosedInv, Quiet, NothingNew, Followed, Session
<1>4. OneChoice' /\ Agreement' /\ RefusedNeverOpens'
  BY PastKept DEF TranscriptInv, Quiet
<1>5. RefusedInv'
  BY DEF TranscriptInv, RefusedInv, Quiet, NothingNew, Followed
<1>. QED
  BY <1>1, <1>2, <1>3, <1>4, <1>5 DEF TranscriptInv

\* A handshake that begins gets an hs_id that nobody has seen.
LEMMA StartKeeps ==
  ASSUME HandshakeAssumption, TypeOK, NEW starter \in Starters,
         TranscriptInv(starter), NEW p \in Peers, NEW q \in Peers,
         StartHandshake(p, q),
         NEW next \in Starters, next = [starter EXCEPT ![started + 1] = p]
  PROVE  TranscriptInv(next)'
<1>1. /\ next[started + 1] = p
      /\ \A h \in HsIds : h <= started => next[h] = starter[h]
      /\ started + 1 \in HsIds /\ started \in Nat /\ started' = started + 1
  BY DEF StartHandshake, Starters, HsIds, TypeOK, HandshakeAssumption
<1>2. \A r \in Peers, h \in HsIds :
        \/ pending'[r][h] = None
        \/ pending'[r][h] = pending[r][h]
        \/ r = p /\ h = started + 1 /\ pending'[r][h].initiator
  <2>1. \A h \in HsIds : Unexpired(pending[p])[h] \in {None, pending[p][h]}
    BY UnexpiredType DEF TypeOK, Entries
  <2>2. Unexpired(pending[p]) \in Entries
    BY UnexpiredType DEF TypeOK, Entries
  <2> DEFINE e == [initiator |-> TRUE, answer |-> 0, read |-> FALSE, stale |-> FALSE]
  <2>3. e.initiator
    OBVIOUS
  <2>4. pending' = [pending EXCEPT ![p] =
                      [Unexpired(pending[p]) EXCEPT ![started + 1] = e]]
    BY DEF StartHandshake
  <2> HIDE DEF e
  <2>. QED
    BY <2>1, <2>2, <2>3, <2>4 DEF Entries, TypeOK
<1>3. \A h \in HsIds : h <= started => h # started + 1
  BY <1>1 DEF HsIds
<1>4. UNCHANGED <<answered, finalised, refused>>
  BY DEF StartHandshake
<1>5. NetInv(next)'
  <2> SUFFICES ASSUME NEW m \in net'
               PROVE  /\ m.hs <= started'
                      /\ m.type = "INIT" => m.to # next[m.hs]
                      /\ m.type # "INIT" => m.answer <= answered'
                      /\ m.type = "FIN" =>
                           \E t \in Session :
                             /\ <<m.from, m.to, t>> \in finalised'
                             /\ t.initiator /\ t.hs = m.hs /\ t.answer = m.answer
    BY DEF NetInv
  <2>1. CASE m \in net
    <3>1. m.hs \in HsIds /\ m.hs <= started
      BY <2>1, MessageFields DEF TranscriptInv, NetInv, TypeOK
    <3>2. m.hs <= started' /\ next[m.hs] = starter[m.hs]
      BY <1>1, <3>1 DEF HsIds
    <3>. QED
      BY <1>4, <2>1, <3>2 DEF TranscriptInv, NetInv
  <2>2. CASE m \notin net
    <3>1. m = [type |-> "INIT", hs |-> started + 1, from |-> p, to |-> q,
               static |-> static[q]]
      BY <2>2 DEF StartHandshake
    <3>2. m.type = "INIT" /\ m.hs = started + 1 /\ m.to = q /\ p # q
      BY <3>1 DEF StartHandshake
    <3>. QED
      BY <1>1, <3>2
  <2>. QED
    BY <2>1, <2>2
<1>6. PendingInv(next)'
  <2> SUFFICES ASSUME NEW r \in Peers, NEW h \in HsIds, pending'[r][h] # None
               PROVE  /\ h <= started'
                      /\ pending'[r][h].initiator <=> (r = next[h])
    BY DEF PendingInv
  <2>1. CASE pending'[r][h] = pending[r][h]
    <3>1. h <= started /\ (pending[r][h].initiator <=> (r = starter[h]))
      BY <2>1 DEF TranscriptInv, PendingInv
    <3>2. h <= started'
      BY <1>1, <3>1 DEF HsIds
    <3>. QED
      BY <1>1, <2>1, <3>1, <3>2
  <2>2. CASE r = p /\ h = started + 1 /\ pending'[r][h].initiator
    BY <1>1, <2>2
  <2>. QED
    BY <1>2, <2>1, <2>2
<1>7. ClosedInv(next)'
  <2> SUFFICES ASSUME NEW r \in Peers, NEW t \in Peers, NEW s \in Session,
                      <<r, t, s>> \in finalised
               PROVE  /\ s.hs <= started' /\ s.answer <= answered'
                      /\ s.initiator <=> (r = next[s.hs])
                      /\ pending'[r][s.hs] # None =>
                           /\ ~pending'[r][s.hs].initiator
                           /\ pending'[r][s.hs].answer # s.answer
    BY <1>4 DEF ClosedInv
  <2>1. /\ s.hs <= started /\ s.answer <= answered
        /\ s.initiator <=> (r = starter[s.hs])
        /\ pending[r][s.hs] # None =>
             /\ ~pending[r][s.hs].initiator
             /\ pending[r][s.hs].answer # s.answer
    BY DEF TranscriptInv, ClosedInv
  <2>2. s.hs \in HsIds
    BY DEF Session
  <2>3. s.hs <= started' /\ next[s.hs] = starter[s.hs] /\ s.hs # started + 1
    BY <1>1, <2>1, <2>2 DEF HsIds
  <2>4. pending'[r][s.hs] \in {None, pending[r][s.hs]}
    BY <1>2, <2>2, <2>3
  <2>. QED
    BY <1>4, <2>1, <2>3, <2>4
<1>8. OneChoice' /\ Agreement' /\ RefusedNeverOpens'
  BY <1>4, PastKept DEF TranscriptInv
<1>9. RefusedInv'
  <2> SUFFICES ASSUME NEW r \in Peers, NEW h \in HsIds, NEW a \in Answers,
                      <<r, h, a>> \in refused
               PROVE  /\ h <= started' /\ a <= answered'
                      /\ \/ pending'[r][h] = None
                         \/ pending'[r][h].read
                         \/ ~pending'[r][h].initiator /\ pending'[r][h].answer # a
    BY <1>4 DEF RefusedInv
  <2>1. /\ h <= started /\ a <= answered
        /\ \/ pending[r][h] = None
           \/ pending[r][h].read
           \/ ~pending[r][h].initiator /\ pending[r][h].answer # a
    BY DEF TranscriptInv, RefusedInv
  <2>2. h <= started' /\ h # started + 1
    BY <1>1, <2>1 DEF HsIds
  <2>. QED
    BY <1>2, <1>4, <2>1, <2>2
<1>. QED
  BY <1>5, <1>6, <1>7, <1>8, <1>9 DEF TranscriptInv

\* An answer gets a number that nobody has seen, and is not given by the peer
\* that started the handshake.
LEMMA AnswerKeeps ==
  ASSUME HandshakeAssumption, TypeOK, NEW starter \in Starters,
         TranscriptInv(starter), NEW p \in Peers, NEW m \in net, AnswerInit(p, m)
  PROVE  TranscriptInv(starter)'
<1>1. /\ m \in Message /\ m.hs \in HsIds /\ m.hs <= started
      /\ p # starter[m.hs]
  <2>1. m \in Message /\ m.type = "INIT" /\ m.to = p
    BY DEF AnswerInit, TypeOK
  <2>. QED
    BY <2>1, MessageFields DEF TranscriptInv, NetInv
<1>2. answered \in Nat /\ answered' = answered + 1
  BY DEF AnswerInit, TypeOK
<1>3. UNCHANGED <<started, finalised, refused>>
  BY DEF AnswerInit
<1>4. \A r \in Peers, h \in HsIds :
        \/ pending'[r][h] = None
        \/ pending'[r][h] = pending[r][h]
        \/ /\ r = p /\ h = m.hs /\ ~pending'[r][h].initiator
           /\ pending'[r][h].answer = answered + 1
  <2>1. /\ Unexpired(pending[p]) \in Entries
        /\ \A h \in HsIds : Unexpired(pending[p])[h] \in {None, pending[p][h]}
    BY UnexpiredType DEF TypeOK, Entries
  <2> DEFINE e == [initiator |-> FALSE, answer |-> answered + 1,
                   read |-> FALSE, stale |-> FALSE]
  <2>2. ~e.initiator /\ e.answer = answered + 1
    OBVIOUS
  <2>3. pending' = [pending EXCEPT ![p] =
                      [Unexpired(pending[p]) EXCEPT ![m.hs] = e]]
    BY DEF AnswerInit
  <2> HIDE DEF e
  <2>. QED
    BY <1>1, <2>1, <2>2, <2>3 DEF Entries, TypeOK
<1>5. NetInv(starter)'
  <2> SUFFICES ASSUME NEW n \in net'
               PROVE  /\ n.hs <= started
                      /\ n.type = "INIT" => n.to # starter[n.hs]
                      /\ n.type # "INIT" => n.answer <= answered'
                      /\ n.type = "FIN" =>
                           \E t \in Session :
                             /\ <<n.from, n.to, t>> \in finalised
                             /\ t.initiator /\ t.hs = n.hs /\ t.answer = n.answer
    BY <1>3 DEF NetInv
  <2>1. CASE n \in net
    <3>1. n.type # "INIT" => n.answer \in Nat /\ n.answer <= answered
      BY <2>1, MessageFields DEF TranscriptInv, NetInv, TypeOK, Answers
    <3>2. n.type # "INIT" => n.answer <= answered'
      BY <1>2, <3>1
    <3>. QED
      BY <2>1, <3>2 DEF TranscriptInv, NetInv
  <2>2. CASE n \notin net
    <3>1. n = [type |-> "RESP", hs |-> m.hs, answer |-> answered + 1,
               from |-> p, to |-> m.from, static |-> static[p]]
      BY <2>2 DEF AnswerInit, Delivered
    <3>2. n.type = "RESP" /\ n.hs = m.hs /\ n.answer = answered + 1
      BY <3>1
    <3>. QED
      BY <1>1, <1>2, <3>2
  <2>. QED
    BY <2>1, <2>2
<1>6. PendingInv(starter)'
  BY <1>1, <1>3, <1>4 DEF TranscriptInv, PendingInv
<1>7. ClosedInv(starter)'
  <2> SUFFICES ASSUME NEW r \in Peers, NEW t \in Peers, NEW s \in Session,
                      <<r, t, s>> \in finalised
               PROVE  /\ s.hs <= started /\ s.answer <= answered'
                      /\ s.initiator <=> (r = starter[s.hs])
                      /\ pending'[r][s.hs] # None =>
                           /\ ~pending'[r][s.hs].initiator
                           /\ pending'[r][s.hs].answer # s.answer
    BY <1>3 DEF ClosedInv
  <2>1. /\ s.hs <= started /\ s.answer <= answered
        /\ s.initiator <=> (r = starter[s.hs])
        /\ pending[r][s.hs] # None =>
             /\ ~pending[r][s.hs].initiator
             /\ pending[r][s.hs].answer # s.answer
    BY DEF TranscriptInv, ClosedInv
  <2>2. s.hs \in HsIds /\ s.answer \in Nat
    BY DEF Session, Answers
  <2>3. s.answer <= answered' /\ s.answer # answered + 1
    BY <1>2, <2>1, <2>2
  <2>. QED
    BY <1>4, <2>1, <2>2, <2>3
<1>8. OneChoice' /\ Agreement' /\ RefusedNeverOpens'
  BY <1>3, PastKept DEF TranscriptInv
<1>9. RefusedInv'
  <2> SUFFICES ASSUME NEW r \in Peers, NEW h \in HsIds, NEW a \in Answers,
                      <<r, h, a>> \in refused
               PROVE  /\ h <= started /\ a <= answered'
                      /\ \/ pending'[r][h] = None
                         \/ pending'[r][h].read
                         \/ ~pending'[r][h].initiator /\ pending'[r][h].answer # a
    BY <1>3 DEF RefusedInv
  <2>1. /\ h <= started /\ a <= answered
        /\ \/ pending[r][h] = None
           \/ pending[r][h].read
           \/ ~pending[r][h].initiator /\ pending[r][h].answer # a
    BY DEF TranscriptInv, RefusedInv
  <2>2. a <= answered' /\ a # answered + 1
    BY <1>2, <2>1 DEF Answers
  <2>. QED
    BY <1>4, <2>1, <2>2
<1>. QED
  BY <1>5, <1>6, <1>7, <1>8, <1>9 DEF TranscriptInv

\* The message a peer acts on belongs to the handshake it is in, in its role.
LEMMA ActingOn ==
  ASSUME TypeOK, NEW p \in Peers, NEW m \in net, Awaits(p, m),
         Authentic(pending[p][m.hs], m)
  PROVE  /\ m \in Message /\ m.hs \in HsIds /\ m.from \in Peers
         /\ m.answer \in Answers
         /\ m.type # "INIT" /\ m.to = p
         /\ pending[p][m.hs] # None /\ pending[p][m.hs] \in Entry
         /\ pending[p][m.hs].initiator \in BOOLEAN
         /\ ~pending[p][m.hs].read
         /\ ~pending[p][m.hs].initiator =>
              m.type = "FIN" /\ pending[p][m.hs].answer = m.answer
<1>1. m \in Message /\ m.to = p /\ pending[p][m.hs] # None /\ m.type # "INIT"
  BY DEF Awaits, TypeOK
<1>2. pending[p][m.hs] \in Entry
  BY <1>1, MessageFields DEF TypeOK
<1>. QED
  BY <1>1, <1>2, MessageFields DEF Awaits, Authentic, Entry

\* A key that is refused closes the transcript for good: it is the one the
\* peer waits for, so it never finalised it.
LEMMA RefuseKeeps ==
  ASSUME TypeOK, NEW starter \in Starters, TranscriptInv(starter),
         NEW p \in Peers, NEW m \in net, RefuseKey(p, m)
  PROVE  TranscriptInv(starter)'
<1>1. /\ m \in Message /\ m.hs \in HsIds /\ m.answer \in Answers
      /\ m.type # "INIT"
      /\ pending[p][m.hs] # None /\ pending[p][m.hs] \in Entry
      /\ ~pending[p][m.hs].initiator => pending[p][m.hs].answer = m.answer
  BY ActingOn DEF RefuseKey
<1>2. /\ pending' = [pending EXCEPT ![p][m.hs] = Read(pending[p][m.hs])]
      /\ refused' = refused \cup {<<p, m.hs, m.answer>>}
      /\ net' \subseteq net
      /\ UNCHANGED <<started, answered, finalised>>
  BY DEF RefuseKey, Delivered
<1>3. pending'[p][m.hs].read
  BY <1>1, <1>2, EntryUpdates DEF TypeOK
<1>4. NothingNew
  BY <1>1, <1>2, EntryUpdates DEF NothingNew, Followed, TypeOK
<1>5. m.hs <= started /\ m.answer <= answered
  BY <1>1 DEF TranscriptInv, NetInv
<1>6. NetInv(starter)'
  BY <1>2 DEF TranscriptInv, NetInv
<1>7. PendingInv(starter)'
  BY <1>2, <1>4 DEF TranscriptInv, PendingInv, NothingNew, Followed
<1>8. ClosedInv(starter)'
  BY <1>2, <1>4 DEF TranscriptInv, ClosedInv, NothingNew, Followed, Session
<1>9. OneChoice' /\ Agreement'
  BY <1>2 DEF TranscriptInv, OneChoice, Agreement, Mirror
<1>10. RefusedNeverOpens'
  <2>1. \A q \in Peers, s \in Session :
          <<p, q, s>> \in finalised => ~(s.hs = m.hs /\ s.answer = m.answer)
    BY <1>1 DEF TranscriptInv, ClosedInv
  <2>. QED
    BY <1>2, <2>1 DEF TranscriptInv, RefusedNeverOpens
<1>11. RefusedInv'
  BY <1>2, <1>3, <1>4, <1>5 DEF TranscriptInv, RefusedInv, NothingNew, Followed
<1>. QED
  BY <1>6, <1>7, <1>8, <1>9, <1>10, <1>11 DEF TranscriptInv

\* Who finalises a handshake never did so before: an initiator's entry is gone
\* with its session, and a responder's next answer is another one than the
\* answer the initiator took.
LEMMA NeverTwice ==
  ASSUME TypeOK, NEW starter \in Starters, TranscriptInv(starter),
         NEW p \in Peers, NEW m \in net, Finalise(p, m)
  PROVE  \A q \in Peers, s \in Session : <<p, q, s>> \in finalised => s.hs # m.hs
<1>1. /\ m.hs \in HsIds /\ m.from \in Peers /\ m.to = p
      /\ pending[p][m.hs] # None
      /\ pending[p][m.hs].initiator \in BOOLEAN
      /\ ~pending[p][m.hs].initiator =>
           m.type = "FIN" /\ pending[p][m.hs].answer = m.answer
  BY ActingOn DEF Finalise
<1> SUFFICES ASSUME NEW q \in Peers, NEW s \in Session,
                    <<p, q, s>> \in finalised, s.hs = m.hs
             PROVE  FALSE
  OBVIOUS
<1>2. /\ s.initiator <=> (p = starter[m.hs])
      /\ ~pending[p][m.hs].initiator /\ pending[p][m.hs].answer # s.answer
  BY <1>1 DEF TranscriptInv, ClosedInv
<1>3. p # starter[m.hs]
  BY <1>1, <1>2 DEF TranscriptInv, PendingInv
<1>4. PICK t \in Session : <<q, p, t>> \in finalised /\ Mirror(s, t)
  BY <1>2, <1>3 DEF TranscriptInv, Agreement
<1>5. PICK u \in Session :
        /\ <<m.from, p, u>> \in finalised
        /\ u.initiator /\ u.hs = m.hs /\ u.answer = m.answer
  BY <1>1, <1>2 DEF TranscriptInv, NetInv
<1>6. t.initiator /\ t.hs = m.hs /\ t.answer = s.answer
  BY <1>2, <1>3, <1>4 DEF Mirror, Session
<1>7. q = m.from
  BY <1>1, <1>4, <1>5, <1>6 DEF TranscriptInv, ClosedInv
<1>8. t.answer = u.answer
  BY <1>1, <1>4, <1>5, <1>6, <1>7 DEF TranscriptInv, OneChoice
<1>. QED
  BY <1>1, <1>2, <1>5, <1>6, <1>8

\* A responder finalises what the initiator finalised, and an initiator a
\* transcript that nobody finalised or refused.
LEMMA FinaliseKeeps ==
  ASSUME NoneAssumption, TypeOK, NEW starter \in Starters,
         TranscriptInv(starter), NEW p \in Peers, NEW m \in net, Finalise(p, m)
  PROVE  TranscriptInv(starter)'
<1> DEFINE entry == pending[p][m.hs]
           new == [hs |-> m.hs, answer |-> m.answer,
                   initiator |-> entry.initiator, static |-> m.static]
           fin == [type |-> "FIN", hs |-> m.hs, answer |-> m.answer,
                   from |-> p, to |-> m.from, static |-> static[p]]
<1>1. /\ m \in Message /\ m.hs \in HsIds /\ m.from \in Peers
      /\ m.answer \in Answers /\ m.type # "INIT" /\ m.to = p
      /\ entry # None /\ entry \in Entry /\ entry.initiator \in BOOLEAN
      /\ ~entry.read
      /\ ~entry.initiator => m.type = "FIN" /\ entry.answer = m.answer
  BY ActingOn DEF Finalise
<1>2. /\ new \in Session /\ NewSession(entry, m) = new
      /\ new.hs = m.hs /\ new.answer = m.answer
      /\ new.initiator = entry.initiator
  BY <1>1, NewSessionType DEF Finalise
<1>3. /\ finalised' = finalised \cup {<<p, m.from, new>>}
      /\ UNCHANGED <<started, answered, refused>>
  BY <1>2 DEF Finalise
<1>4. net' \subseteq net \cup (IF entry.initiator THEN {fin} ELSE {})
  BY DEF Finalise, Delivered
<1>5. fin.type = "FIN" /\ fin.hs = m.hs /\ fin.answer = m.answer
      /\ fin.from = p /\ fin.to = m.from
  OBVIOUS
<1>6. /\ pending'[p][m.hs] = None
      /\ \A r \in Peers, h \in HsIds : pending'[r][h] \in {None, pending[r][h]}
  BY <1>1 DEF Finalise, Without, TypeOK
<1>7. NothingNew
  BY <1>6 DEF NothingNew, Followed
<1>8. /\ m.hs <= started /\ m.answer <= answered
      /\ entry.initiator <=> (p = starter[m.hs])
  BY <1>1 DEF TranscriptInv, NetInv, PendingInv
<1>9. \A q \in Peers, s \in Session : <<p, q, s>> \in finalised => s.hs # m.hs
  BY NeverTwice
<1>10. \A r, q \in Peers, s \in Session :
         <<r, q, s>> \in finalised' =>
           \/ <<r, q, s>> \in finalised
           \/ r = p /\ q = m.from /\ s = new
  BY <1>3
<1> HIDE DEF entry, new, fin
<1>11. NetInv(starter)'
  <2> SUFFICES ASSUME NEW n \in net'
               PROVE  /\ n.hs <= started
                      /\ n.type = "INIT" => n.to # starter[n.hs]
                      /\ n.type # "INIT" => n.answer <= answered
                      /\ n.type = "FIN" =>
                           \E t \in Session :
                             /\ <<n.from, n.to, t>> \in finalised'
                             /\ t.initiator /\ t.hs = n.hs /\ t.answer = n.answer
    BY <1>3 DEF NetInv
  <2>1. CASE n \in net
    BY <1>3, <2>1 DEF TranscriptInv, NetInv
  <2>2. CASE entry.initiator /\ n = fin
    BY <1>2, <1>3, <1>5, <1>8, <2>2
  <2>. QED
    BY <1>4, <2>1, <2>2
<1>12. PendingInv(starter)'
  BY <1>3, <1>6 DEF TranscriptInv, PendingInv
<1>13. ClosedInv(starter)'
  <2> SUFFICES ASSUME NEW r \in Peers, NEW q \in Peers, NEW s \in Session,
                      <<r, q, s>> \in finalised'
               PROVE  /\ s.hs <= started /\ s.answer <= answered
                      /\ s.initiator <=> (r = starter[s.hs])
                      /\ pending'[r][s.hs] # None =>
                           /\ ~pending'[r][s.hs].initiator
                           /\ pending'[r][s.hs].answer # s.answer
    BY <1>3 DEF ClosedInv
  <2>1. CASE <<r, q, s>> \in finalised
    <3>1. s.hs \in HsIds
      BY DEF Session
    <3>2. pending'[r][s.hs] \in {None, pending[r][s.hs]}
      BY <1>6, <3>1
    <3>. QED
      BY <2>1, <3>2 DEF TranscriptInv, ClosedInv
  <2>2. CASE r = p /\ s = new
    BY <1>2, <1>6, <1>8, <2>2
  <2>. QED
    BY <1>10, <2>1, <2>2
<1>14. OneChoice'
  <2> SUFFICES ASSUME NEW r \in Peers, NEW q \in Peers, NEW u \in Peers,
                      NEW s \in Session, NEW t \in Session,
                      <<r, q, s>> \in finalised', <<r, u, t>> \in finalised',
                      s.initiator, t.initiator, s.hs = t.hs
               PROVE  s.answer = t.answer
    BY DEF OneChoice
  <2>1. CASE <<r, q, s>> \in finalised /\ <<r, u, t>> \in finalised
    BY <2>1 DEF TranscriptInv, OneChoice
  <2>2. CASE <<r, q, s>> \notin finalised
    BY <1>2, <1>9, <1>10, <2>2
  <2>3. CASE <<r, u, t>> \notin finalised
    BY <1>2, <1>9, <1>10, <2>3
  <2>. QED
    BY <2>1, <2>2, <2>3
<1>15. RefusedInv'
  BY <1>3, <1>6 DEF TranscriptInv, RefusedInv
<1>16. Agreement'
  <2> HIDE DEF new, fin, entry
  <2>0. \A x : x \in finalised => x \in finalised'
    BY <1>3
  <2> SUFFICES ASSUME NEW r \in Peers, NEW q \in Peers, NEW s \in Session,
                      <<r, q, s>> \in finalised', ~s.initiator
               PROVE  \E t \in Session : <<q, r, t>> \in finalised /\ Mirror(s, t)
    BY <2>0, Zenon DEF Agreement
  <2> USE DEF new, fin, entry
  <2>1. CASE <<r, q, s>> \in finalised
    BY <2>1 DEF TranscriptInv, Agreement
  <2>2. CASE r = p /\ q = m.from /\ s = new
    <3>1. PICK t \in Session :
            /\ <<m.from, p, t>> \in finalised
            /\ t.initiator /\ t.hs = m.hs /\ t.answer = m.answer
      BY <1>1, <1>2, <2>2 DEF TranscriptInv, NetInv
    <3>2. t.initiator = TRUE /\ s.initiator = FALSE
      BY <1>2, <2>2, <3>1 DEF Session
    <3>3. t # None /\ s # None
      BY NoneAssumption
    <3>4. s.hs = t.hs /\ s.answer = t.answer
      BY <1>2, <2>2, <3>1
    <3>5. Mirror(s, t)
      BY <3>2, <3>3, <3>4 DEF Mirror
    <3>. QED
      BY <2>2, <3>1, <3>5
  <2>. QED
    BY <1>10, <2>1, <2>2
<1>17. RefusedNeverOpens'
  <2>1. <<p, m.hs, m.answer>> \notin refused
    BY <1>1 DEF TranscriptInv, RefusedInv, entry
  <2>. QED
    BY <1>2, <1>3, <1>10, <2>1 DEF TranscriptInv, RefusedNeverOpens
<1>. QED
  BY <1>11, <1>12, <1>13, <1>14, <1>15, <1>16, <1>17 DEF TranscriptInv

\* The transcripts' invariant holds in every reachable state.
LEMMA TranscriptsInductive == Spec => []TranscriptsInv
<1> USE HandshakeAssumption, NoneAssumption
<1>1. Init => TranscriptsInv
  <2> SUFFICES ASSUME Init PROVE TranscriptsInv
    OBVIOUS
  <2>0. PICK starter \in Starters : starter = [h \in HsIds |-> None]
    BY DEF Starters
  <2>1. NetInv(starter)
    BY DEF Init, NetInv
  <2>2. PendingInv(starter)
    BY DEF Init, PendingInv
  <2>3. ClosedInv(starter) /\ OneChoice
    BY DEF Init, ClosedInv, OneChoice
  <2>4. refused = {} /\ finalised = {}
    BY DEF Init
  <2>5. RefusedInv /\ RefusedNeverOpens
    BY <2>4 DEF RefusedInv, RefusedNeverOpens
  <2>6. Agreement
    BY <2>4 DEF Agreement
  <2>. QED
    BY <2>1, <2>2, <2>3, <2>5, <2>6 DEF TranscriptInv, TranscriptsInv
<1>2. TypeOK /\ TranscriptsInv /\ [Next]_vars => TranscriptsInv'
  <2> SUFFICES ASSUME TypeOK, TranscriptsInv, [Next]_vars
               PROVE  \E starter \in Starters : TranscriptInv(starter)'
    BY DEF TranscriptsInv
  <2>1. PICK starter \in Starters : TranscriptInv(starter)
    BY DEF TranscriptsInv
  <2>2. ASSUME NEW p \in Peers, NEW q \in Peers, StartHandshake(p, q)
        PROVE  \E next \in Starters : TranscriptInv(next)'
    <3>1. PICK next \in Starters : next = [starter EXCEPT ![started + 1] = p]
      BY DEF Starters
    <3>. QED
      BY <2>1, <2>2, <3>1, StartKeeps
  <2>. QED
    BY <2>1, <2>2, QuietSteps, QuietKeeps, AnswerKeeps, RefuseKeeps, FinaliseKeeps
<1>. QED
  BY <1>1, <1>2, TypeCorrect, PTL DEF Spec

\* A responder's session stands on one its initiator finalised with it, with
\* the same transcript (handle_fin, _finalise).
THEOREM RespondersAgree == Spec => []Agreement
<1>1. TranscriptsInv => Agreement
  BY DEF TranscriptsInv, TranscriptInv
<1>. QED
  BY <1>1, TranscriptsInductive, PTL

\* A transcript that was refused for a changed key is never a session's
\* (KeyChangedError), whatever the user accepts later.
THEOREM RefusedForGood == Spec => []RefusedNeverOpens
<1>1. TranscriptsInv => RefusedNeverOpens
  BY DEF TranscriptsInv, TranscriptInv
<1>. QED
  BY <1>1, TranscriptsInductive, PTL

\* No message of a handshake that a peer completed makes it replace a session:
\* what it finalises, it finalises for the first time.
THEOREM EachOpensOnce == Spec => SessionsAreFresh
<1> DEFINE Fresh ==
      \A p, q \in Peers :
        sessions'[p][q] # sessions[p][q] /\ sessions'[p][q] # None =>
          \A r \in Peers, s \in Session :
            <<p, r, s>> \in finalised => s.hs # sessions'[p][q].hs
<1>1. TypeOK /\ TranscriptsInv /\ [Next]_vars => [Fresh]_vars
  <2> SUFFICES ASSUME TypeOK, TranscriptsInv, Next PROVE Fresh
    BY DEF vars
  <2>1. ASSUME NEW p \in Peers, NEW m \in net, Finalise(p, m) PROVE Fresh
    <3>1. \A q \in Peers, s \in Session : <<p, q, s>> \in finalised => s.hs # m.hs
      BY <2>1, NeverTwice DEF TranscriptsInv
    <3>2. NewSession(pending[p][m.hs], m).hs = m.hs
      BY DEF NewSession
    <3>3. /\ m.from \in Peers
          /\ sessions' = [sessions EXCEPT ![p][m.from] =
                             NewSession(pending[p][m.hs], m)]
      BY <2>1, FinalisedPin
    <3>4. /\ sessions'[p][m.from].hs = m.hs
          /\ \A r, q \in Peers :
               ~(r = p /\ q = m.from) => sessions'[r][q] = sessions[r][q]
      BY <3>2, <3>3 DEF TypeOK
    <3>. QED
      BY <3>1, <3>4
  <2>2. ASSUME NEW p \in Peers, Restart(p) PROVE Fresh
    BY <2>2 DEF Restart, TypeOK
  <2>3. CASE sessions' = sessions
    BY <2>3
  <2>. QED
    BY <2>1, <2>2, <2>3, PinSteps DEF MarkVerified, Repin, Forget, Decide
<1>. QED
  BY <1>1, TypeCorrect, TranscriptsInductive, PTL DEF Spec, SessionsAreFresh
=============================================================================
