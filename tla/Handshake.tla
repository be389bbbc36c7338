----------------------------- MODULE Handshake -----------------------------
(***************************************************************************)
(* The session managers of a set of honest peers (chatbit/session.py) and  *)
(* their in-memory trust stores (chatbit/crypto/identity.py), exchanging   *)
(* the three Noise XX messages over a medium that loses, delays, reorders  *)
(* and repeats them.                                                       *)
(*                                                                         *)
(* Cryptography is symbolic.  A run of the handshake is named by its hs_id *)
(* and by the number of the answer (each call of handle_init draws a fresh *)
(* ephemeral and ratchet key): the pair stands for the transcript, so two  *)
(* sides derive the same root and tag keys exactly if they have the same   *)
(* pair, and a message of another pair fails to decrypt.  A peer is its    *)
(* signing key; its static key is a generation number that changes when    *)
(* the node restarts with a new one.                                       *)
(***************************************************************************)
EXTENDS Naturals, FiniteSets

CONSTANTS
  Peers,          \* the peers, each named by its signing key
  None,           \* no entry, no session, no pin       (a model value)
  MaxPending,     \* MAX_PENDING_HANDSHAKES
  MaxHandshakes,  \* bound on the handshakes that are started
  MaxAnswers,     \* bound on the answers to a HANDSHAKE_INIT
  MaxStatic,      \* bound on the generations of a static key
  MaxTroubles,    \* bound on losses, repetitions, timeouts and restarts
  MaxDecisions    \* bound on what the users decide about pins

ASSUME HandshakeAssumption ==
  /\ MaxPending \in Nat \ {0}
  /\ MaxHandshakes \in Nat
  /\ MaxAnswers \in Nat
  /\ MaxStatic \in Nat \ {0}
  /\ MaxTroubles \in Nat
  /\ MaxDecisions \in Nat

HsIds   == 1 .. MaxHandshakes
Answers == 1 .. MaxAnswers
Statics == 1 .. MaxStatic

\* _PendingHandshake.  answer is 0 at an initiator, which learns it from the
\* response; read says that the message it waits for was read already (the
\* Noise state then rejects another); stale, that HANDSHAKE_TIMEOUT passed.
Entry == [initiator : BOOLEAN, answer : 0 .. MaxAnswers,
          read : BOOLEAN, stale : BOOLEAN]

\* Session: the transcript its keys come from, the role, and the static key
\* the peer had in it.
Session == [hs : HsIds, answer : Answers, initiator : BOOLEAN,
            static : Statics]

Pin == [static : Statics, verified : BOOLEAN]

ASSUME NoneAssumption == None \notin Entry \cup Session \cup Pin

Message ==
  [type : {"INIT"}, hs : HsIds, from : Peers, to : Peers, static : Statics]
    \cup
  [type : {"RESP", "FIN"}, hs : HsIds, answer : Answers, from : Peers,
   to : Peers, static : Statics]

VARIABLES
  static,     \* static[p]: the generation of p's static key
  pending,    \* pending[p][h]: SessionManager._pending
  sessions,   \* sessions[p][q]: SessionManager._sessions
  pins,       \* pins[p][q]: TrustStore._peers
  net,        \* the messages on their way
  started,    \* the handshakes started so far
  answered,   \* the answers given so far
  troubles,   \* losses, repetitions, timeouts and restarts so far
  decisions,  \* decisions of the users so far
  finalised,  \* the sessions ever finalised, with their owner and peer (history)
  refused,    \* who refused which transcript for a changed key        (history)
  compared    \* which keys of whom the user compared                  (history)

vars == <<static, pending, sessions, pins, net, started, answered, troubles,
          decisions, finalised, refused, compared>>

\* The variables hold what the fields of the code can hold.
TypeOK ==
  /\ static \in [Peers -> Statics]
  /\ pending \in [Peers -> [HsIds -> Entry \cup {None}]]
  /\ sessions \in [Peers -> [Peers -> Session \cup {None}]]
  /\ pins \in [Peers -> [Peers -> Pin \cup {None}]]
  /\ net \subseteq Message
  /\ started \in 0 .. MaxHandshakes
  /\ answered \in 0 .. MaxAnswers
  /\ troubles \in 0 .. MaxTroubles
  /\ decisions \in 0 .. MaxDecisions
  /\ finalised \subseteq (Peers \X Peers \X Session)
  /\ refused \subseteq (Peers \X HsIds \X Answers)
  /\ compared \subseteq (Peers \X Peers \X Statics)

-----------------------------------------------------------------------------
(* Pending handshakes *)

\* _expire_pending
Unexpired(entries) ==
  [h \in HsIds |-> IF entries[h] # None /\ entries[h].stale
                   THEN None ELSE entries[h]]

Open(entries) == {h \in HsIds : entries[h] # None}

\* Variant: a pending handshake that is over stays.
WithoutNothing(p, h) == pending

\* The pending handshakes of p without h.
Without(p, h) == [pending EXCEPT ![p][h] = None]

\* A delivered message is gone, or comes once more (a copy the routers did
\* not recognise).
Delivered(m, sent) ==
  \/ /\ net' = (net \ {m}) \cup sent
     /\ UNCHANGED troubles
  \/ /\ troubles < MaxTroubles
     /\ troubles' = troubles + 1
     /\ net' = net \cup sent

\* start_handshake: towards the static key the peer announces.
StartHandshake(p, q) ==
  /\ p # q
  /\ started < MaxHandshakes
  /\ started' = started + 1
  /\ pending' = [pending EXCEPT ![p] =
                   [Unexpired(@) EXCEPT ![started + 1] =
                      [initiator |-> TRUE, answer |-> 0,
                       read |-> FALSE, stale |-> FALSE]]]
  /\ net' = net \cup {[type |-> "INIT", hs |-> started + 1, from |-> p,
                       to |-> q, static |-> static[q]]}
  /\ UNCHANGED <<static, sessions, pins, answered, troubles, decisions,
                 finalised, refused, compared>>

-----------------------------------------------------------------------------
(* handle_init *)

\* An INIT is for whoever holds the static key its tag was made from.  It is
\* ignored at the cap and while a handshake of the same hs_id is pending.
Ignores(q, m) ==
  \/ m.static # static[q]
  \/ Cardinality(Open(Unexpired(pending[q]))) >= MaxPending
  \/ Unexpired(pending[q])[m.hs] # None

AnswerInit(q, m) ==
  /\ m.type = "INIT" /\ m.to = q
  /\ ~Ignores(q, m)
  /\ answered < MaxAnswers
  /\ answered' = answered + 1
  /\ pending' = [pending EXCEPT ![q] =
                   [Unexpired(@) EXCEPT ![m.hs] =
                      [initiator |-> FALSE, answer |-> answered + 1,
                       read |-> FALSE, stale |-> FALSE]]]
  /\ Delivered(m, {[type |-> "RESP", hs |-> m.hs, answer |-> answered + 1,
                    from |-> q, to |-> m.from, static |-> static[q]]})
  /\ UNCHANGED <<static, sessions, pins, started, decisions, finalised,
                 refused, compared>>

IgnoreInit(q, m) ==
  /\ m.type = "INIT" /\ m.to = q
  /\ Ignores(q, m)
  /\ pending' = IF m.static = static[q]
                THEN [pending EXCEPT ![q] = Unexpired(@)]
                ELSE pending
  /\ Delivered(m, {})
  /\ UNCHANGED <<static, sessions, pins, started, answered, decisions,
                 finalised, refused, compared>>

-----------------------------------------------------------------------------
(* handle_response and handle_fin: the shared part *)

\* Variant: the answer the initiator chose is not compared.
AuthenticAnyAnswer(entry, m) == ~entry.read

\* The transcript the message belongs to is the one its reader is in: every
\* response to an hs_id continues the initiator's transcript, a FIN only that
\* of its own answer.  A message already read does not decrypt again.
Authentic(entry, m) ==
  /\ ~entry.read
  /\ ~entry.initiator => entry.answer = m.answer

\* Variant: the roles are mixed up.
AwaitsSwapped(p, m) ==
  /\ m.to = p
  /\ pending[p][m.hs] # None
  /\ m.type = IF pending[p][m.hs].initiator THEN "FIN" ELSE "RESP"

\* The entry is there and waits for this kind of message.
Awaits(p, m) ==
  /\ m.to = p
  /\ pending[p][m.hs] # None
  /\ m.type = IF pending[p][m.hs].initiator THEN "RESP" ELSE "FIN"

\* TrustStore.observe: an unknown peer is pinned, a known one must come with
\* the key it is pinned with.  The pins that may result: none for a changed key.
PinFirst(p, m) ==
  [pins EXCEPT ![p][m.from] = [static |-> m.static, verified |-> FALSE]]

\* Variant: only a verified peer is held to its key.
ObserveLax(p, m) ==
  CASE pins[p][m.from] = None -> {PinFirst(p, m)}
    [] OTHER -> {x \in {pins} : x[p][m.from].verified =>
                                   x[p][m.from].static = m.static}

Observe(p, m) ==
  IF pins[p][m.from] = None
  THEN {PinFirst(p, m)}
  ELSE {x \in {pins} : x[p][m.from].static = m.static}

KeyChanged(p, m) == Observe(p, m) = {}

\* A message for no pending handshake, or of the wrong role, is dropped.
IgnoreMessage(p, m) ==
  /\ m.type # "INIT" /\ m.to = p
  /\ ~Awaits(p, m)
  /\ Delivered(m, {})
  /\ UNCHANGED <<static, pending, sessions, pins, started, answered, decisions,
                 finalised, refused, compared>>

\* NoiseError: the pending handshake is deleted.
RejectMessage(p, m) ==
  /\ Awaits(p, m)
  /\ ~Authentic(pending[p][m.hs], m)
  /\ pending' = Without(p, m.hs)
  /\ Delivered(m, {})
  /\ UNCHANGED <<static, sessions, pins, started, answered, decisions,
                 finalised, refused, compared>>

\* Variant: reading the message leaves no trace in the Noise state.
ReadOnceMore(entry) == entry

\* read_message_2 and read_message_3 advance the Noise state.
Read(entry) == [entry EXCEPT !.read = TRUE]

\* KeyChangedError leaves the handler before it deletes the pending entry.
RefuseKey(p, m) ==
  /\ Awaits(p, m)
  /\ Authentic(pending[p][m.hs], m)
  /\ KeyChanged(p, m)
  /\ pending' = [pending EXCEPT ![p][m.hs] = Read(@)]
  /\ refused' = refused \cup {<<p, m.hs, m.answer>>}
  /\ Delivered(m, {})
  /\ UNCHANGED <<static, sessions, pins, started, answered, decisions,
                 finalised, compared>>

\* The session's keys come from the reader's own transcript, which at the
\* initiator is the one the response completes.
NewSession(entry, m) ==
  [hs |-> m.hs, answer |-> IF entry.initiator THEN m.answer ELSE entry.answer,
   initiator |-> entry.initiator, static |-> m.static]

\* _pin and _finalise: the session replaces the one there was, and the
\* initiator sends its FIN.
Finalise(p, m) ==
  LET entry == pending[p][m.hs]
      session == NewSession(entry, m)
      fin == [type |-> "FIN", hs |-> m.hs, answer |-> m.answer, from |-> p,
              to |-> m.from, static |-> static[p]]
  IN  /\ Awaits(p, m)
      /\ Authentic(entry, m)
      /\ pins' \in Observe(p, m)
      /\ sessions' = [sessions EXCEPT ![p][m.from] = session]
      /\ finalised' = finalised \cup {<<p, m.from, session>>}
      /\ pending' = Without(p, m.hs)
      /\ Delivered(m, IF entry.initiator THEN {fin} ELSE {})
      /\ UNCHANGED <<static, started, answered, decisions, refused, compared>>

Receive(p) ==
  \E m \in net :
    \/ AnswerInit(p, m)
    \/ IgnoreInit(p, m)
    \/ IgnoreMessage(p, m)
    \/ RejectMessage(p, m)
    \/ RefuseKey(p, m)
    \/ Finalise(p, m)

-----------------------------------------------------------------------------
(* The user's decisions: TrustStore.mark_verified, repin and forget *)

Decide(p, q) ==
  /\ decisions < MaxDecisions
  /\ decisions' = decisions + 1
  /\ pins[p][q] # None
  /\ UNCHANGED <<static, pending, sessions, net, started, answered, troubles,
                 finalised, refused>>

MarkVerified(p, q) ==
  /\ Decide(p, q)
  /\ pins' = [pins EXCEPT ![p][q].verified = TRUE]
  /\ compared' = compared \cup {<<p, q, pins[p][q].static>>}

\* Variant: a re-pinned peer stays verified.
RepinKeepsVerified(p, q) ==
  /\ Decide(p, q)
  /\ \E s \in Statics : pins' = [pins EXCEPT ![p][q].static = s]
  /\ UNCHANGED compared

Repin(p, q) ==
  /\ Decide(p, q)
  /\ \E s \in Statics :
       pins' = [pins EXCEPT ![p][q] = [static |-> s, verified |-> FALSE]]
  /\ UNCHANGED compared

Forget(p, q) ==
  /\ Decide(p, q)
  /\ pins' = [pins EXCEPT ![p][q] = None]
  /\ UNCHANGED compared

-----------------------------------------------------------------------------
(* What goes wrong *)

Trouble == troubles < MaxTroubles /\ troubles' = troubles + 1

Lose(m) ==
  /\ Trouble
  /\ net' = net \ {m}
  /\ UNCHANGED <<static, pending, sessions, pins, started, answered, decisions,
                 finalised, refused, compared>>

\* HANDSHAKE_TIMEOUT passes for what is pending at p.
TimeOut(p) ==
  /\ Trouble
  /\ Open(pending[p]) # {}
  /\ pending' = [pending EXCEPT ![p] =
                   [h \in HsIds |-> IF @[h] = None THEN None
                                    ELSE [@[h] EXCEPT !.stale = TRUE]]]
  /\ UNCHANGED <<static, sessions, pins, net, started, answered, decisions,
                 finalised, refused, compared>>

\* The program ends and starts again: sessions and pending handshakes are
\* gone, the pins are read back, and the static key may be a new one.
Restart(p) ==
  /\ Trouble
  /\ \E s \in {static[p], static[p] + 1} \cap Statics :
       static' = [static EXCEPT ![p] = s]
  /\ pending' = [pending EXCEPT ![p] = [h \in HsIds |-> None]]
  /\ sessions' = [sessions EXCEPT ![p] = [q \in Peers |-> None]]
  /\ UNCHANGED <<pins, net, started, answered, decisions, finalised, refused,
                 compared>>

-----------------------------------------------------------------------------
Init ==
  /\ static = [p \in Peers |-> 1]
  /\ pending = [p \in Peers |-> [h \in HsIds |-> None]]
  /\ sessions = [p \in Peers |-> [q \in Peers |-> None]]
  /\ pins = [p \in Peers |-> [q \in Peers |-> None]]
  /\ net = {}
  /\ started = 0
  /\ answered = 0
  /\ troubles = 0
  /\ decisions = 0
  /\ finalised = {}
  /\ refused = {}
  /\ compared = {}

Next ==
  \/ \E p, q \in Peers : StartHandshake(p, q)
  \/ \E p \in Peers : \E m \in net : AnswerInit(p, m)
  \/ \E p \in Peers : \E m \in net : IgnoreInit(p, m)
  \/ \E p \in Peers : \E m \in net : IgnoreMessage(p, m)
  \/ \E p \in Peers : \E m \in net : RejectMessage(p, m)
  \/ \E p \in Peers : \E m \in net : RefuseKey(p, m)
  \/ \E p \in Peers : \E m \in net : Finalise(p, m)
  \/ \E p, q \in Peers : MarkVerified(p, q)
  \/ \E p, q \in Peers : Repin(p, q)
  \/ \E p, q \in Peers : Forget(p, q)
  \/ \E m \in net : Lose(m)
  \/ \E p \in Peers : TimeOut(p)
  \/ \E p \in Peers : Restart(p)

Spec == Init /\ [][Next]_vars

\* A message the medium does not lose is received in the end.
FairSpec == Spec /\ \A p \in Peers : WF_vars(Receive(p))

-----------------------------------------------------------------------------
(* Properties *)

\* Two sessions derive the same keys and use them in opposite directions:
\* what one sends with is what the other recognises.
Mirror(s, t) ==
  /\ s # None /\ t # None
  /\ s.hs = t.hs
  /\ s.answer = t.answer
  /\ s.initiator = ~t.initiator

\* An identity proof is bound to one run of the handshake (SECURITY.md): a
\* responder has a session with q only if q itself finalised the same
\* transcript, as initiator and with this responder, whatever was repeated or
\* answered twice.
Agreement ==
  \A p, q \in Peers, s \in Session :
    <<p, q, s>> \in finalised /\ ~s.initiator =>
      \E t \in Session : <<q, p, t>> \in finalised /\ Mirror(s, t)

\* One handshake opens a session at most once on each side: no repeated or
\* late message makes a peer replace its session by one of a handshake it
\* completed before.
SessionsAreFresh ==
  [][\A p, q \in Peers :
       sessions'[p][q] # sessions[p][q] /\ sessions'[p][q] # None =>
         \A r \in Peers, s \in Session :
           <<p, r, s>> \in finalised => s.hs # sessions'[p][q].hs]_vars

\* A changed key aborts (KeyChangedError): a transcript in which a peer came
\* with another key than the pinned one never becomes a session, not even
\* after the user accepts the new key and the message comes again.
RefusedNeverOpens ==
  \A p, q \in Peers, s \in Session :
    <<p, q, s>> \in finalised => <<p, s.hs, s.answer>> \notin refused

\* "Verified" is about a key, never about a name: a pin is marked verified only
\* with the very key the user compared, through every re-pin.
VerifiedWasCompared ==
  \A p, q \in Peers :
    pins[p][q] # None /\ pins[p][q].verified =>
      <<p, q, pins[p][q].static>> \in compared

\* Without a decision of the user in between, a session is with the key that
\* is pinned, through restarts and changed keys.
SessionOnPin ==
  decisions = 0 =>
    \A p, q \in Peers : sessions[p][q] # None =>
      pins[p][q] # None /\ pins[p][q].static = sessions[p][q].static

\* Handshake h is the only thing going on, and nothing went wrong so far.
Alone(p, h) ==
  /\ troubles = 0 /\ decisions = 0 /\ started = h
  /\ \A q \in Peers : Open(pending[q]) \subseteq {h}
  /\ \A m \in net : m.hs = h
  /\ pending[p][h] # None /\ pending[p][h].initiator

\* A handshake that meets no other and no trouble ends with two sessions that
\* mirror each other (PROTOCOL.md 3.3).
Completes ==
  \A p \in Peers, h \in HsIds :
    Alone(p, h) ~> \/ troubles > 0 \/ decisions > 0 \/ started > h
                  \/ \E q \in Peers :
                       /\ Mirror(sessions[p][q], sessions[q][p])
                       /\ sessions[p][q].hs = h

\* "The initiator sends with i2r_tag_key and recognises r2i_tag_key; the
\* responder is the mirror image" (PROTOCOL.md 3.3): once the medium is quiet
\* and nothing went wrong, two peers with sessions can talk through them.
\* Two handshakes that cross break it: each side keeps the session it
\* finalised last (_finalise).
EstablishedMirrors ==
  net = {} /\ troubles = 0 /\ decisions = 0 =>
    \A p, q \in Peers :
      sessions[p][q] # None /\ sessions[q][p] # None =>
        Mirror(sessions[p][q], sessions[q][p])

\* "Pending handshakes are capped at 32" (SECURITY.md): handle_init refuses at
\* the limit, but start_handshake never looks at it.
PendingCapped == \A p \in Peers : Cardinality(Open(pending[p])) <= MaxPending
=============================================================================
