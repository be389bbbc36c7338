-------------------------------- MODULE Node --------------------------------
(***************************************************************************)
(* Nodes that chat (chatbit/node.py, and the loop of `chatbit chat` in     *)
(* cli.py): what a user types, the handshake and the texts it becomes, cut *)
(* into frames, sent one by one by tasks that take turns at every await,   *)
(* and received in whatever order the mesh brings them.                    *)
(*                                                                         *)
(* The components below are taken as their own modules show them: a mesh   *)
(* hands a frame to a node at most once (Mesh), a handshake gives two      *)
(* mirrored sessions (Handshake), the ratchet opens every message of its   *)
(* session once (Ratchet), and sending may be refused (DutyCycle).  A      *)
(* handshake is named by its number; a tag is a key and an epoch.          *)
(***************************************************************************)
EXTENDS Integers, Sequences, FiniteSets

CONSTANTS
  Peers,
  Typists,       \* the peers whose users type
  None,          \* no session, no peer                  (a model value)
  Parts,         \* how many frames a message of each type is cut into
  MaxConnects,   \* bounds: handshakes,
  MaxTexts,      \*   texts of a peer,
  MaxNoise,      \*   beacons and cover frames,
  MaxEpoch,      \*   the epochs of the clocks,
  MaxRefusals,   \*   sends that raise,
  MaxQuits       \*   users who quit

Types == {"INIT", "RESP", "FIN", "DATA", "BEACON"}

ASSUME NodeAssumption ==
  /\ Typists \subseteq Peers
  /\ Parts \in [Types -> Nat \ {0}]
  /\ {MaxConnects, MaxTexts, MaxNoise, MaxEpoch, MaxRefusals, MaxQuits} \subseteq Nat

Skew == 1                        \* EPOCH_SKEW

HsIds == 1 .. MaxConnects
Epochs == 0 .. MaxEpoch
Tasks == {"loop", "chat", "beacon", "cover"}

\* What a tag is made from: a static key, the tag key of one direction of a
\* session, random bytes; BROADCAST_TAG is made from nothing.
Keys == {"static"} \X Peers \cup {"i2r", "r2i"} \X HsIds
          \cup {<<"random", None>>, <<"all", None>>}
Tag == [key : Keys, epoch : Epochs]

\* Session, with whether its ratchet has a sending chain.
Session == [hs : HsIds, initiator : BOOLEAN, chain : BOOLEAN]

ASSUME NoneAssumption == None \notin Peers /\ None \notin Session /\ None \notin BOOLEAN

\* A logical message, cut into count frames.  number counts the texts of its
\* sender; settled says that its receiver had its side of the session when it
\* was sent (history).
Message == [type : Types, from : Peers, to : Peers \cup {None},
            hs : 0 .. MaxConnects, tag : Tag, count : Nat \ {0},
            number : Nat, settled : BOOLEAN]

VARIABLES
  running,    \* the program of a peer runs
  clock,      \* the epoch on the clock of a peer
  pending,    \* SessionManager._pending: who started it, by its number
  sessions,   \* SessionManager._sessions
  order,      \* the peers of _sessions in the order of the dictionary
  target,     \* who /to chose
  discovered, \* Node.discovered
  log,        \* every message emitted so far; a frame is a position and a part
  out,        \* the frames a task still has to send
  air,        \* the frames sent
  handled,    \* the frames a peer's router has seen
  collected,  \* the frames of them its Reassembler was given
  sent,       \* how many texts a peer encrypted
  delivered,  \* which of a peer's texts came out               (history)
  received,   \* Session.messages_received, over all sessions
  inbox,      \* the messages handed to on_message              (history)
  ended,      \* why a program ended, or "no"                   (history)
  refusals    \* sends that raised so far

vars == <<running, clock, pending, sessions, order, target, discovered, log, out,
          air, handled, collected, sent, delivered, received, inbox, ended, refusals>>
chat == <<sent, delivered, received, inbox>>
table == <<pending, sessions, order>>
life == <<running, ended>>

Positions == 1 .. Len(log)
Frame(i, k) == <<i, k>>
PartsOf(i) == {Frame(i, k) : k \in 1 .. log[i].count}

\* The variables hold what the fields of the code can hold.
TypeOK ==
  /\ running \in [Peers -> BOOLEAN]
  /\ clock \in [Peers -> Epochs]
  /\ pending \in [Peers -> [HsIds -> BOOLEAN \cup {None}]]
  /\ sessions \in [Peers -> [Peers -> Session \cup {None}]]
  /\ order \in [Peers -> Seq(Peers)]
  /\ target \in [Peers -> Peers \cup {None}]
  /\ discovered \in [Peers -> SUBSET Peers]
  /\ \A i \in Positions : log[i] \in Message
  /\ out \in [Peers -> [Tasks -> Seq(UNION {PartsOf(i) : i \in Positions})]]
  /\ air \subseteq UNION {PartsOf(i) : i \in Positions}
  /\ \A p \in Peers : collected[p] \subseteq handled[p] /\ handled[p] \subseteq air
  /\ sent \in [Peers -> 0 .. MaxTexts]
  /\ received \in [Peers -> Nat]
  /\ \A p \in Peers : delivered[p] \subseteq 1 .. sent[p]
  /\ ended \in [Peers -> {"no", "quit", "refused", "no chain"}]
  /\ refusals \in 0 .. MaxRefusals

-----------------------------------------------------------------------------
(* Tags (wire/tags.py) *)

Abs(n) == IF n < 0 THEN -n ELSE n

\* Variant: only the tag of the same epoch is recognised.
MatchesNow(tag, key, now) == tag.key = key /\ tag.epoch = now

\* matches and acceptable_tags
Matches(tag, key, now) == tag.key = key /\ Abs(tag.epoch - now) <= Skew

Now(p, key) == [key |-> key, epoch |-> clock[p]]
Broadcast == [key |-> <<"all", None>>, epoch |-> 0]

\* The keys a session sends and recognises with (_finalise).
SendKey(s) == <<IF s.initiator THEN "i2r" ELSE "r2i", s.hs>>
RecvKey(s) == <<IF s.initiator THEN "r2i" ELSE "i2r", s.hs>>

\* Variant: any session of these epochs.
ByTagAny(p, tag) ==
  {q \in Peers : sessions[p][q] # None /\ Abs(tag.epoch - clock[p]) <= Skew}

\* session_by_tag: whose session at p recognises the tag.
ByTag(p, tag) ==
  {q \in Peers : sessions[p][q] # None
                   /\ Matches(tag, RecvKey(sessions[p][q]), clock[p])}

\* _is_for_us
ForUs(p, m) ==
  \/ m.tag = Broadcast
  \/ m.type = "INIT" /\ Matches(m.tag, <<"static", p>>, clock[p])
  \/ ByTag(p, m.tag) # {}

-----------------------------------------------------------------------------
(* _emit and Router.originate *)

\* What p sends to q (None: everybody): no text, or text number n.
Letter(type, p, q, h, tag, n, settled) ==
  [type |-> type, from |-> p, to |-> q, hs |-> h, tag |-> tag,
   count |-> Parts[type], number |-> n, settled |-> settled]
NoText(type, p, q, h, tag) == Letter(type, p, q, h, tag, 0, FALSE)

\* Task t of p begins to send m.
Emit(p, t, m) ==
  /\ log' = Append(log, m)
  /\ out' = [out EXCEPT ![p][t] = [k \in 1 .. m.count |-> Frame(Len(log) + 1, k)]]

Idle(p, t) == running[p] /\ out[p][t] = << >>
Prompt(p) == Idle(p, "chat") /\ p \in Typists

\* The next frame of what task t sends.
Send(p, t) ==
  /\ running[p] /\ out[p][t] # << >>
  /\ air' = air \cup {Head(out[p][t])}
  /\ out' = [out EXCEPT ![p][t] = Tail(@)]
  /\ UNCHANGED <<life, clock, table, target, discovered, log, handled, collected,
                 chat, refusals>>

\* The program ends for a reason, and its tasks with it (Node.stop).
End(p, why) ==
  /\ running' = [running EXCEPT ![p] = FALSE]
  /\ ended' = [ended EXCEPT ![p] = why]
  /\ out' = [out EXCEPT ![p] = [t \in Tasks |-> << >>]]

\* The transport raises (DutyCycleExceeded): the rest of the message is never
\* sent.  The loops suppress the exception; nothing in _run_chat catches it.
SendRaises(p, t) ==
  /\ running[p] /\ out[p][t] # << >>
  /\ refusals < MaxRefusals
  /\ refusals' = refusals + 1
  /\ IF t = "chat"
     THEN End(p, "refused")
     ELSE /\ out' = [out EXCEPT ![p][t] = << >>]
          /\ UNCHANGED life
  /\ UNCHANGED <<clock, table, target, discovered, log, air, handled, collected,
                 chat>>

-----------------------------------------------------------------------------
(* What the user types (_run_chat) *)

Handshakes == {i \in Positions : log[i].type = "INIT"}

\* /connect: start_handshake and the INIT.
Connect(p, q) ==
  LET h == Cardinality(Handshakes) + 1
  IN  /\ Prompt(p) /\ p # q
      /\ h \in HsIds
      /\ pending' = [pending EXCEPT ![p][h] = TRUE]
      /\ Emit(p, "chat", NoText("INIT", p, q, h, Now(p, <<"static", q>>)))
      /\ UNCHANGED <<life, clock, sessions, order, target, discovered, air, handled,
                     collected, chat, refusals>>

\* /to: a peer the trust store has, or somebody unknown, which chooses nobody.
To(p, q) ==
  /\ Prompt(p)
  /\ q # None => sessions[p][q] # None
  /\ target' = [target EXCEPT ![p] = q]
  /\ UNCHANGED <<life, clock, table, discovered, log, out, air, handled, collected,
                 chat, refusals>>

\* Who a line is for: the chosen one, or the first of the sessions.
Recipient(p) ==
  IF target[p] # None THEN target[p]
  ELSE IF order[p] # << >> THEN Head(order[p]) ELSE None

\* Variant: the number of the text before is used again.
NextTextAgain(p) == sent[p]

NextText(p) == sent[p] + 1

\* send_text: encrypt, and emit under the tag of this moment.
SendText(p) ==
  LET q == Recipient(p)
      s == sessions[p][q]
      t == sessions[q][p]
  IN  /\ Prompt(p) /\ q # None /\ s.chain
      /\ sent[p] < MaxTexts
      /\ sent' = [sent EXCEPT ![p] = NextText(p)]
      /\ Emit(p, "chat", Letter("DATA", p, q, s.hs, Now(p, SendKey(s)), NextText(p),
                                t # None /\ t.hs = s.hs))
      /\ UNCHANGED <<life, clock, table, target, discovered, air, handled, collected,
                     delivered, received, inbox, refusals>>

\* The ratchet has no sending chain: RatchetError leaves send_text and
\* _run_chat, which stops the node on its way.
SendTextRaises(p) ==
  /\ Prompt(p) /\ Recipient(p) # None
  /\ ~sessions[p][Recipient(p)].chain
  /\ End(p, "no chain")
  /\ UNCHANGED <<clock, table, target, discovered, log, air, handled, collected,
                 chat, refusals>>

\* /quit
Quit(p) ==
  /\ Prompt(p)
  /\ Cardinality({q \in Peers : ended[q] = "quit"}) < MaxQuits
  /\ End(p, "quit")
  /\ UNCHANGED <<clock, table, target, discovered, log, air, handled, collected,
                 chat, refusals>>

-----------------------------------------------------------------------------
(* The background loops *)

Noise(p, t, m) ==
  /\ Idle(p, t)
  /\ Cardinality({i \in Positions : log[i].type = m.type /\ log[i].hs = 0}) < MaxNoise
  /\ Emit(p, t, m)
  /\ UNCHANGED <<life, clock, table, target, discovered, air, handled, collected,
                 chat, refusals>>

\* _beacon_loop and broadcast_beacon
BeaconLoop(p) ==
  Noise(p, "beacon", NoText("BEACON", p, None, 0, Broadcast))

\* _cover_loop: DATA for nobody.
CoverLoop(p) ==
  Noise(p, "cover", NoText("DATA", p, None, 0, Now(p, <<"random", None>>)))

-----------------------------------------------------------------------------
(* Receiving: _receive_loop, Router.handle, _deliver *)

\* The next frame for the loop of p, which takes none while it sends.
Takes(p, f) ==
  /\ Idle(p, "loop")
  /\ f \in air \ handled[p] /\ log[f[1]].from # p
  /\ handled' = [handled EXCEPT ![p] = @ \cup {f}]

Kept(p, f) == IF ForUs(p, log[f[1]]) THEN collected[p] \cup {f} ELSE collected[p]

\* The frame completes its message.
Whole(p, f) == ForUs(p, log[f[1]]) /\ PartsOf(f[1]) \subseteq Kept(p, f)

Collect(p, f) == collected' = [collected EXCEPT ![p] = Kept(p, f)]

\* A frame for others, or a part of a message.
PassBy(p, f) ==
  /\ Takes(p, f) /\ ~Whole(p, f) /\ Collect(p, f)
  /\ UNCHANGED <<life, clock, table, target, discovered, log, out, air, chat,
                 refusals>>

\* _on_handshake_init: the answer goes to everybody.
OnInit(p, f) ==
  LET m == log[f[1]]
  IN  /\ m.type = "INIT"
      /\ Takes(p, f) /\ Whole(p, f) /\ Collect(p, f)
      /\ pending' = [pending EXCEPT ![p][m.hs] = FALSE]
      /\ Emit(p, "loop", NoText("RESP", p, m.from, m.hs, Broadcast))
      /\ UNCHANGED <<life, clock, sessions, order, target, discovered, air, chat,
                     refusals>>

\* _finalise, and the end of the pending handshake.
Establish(p, q, h, initiator) ==
  /\ sessions' = [sessions EXCEPT ![p][q] =
                    [hs |-> h, initiator |-> initiator, chain |-> initiator]]
  /\ order' = IF sessions[p][q] = None THEN [order EXCEPT ![p] = Append(@, q)]
              ELSE order
  /\ pending' = [pending EXCEPT ![p][h] = None]

\* _on_handshake_resp: the session stands before its FIN is sent.
OnResp(p, f) ==
  LET m == log[f[1]]
  IN  /\ m.type = "RESP" /\ pending[p][m.hs] = TRUE
      /\ Takes(p, f) /\ Whole(p, f) /\ Collect(p, f)
      /\ Establish(p, m.from, m.hs, TRUE)
      /\ Emit(p, "loop", NoText("FIN", p, m.from, m.hs, Broadcast))
      /\ UNCHANGED <<life, clock, target, discovered, air, chat, refusals>>

\* _on_handshake_fin
OnFin(p, f) ==
  LET m == log[f[1]]
  IN  /\ m.type = "FIN" /\ pending[p][m.hs] = FALSE
      /\ Takes(p, f) /\ Whole(p, f) /\ Collect(p, f)
      /\ Establish(p, m.from, m.hs, FALSE)
      /\ UNCHANGED <<life, clock, target, discovered, log, out, air, chat, refusals>>

\* A RESP or FIN of a handshake that is not pending here in that role.
OnForeign(p, f) ==
  LET m == log[f[1]]
  IN  /\ m.type \in {"RESP", "FIN"}
      /\ Takes(p, f) /\ Whole(p, f) /\ Collect(p, f)
      /\ pending[p][m.hs] # (m.type = "RESP")
      /\ UNCHANGED <<life, clock, table, target, discovered, log, out, air, chat,
                     refusals>>

\* _on_beacon
OnBeacon(p, f) ==
  /\ log[f[1]].type = "BEACON"
  /\ Takes(p, f) /\ Whole(p, f) /\ Collect(p, f)
  /\ discovered' = [discovered EXCEPT ![p] = @ \cup {log[f[1]].from}]
  /\ UNCHANGED <<life, clock, table, target, log, out, air, chat, refusals>>

\* _on_data: the session the tag belongs to opens the text, and from now on
\* has a sending chain.
OnData(p, f) ==
  LET m == log[f[1]]
  IN  /\ m.type = "DATA"
      /\ Takes(p, f) /\ Whole(p, f) /\ Collect(p, f)
      /\ \E q \in ByTag(p, m.tag) :
           /\ sessions' = [sessions EXCEPT ![p][q].chain = TRUE]
           /\ received' = [received EXCEPT ![p] = @ + 1]
           /\ delivered' = [delivered EXCEPT ![m.from] = @ \cup {m.number}]
           /\ inbox' = [inbox EXCEPT ![p] = @ \cup {<<q, f[1]>>}]
      /\ UNCHANGED <<life, clock, pending, order, target, discovered, log, out, air,
                     sent, refusals>>

Receive(p, f) ==
  \/ PassBy(p, f)
  \/ OnInit(p, f)
  \/ OnResp(p, f)
  \/ OnFin(p, f)
  \/ OnForeign(p, f)
  \/ OnBeacon(p, f)
  \/ OnData(p, f)

\* An epoch passes at p; no clock is more than an epoch from another.
Tick(p) ==
  /\ clock[p] < MaxEpoch
  /\ \A q \in Peers : clock[q] >= clock[p]
  /\ clock' = [clock EXCEPT ![p] = @ + 1]
  /\ UNCHANGED <<life, table, target, discovered, log, out, air, handled, collected,
                 chat, refusals>>

-----------------------------------------------------------------------------
Init ==
  /\ running = [p \in Peers |-> TRUE]
  /\ clock = [p \in Peers |-> 0]
  /\ pending = [p \in Peers |-> [h \in HsIds |-> None]]
  /\ sessions = [p \in Peers |-> [q \in Peers |-> None]]
  /\ order = [p \in Peers |-> << >>]
  /\ target = [p \in Peers |-> None]
  /\ discovered = [p \in Peers |-> {}]
  /\ log = << >>
  /\ out = [p \in Peers |-> [t \in Tasks |-> << >>]]
  /\ air = {}
  /\ handled = [p \in Peers |-> {}]
  /\ collected = [p \in Peers |-> {}]
  /\ sent = [p \in Peers |-> 0]
  /\ delivered = [p \in Peers |-> {}]
  /\ received = [p \in Peers |-> 0]
  /\ inbox = [p \in Peers |-> {}]
  /\ ended = [p \in Peers |-> "no"]
  /\ refusals = 0

Next ==
  \E p \in Peers :
    \/ \E t \in Tasks : Send(p, t)
    \/ \E t \in Tasks : SendRaises(p, t)
    \/ \E q \in Peers : Connect(p, q)
    \/ \E q \in Peers \cup {None} : To(p, q)
    \/ SendText(p)
    \/ SendTextRaises(p)
    \/ Quit(p)
    \/ BeaconLoop(p)
    \/ CoverLoop(p)
    \/ \E f \in air : PassBy(p, f)
    \/ \E f \in air : OnInit(p, f)
    \/ \E f \in air : OnResp(p, f)
    \/ \E f \in air : OnFin(p, f)
    \/ \E f \in air : OnForeign(p, f)
    \/ \E f \in air : OnBeacon(p, f)
    \/ \E f \in air : OnData(p, f)
    \/ Tick(p)

Spec == Init /\ [][Next]_vars

-----------------------------------------------------------------------------
(* Properties *)

\* A text is shown as coming from the one who sent it, to the one it was
\* meant for (session_by_tag, IncomingMessage.peer).
ShownTruly ==
  \A p \in Peers : \A x \in inbox[p] :
    log[x[2]].from = x[1] /\ log[x[2]].to = p

\* The handshakes that p and q ever began with each other.
Between(p, q) == {i \in Handshakes : {log[i].from, log[i].to} = {p, q}}

\* Once both sides stand, nothing more is lost by the nodes: a text of a session
\* both ends had when it was sent comes out as soon as its frames were taken,
\* within the epochs a receiver accepts, as long as the two begin no other
\* handshake (_is_for_us, acceptable_tags, the order of _emit).
SettledDelivers ==
  \A i \in Positions :
    LET m == log[i]
    IN  /\ m.type = "DATA" /\ m.settled
        /\ PartsOf(i) \subseteq handled[m.to]
        /\ Cardinality(Between(m.from, m.to)) = 1
        /\ clock[m.to] - m.tag.epoch <= Skew
        => m.number \in delivered[m.from]

\* "The responder has no sending chain until it receives its first message.
\* This is not an error state" (PROTOCOL.md 4.1): a program does not end for it.
ResponderMaySpeak == \A p \in Peers : ended[p] # "no chain"

=============================================================================
