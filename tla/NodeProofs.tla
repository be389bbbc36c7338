------------------------------ MODULE NodeProofs ------------------------------
(***************************************************************************)
(* Proofs about Node, for every set of peers, every number of frames that  *)
(* messages are cut into, and all bounds: a text is shown as from its      *)
(* sender, comes out once at most, and comes out if both ends stand.       *)
(***************************************************************************)
EXTENDS Node, FiniteSetTheorems, TLAPS

\* The frames that were ever cut.
Cut == UNION {PartsOf(i) : i \in Positions}

\* Handshake h was begun by p with q.
Began(h, p, q) ==
  \E i \in Handshakes : log[i].hs = h /\ log[i].from = p /\ log[i].to = q

\* The types, with what TypeOK does not say of the domains.
Shapes ==
  /\ TypeOK
  /\ log \in Seq(Message)
  /\ handled \in [Peers -> SUBSET Cut] /\ collected \in [Peers -> SUBSET Cut]
  /\ delivered \in [Peers -> SUBSET Nat]
  /\ inbox \in [Peers -> SUBSET (Peers \X Positions)]

\* Who is written to has a session.
KnownInv ==
  \A p \in Peers :
    /\ target[p] # None => sessions[p][target[p]] # None
    /\ \A k \in DOMAIN order[p] : sessions[p][order[p][k]] # None

\* Handshakes have numbers of their own.
NumbersInv ==
  /\ \A i \in Handshakes : log[i].hs \in 1 .. Cardinality(Handshakes)
  /\ \A i, j \in Handshakes : log[i].hs = log[j].hs => i = j

\* What every message of a kind says of the handshake it belongs to.
Cover(m) == m.to = None /\ m.tag.key = <<"random", None>> /\ ~m.settled
Text(m) ==
  /\ m.to \in Peers /\ m.number \in 1 .. sent[m.from]
  /\ m.tag.epoch <= clock[m.from]
  /\ \/ m.tag.key = <<"i2r", m.hs>> /\ Began(m.hs, m.from, m.to)
     \/ m.tag.key = <<"r2i", m.hs>> /\ Began(m.hs, m.to, m.from)
LetterOK(m) ==
  /\ m.type = "INIT" => /\ m.to \in Peers /\ m.to # m.from /\ m.hs \in HsIds
                        /\ m.tag.key = <<"static", m.to>>
  /\ m.type = "RESP" => Began(m.hs, m.to, m.from)
  /\ m.type = "FIN" => Began(m.hs, m.from, m.to)
  /\ m.type = "DATA" => Cover(m) \/ Text(m)
LogInv == \A i \in Positions : LetterOK(log[i])

\* The role a peer waits or talks in is the one it has in that handshake.
PendingInv ==
  \A p \in Peers, h \in HsIds :
    /\ pending[p][h] = TRUE => \E q \in Peers : Began(h, p, q)
    /\ pending[p][h] = FALSE => \E q \in Peers : Began(h, q, p)
SessionOK(p, q, s) ==
  /\ s.initiator = TRUE => Began(s.hs, p, q)
  /\ s.initiator = FALSE => Began(s.hs, q, p)
SessionsInv ==
  \A p, q \in Peers : sessions[p][q] # None => SessionOK(p, q, sessions[p][q])

\* The texts of a peer have numbers of their own.
IsText(i) == log[i].type = "DATA" /\ log[i].to \in Peers
TextsInv ==
  \A i, j \in Positions :
    IsText(i) /\ IsText(j) /\ log[i].from = log[j].from
      /\ log[i].number = log[j].number => i = j

\* What came out was taken as a whole by its receiver.
Taken(i) == PartsOf(i) \subseteq handled[log[i].to]
CameOutInv ==
  \A p \in Peers : \A k \in delivered[p] :
    \E i \in Positions :
      IsText(i) /\ log[i].from = p /\ log[i].number = k /\ Taken(i)

\* No clock is more than an epoch from another.
ClockInv == \A p, q \in Peers : clock[p] <= clock[q] + 1

\* What a text needs that was sent when both ends stood.
OnlyOne(p, q) == \A i, j \in Between(p, q) : i = j
SettledOK(i) ==
  LET m == log[i]
      t == sessions[m.to][m.from]
  IN  /\ t # None /\ t.hs = m.hs
      /\ clock[m.to] - m.tag.epoch <= Skew =>
           /\ PartsOf(i) \cap handled[m.to] \subseteq collected[m.to]
           /\ Taken(i) => m.number \in delivered[m.from]
SettledInv ==
  \A i \in Positions :
    IsText(i) /\ log[i].settled /\ OnlyOne(log[i].from, log[i].to) => SettledOK(i)

NodeInv ==
  /\ Shapes
  /\ KnownInv
  /\ NumbersInv
  /\ LogInv
  /\ PendingInv
  /\ SessionsInv
  /\ TextsInv
  /\ CameOutInv
  /\ ClockInv
  /\ SettledInv
  /\ ShownTruly
-----------------------------------------------------------------------------
(* The log grows, and what is said of it stays true *)

\* Nothing is taken from the log, and counters and clocks only rise.
Onward ==
  /\ Positions \subseteq Positions'
  /\ \A i \in Positions : log'[i] = log[i]
  /\ \A p \in Peers : sent[p] <= sent'[p] /\ clock[p] <= clock'[p]

\* A message is written behind the others.
Writes(m) ==
  /\ Onward
  /\ log' \in Seq(Message) /\ Len(log') = Len(log) + 1
  /\ Positions' = Positions \cup {Len(log) + 1} /\ Len(log) + 1 \notin Positions
  /\ log'[Len(log) + 1] = m

\* The tag for everybody is made from nothing; no epoch is before the first.
LEMMA Letters ==
  ASSUME NodeAssumption, NEW type \in Types, NEW p \in Peers,
         NEW q \in Peers \cup {None}, NEW h \in 0 .. MaxConnects,
         NEW tag \in Tag, NEW n \in Nat, NEW b \in BOOLEAN
  PROVE  /\ Letter(type, p, q, h, tag, n, b) \in Message
         /\ Letter(type, p, q, h, tag, n, b).type = type
         /\ Letter(type, p, q, h, tag, n, b).from = p
         /\ Letter(type, p, q, h, tag, n, b).to = q
         /\ Letter(type, p, q, h, tag, n, b).hs = h
         /\ Letter(type, p, q, h, tag, n, b).tag = tag
         /\ Letter(type, p, q, h, tag, n, b).number = n
         /\ Letter(type, p, q, h, tag, n, b).settled = b
<1>1. Parts[type] \in Nat \ {0}
  BY DEF NodeAssumption
<1>. QED
  BY <1>1 DEF Letter, Message

\* Emit writes its message.
LEMMA Emitting ==
  ASSUME Shapes, NEW p \in Peers, NEW t \in Tasks, NEW m \in Message,
         Emit(p, t, m),
         \A q \in Peers : sent[q] <= sent'[q] /\ clock[q] <= clock'[q]
  PROVE  Writes(m)
<1>1. log' = Append(log, m) /\ log \in Seq(Message)
  BY DEF Emit, Shapes
<1>2. \A s \in Seq(Message), x \in Message :
        /\ Append(s, x) \in Seq(Message) /\ Len(Append(s, x)) = Len(s) + 1
        /\ \A i \in 1 .. Len(s) : Append(s, x)[i] = s[i]
        /\ Append(s, x)[Len(s) + 1] = x
        /\ 1 .. Len(s) + 1 = 1 .. Len(s) \cup {Len(s) + 1}
        /\ Len(s) + 1 \notin 1 .. Len(s)
  OBVIOUS
<1>3. /\ log' \in Seq(Message) /\ Len(log') = Len(log) + 1
      /\ \A i \in 1 .. Len(log) : log'[i] = log[i]
      /\ log'[Len(log) + 1] = m
      /\ 1 .. Len(log) + 1 = 1 .. Len(log) \cup {Len(log) + 1}
      /\ Len(log) + 1 \notin 1 .. Len(log)
  BY <1>1, <1>2
<1>. QED
  BY <1>3 DEF Writes, Onward, Positions

\* Who began a handshake has begun it for good.
LEMMA BegunStays ==
  ASSUME Onward, NEW h, NEW p, NEW q, Began(h, p, q)
  PROVE  Began(h, p, q)'
  BY DEF Onward, Began, Handshakes

\* A frame belongs to one message, and its message stays as it is.
LEMMA CutStays ==
  ASSUME Onward
  PROVE  /\ \A i \in Positions : PartsOf(i)' = PartsOf(i)
         /\ Cut \subseteq Cut'
<1>1. \A i \in Positions : PartsOf(i)' = PartsOf(i)
  BY DEF Onward, PartsOf, Frame
<1>2. Positions \subseteq Positions'
  BY DEF Onward
<1>. QED
  BY <1>1, <1>2 DEF Cut

\* A frame that was cut names the message it is of.
LEMMA CutParts ==
  ASSUME NEW f \in Cut
  PROVE  f[1] \in Positions /\ f \in PartsOf(f[1])
<1>1. PICK i \in Positions : f \in PartsOf(i)
  BY DEF Cut
<1>2. f[1] = i
  BY <1>1 DEF PartsOf, Frame
<1>. QED
  BY <1>1, <1>2

\* No two messages have a frame in common.
LEMMA PartsApart ==
  ASSUME NEW i, NEW f \in PartsOf(i)
  PROVE  f[1] = i
  BY DEF PartsOf, Frame

\* Two statements about one handshake are about the same peers.
LEMMA BegunOnce ==
  ASSUME NumbersInv, NEW h, NEW p, NEW q, NEW r, NEW s,
         Began(h, p, q), Began(h, r, s)
  PROVE  p = r /\ q = s
  BY DEF NumbersInv, Began

\* Two peers are in a handshake, and they are not the same.
LEMMA BegunApart ==
  ASSUME Shapes, LogInv, NEW h, NEW p, NEW q, Began(h, p, q)
  PROVE  h \in HsIds /\ p \in Peers /\ q \in Peers /\ p # q
<1>1. PICK i \in Handshakes : log[i].hs = h /\ log[i].from = p /\ log[i].to = q
  BY DEF Began
<1>2. i \in Positions /\ log[i].type = "INIT" /\ LetterOK(log[i])
  BY <1>1 DEF LogInv, Handshakes
<1>3. log[i] \in Message
  BY <1>2 DEF Shapes, TypeOK
<1>. QED
  BY <1>1, <1>2, <1>3 DEF LetterOK, Message

\* Counters and clocks are numbers, before a step and after it.
LEMMA Counts ==
  /\ Shapes => \A p \in Peers : sent[p] \in Nat /\ clock[p] \in Nat
  /\ Shapes' => \A p \in Peers : sent'[p] \in Nat /\ clock'[p] \in Nat
<1>1. \A n : \A i \in 0 .. n : i \in Nat
  OBVIOUS
<1>2. ASSUME Shapes PROVE \A p \in Peers : sent[p] \in Nat /\ clock[p] \in Nat
  <2>1. sent \in [Peers -> 0 .. MaxTexts] /\ clock \in [Peers -> 0 .. MaxEpoch]
    BY <1>2 DEF Shapes, TypeOK, Epochs
  <2>. QED
    BY <1>1, <2>1
<1>3. ASSUME Shapes' PROVE \A p \in Peers : sent'[p] \in Nat /\ clock'[p] \in Nat
  <2>1. sent' \in [Peers -> 0 .. MaxTexts] /\ clock' \in [Peers -> 0 .. MaxEpoch]
    BY <1>3 DEF Shapes, TypeOK, Epochs
  <2>. QED
    BY <1>1, <2>1
<1>. QED
  BY <1>2, <1>3

\* What a message says stays true.
LEMMA LetterStays ==
  ASSUME Shapes, Onward, NEW m \in Message, LetterOK(m), Shapes'
  PROVE  LetterOK(m)'
<1>1. m.type \in Types /\ m.from \in Peers
  BY DEF Message
<1>2. CASE m.type = "DATA" /\ Text(m)
  <2>1. m.number \in 1 .. sent'[m.from]
    <3>1. sent[m.from] \in Nat /\ sent'[m.from] \in Nat
      BY <1>1, Counts
    <3>. QED
      BY <1>1, <1>2, <3>1 DEF Text, Onward
  <2>2. m.tag.epoch <= clock'[m.from]
    <3>1. m.tag.epoch \in Nat /\ clock[m.from] \in Nat /\ clock'[m.from] \in Nat
      BY <1>1, Counts DEF Message, Tag, Epochs
    <3>. QED
      BY <1>1, <1>2, <3>1 DEF Text, Onward
  <2>3. \/ m.tag.key = <<"i2r", m.hs>> /\ Began(m.hs, m.from, m.to)'
        \/ m.tag.key = <<"r2i", m.hs>> /\ Began(m.hs, m.to, m.from)'
    BY <1>2, BegunStays DEF Text
  <2>. QED
    BY <1>2, <2>1, <2>2, <2>3 DEF LetterOK, Text
<1>3. CASE m.type = "DATA" /\ Cover(m)
  BY <1>3 DEF LetterOK, Cover
<1>4. CASE m.type = "RESP"
  BY <1>4, BegunStays DEF LetterOK
<1>5. CASE m.type = "FIN"
  BY <1>5, BegunStays DEF LetterOK
<1>6. CASE m.type \in {"INIT", "BEACON"}
  BY <1>6 DEF LetterOK
<1>. QED
  BY <1>1, <1>2, <1>3, <1>4, <1>5, <1>6 DEF LetterOK, Types

-----------------------------------------------------------------------------
(* The steps that write a message, and what they write *)

\* The message of a frame in the air.
LEMMA Airborne ==
  ASSUME Shapes, NEW f \in air
  PROVE  /\ f \in Cut /\ f[1] \in Positions /\ f \in PartsOf(f[1])
         /\ log[f[1]] \in Message
         /\ log[f[1]].from \in Peers /\ log[f[1]].hs \in 0 .. MaxConnects
<1>1. f \in Cut
  BY DEF Shapes, TypeOK, Cut
<1>2. f[1] \in Positions /\ f \in PartsOf(f[1])
  BY <1>1, CutParts
<1>3. log[f[1]] \in Message
  BY <1>2 DEF Shapes, TypeOK
<1>. QED
  BY <1>1, <1>2, <1>3 DEF Message

\* A line is for somebody with whom there is a session.
LEMMA Recipients ==
  ASSUME Shapes, KnownInv, NEW p \in Peers, Recipient(p) # None
  PROVE  /\ Recipient(p) \in Peers /\ sessions[p][Recipient(p)] \in Session
         /\ sessions[p][Recipient(p)] # None
<1>1. /\ target[p] \in Peers \cup {None} /\ order[p] \in Seq(Peers)
      /\ \A q \in Peers : sessions[p][q] \in Session \cup {None}
  BY DEF Shapes, TypeOK
<1>2. CASE target[p] # None
  BY <1>1, <1>2 DEF Recipient, KnownInv
<1>3. CASE target[p] = None
  <2>1. order[p] # << >> /\ Recipient(p) = Head(order[p])
    BY <1>3 DEF Recipient
  <2>2. \A s \in Seq(Peers) : s # << >> => 1 \in DOMAIN s /\ Head(s) = s[1] /\ s[1] \in Peers
    OBVIOUS
  <2>3. 1 \in DOMAIN order[p] /\ Recipient(p) = order[p][1] /\ order[p][1] \in Peers
    BY <1>1, <2>1, <2>2
  <2>4. sessions[p][order[p][1]] # None
    BY <2>3 DEF KnownInv
  <2>. QED
    BY <1>1, <2>3, <2>4
<1>. QED
  BY <1>2, <1>3

\* The tags that are used.
LEMMA TagTypes ==
  ASSUME Shapes, NodeAssumption, NEW p \in Peers
  PROVE  /\ \A key \in Keys : /\ Now(p, key) \in Tag /\ Now(p, key).key = key
                              /\ Now(p, key).epoch = clock[p]
         /\ Broadcast \in Tag /\ Broadcast.key = <<"all", None>>
         /\ \A q \in Peers : <<"static", q>> \in Keys
         /\ \A s \in Session : SendKey(s) \in Keys
         /\ <<"random", None>> \in Keys
<1>1. clock[p] \in Epochs /\ 0 \in Epochs
  <2>1. clock[p] \in Epochs
    BY DEF Shapes, TypeOK
  <2>2. MaxEpoch \in Nat
    BY DEF NodeAssumption
  <2>. QED
    BY <2>1, <2>2 DEF Epochs
<1>2. \A s \in Session : s.hs \in HsIds
  BY DEF Session
<1>. QED
  BY <1>1, <1>2 DEF Now, Tag, Keys, Broadcast, SendKey

\* The texts of the six steps that write one.
InitOf(p, q) ==
  NoText("INIT", p, q, Cardinality(Handshakes) + 1, Now(p, <<"static", q>>))
TextOf(p) ==
  LET q == Recipient(p)
      s == sessions[p][q]
      t == sessions[q][p]
  IN  Letter("DATA", p, q, s.hs, Now(p, SendKey(s)), NextText(p),
             t # None /\ t.hs = s.hs)
BeaconOf(p) == NoText("BEACON", p, None, 0, Broadcast)
CoverOf(p) == NoText("DATA", p, None, 0, Now(p, <<"random", None>>))
AnswerOf(type, p, f) == NoText(type, p, log[f[1]].from, log[f[1]].hs, Broadcast)

\* /connect writes an INIT.
LEMMA ConnectWrites ==
  ASSUME NodeAssumption, Shapes, NEW p \in Peers, NEW q \in Peers, Connect(p, q)
  PROVE  InitOf(p, q) \in Message /\ Writes(InitOf(p, q))
<1>1. Cardinality(Handshakes) + 1 \in 0 .. MaxConnects
  BY DEF Connect, HsIds
<1>2. Now(p, <<"static", q>>) \in Tag
  BY TagTypes
<1>3. InitOf(p, q) \in Message
  <2>1. "INIT" \in Types /\ q \in Peers \cup {None} /\ 0 \in Nat /\ FALSE \in BOOLEAN
    BY DEF Types
  <2>. QED
    BY <1>1, <1>2, <2>1, Letters DEF InitOf, NoText
<1>4. Emit(p, "chat", InitOf(p, q)) /\ sent' = sent /\ clock' = clock
  BY DEF Connect, InitOf, chat
<1>5. "chat" \in Tasks /\ \A r \in Peers : sent[r] <= sent'[r] /\ clock[r] <= clock'[r]
  BY <1>4, Counts DEF Tasks
<1>. QED
  BY <1>3, <1>4, <1>5, Emitting

\* send_text writes a text for somebody with whom there is a session.
LEMMA SendTextWrites ==
  ASSUME NodeAssumption, Shapes, KnownInv, NEW p \in Peers, SendText(p)
  PROVE  /\ TextOf(p) \in Message /\ Writes(TextOf(p))
         /\ Recipient(p) \in Peers /\ sessions[p][Recipient(p)] \in Session
         /\ sessions[p][Recipient(p)] # None
<1> DEFINE q == Recipient(p)
           s == sessions[p][q]
           t == sessions[q][p]
           settled == t # None /\ t.hs = s.hs
<1>1. q \in Peers /\ s \in Session /\ s # None
  BY Recipients DEF SendText
<1>2. s.hs \in 0 .. MaxConnects
  BY <1>1 DEF Session, HsIds
<1>3. Now(p, SendKey(s)) \in Tag
  BY <1>1, TagTypes
<1>4. NextText(p) \in Nat
  BY Counts DEF NextText
<1> HIDE DEF q, s, t
<1>5. settled \in BOOLEAN
  OBVIOUS
<1> HIDE DEF settled
<1>6. TextOf(p) = Letter("DATA", p, q, s.hs, Now(p, SendKey(s)), NextText(p), settled)
  BY DEF TextOf, q, s, t, settled
<1>7. TextOf(p) \in Message
  <2>1. "DATA" \in Types /\ q \in Peers \cup {None}
    BY <1>1 DEF Types
  <2>2. \A h \in 0 .. MaxConnects, tag \in Tag, n \in Nat, b \in BOOLEAN :
          Letter("DATA", p, q, h, tag, n, b) \in Message
    BY <2>1, Letters
  <2>. QED
    BY <1>2, <1>3, <1>4, <1>5, <1>6, <2>2
<1>8. Emit(p, "chat", TextOf(p)) /\ clock' = clock
      /\ sent' = [sent EXCEPT ![p] = NextText(p)]
  BY DEF SendText, TextOf
<1>9. "chat" \in Tasks /\ \A r \in Peers : sent[r] <= sent'[r] /\ clock[r] <= clock'[r]
  <2>1. DOMAIN sent = Peers
    BY DEF Shapes, TypeOK
  <2>2. \A r \in Peers : sent'[r] = IF r = p THEN sent[p] + 1 ELSE sent[r]
    BY <1>8, <2>1 DEF NextText
  <2>. QED
    BY <1>8, <2>2, Counts DEF Tasks
<1>. QED
  BY <1>1, <1>7, <1>8, <1>9, Emitting DEF q, s

\* The background loops write a beacon, and DATA for nobody.
LEMMA NoiseWrites ==
  ASSUME NodeAssumption, Shapes, NEW p \in Peers
  PROVE  /\ BeaconLoop(p) => BeaconOf(p) \in Message /\ Writes(BeaconOf(p))
         /\ CoverLoop(p) => CoverOf(p) \in Message /\ Writes(CoverOf(p))
<1>1. /\ "BEACON" \in Types /\ "DATA" \in Types /\ None \in Peers \cup {None}
      /\ 0 \in Nat /\ FALSE \in BOOLEAN /\ 0 \in 0 .. MaxConnects
  BY DEF Types, NodeAssumption
<1>2. Broadcast \in Tag /\ Now(p, <<"random", None>>) \in Tag
  BY TagTypes
<1>3. BeaconOf(p) \in Message /\ CoverOf(p) \in Message
  BY <1>1, <1>2, Letters DEF BeaconOf, CoverOf, NoText
<1>4. "beacon" \in Tasks /\ "cover" \in Tasks
  BY DEF Tasks
<1>5. \A r \in Peers : sent[r] <= sent[r] /\ clock[r] <= clock[r]
  BY Counts
<1>6. ASSUME BeaconLoop(p) PROVE Writes(BeaconOf(p))
  <2>1. Emit(p, "beacon", BeaconOf(p)) /\ sent' = sent /\ clock' = clock
    BY <1>6 DEF BeaconLoop, BeaconOf, Noise, chat
  <2>. QED
    BY <1>3, <1>4, <1>5, <2>1, Emitting
<1>7. ASSUME CoverLoop(p) PROVE Writes(CoverOf(p))
  <2>1. Emit(p, "cover", CoverOf(p)) /\ sent' = sent /\ clock' = clock
    BY <1>7 DEF CoverLoop, CoverOf, Noise, chat
  <2>. QED
    BY <1>3, <1>4, <1>5, <2>1, Emitting
<1>. QED
  BY <1>3, <1>6, <1>7

\* An INIT is answered by a RESP, and a RESP by a FIN.
LEMMA AnswerWrites ==
  ASSUME NodeAssumption, Shapes, NEW p \in Peers, NEW f \in air
  PROVE  /\ OnInit(p, f) =>
              AnswerOf("RESP", p, f) \in Message /\ Writes(AnswerOf("RESP", p, f))
         /\ OnResp(p, f) =>
              AnswerOf("FIN", p, f) \in Message /\ Writes(AnswerOf("FIN", p, f))
<1>1. /\ log[f[1]].from \in Peers \cup {None} /\ log[f[1]].hs \in 0 .. MaxConnects
      /\ "RESP" \in Types /\ "FIN" \in Types /\ 0 \in Nat /\ FALSE \in BOOLEAN
      /\ "loop" \in Tasks /\ Broadcast \in Tag
  BY Airborne, TagTypes DEF Types, Tasks
<1>2. AnswerOf("RESP", p, f) \in Message /\ AnswerOf("FIN", p, f) \in Message
  BY <1>1, Letters DEF AnswerOf, NoText
<1>3. \A r \in Peers : sent[r] <= sent[r] /\ clock[r] <= clock[r]
  BY Counts
<1>4. ASSUME OnInit(p, f) PROVE Writes(AnswerOf("RESP", p, f))
  <2>1. Emit(p, "loop", AnswerOf("RESP", p, f)) /\ sent' = sent /\ clock' = clock
    BY <1>4 DEF OnInit, AnswerOf, chat
  <2>. QED
    BY <1>1, <1>2, <1>3, <2>1, Emitting
<1>5. ASSUME OnResp(p, f) PROVE Writes(AnswerOf("FIN", p, f))
  <2>1. Emit(p, "loop", AnswerOf("FIN", p, f)) /\ sent' = sent /\ clock' = clock
    BY <1>5 DEF OnResp, AnswerOf, chat
  <2>. QED
    BY <1>1, <1>2, <1>3, <2>1, Emitting
<1>. QED
  BY <1>2, <1>4, <1>5

\* The steps that write nothing.
Silent ==
  \E p \in Peers :
    \/ \E t \in Tasks : Send(p, t) \/ SendRaises(p, t)
    \/ \E q \in Peers \cup {None} : To(p, q)
    \/ SendTextRaises(p) \/ Quit(p) \/ Tick(p)
    \/ \E f \in air : \/ PassBy(p, f) \/ OnFin(p, f) \/ OnForeign(p, f)
                      \/ OnBeacon(p, f) \/ OnData(p, f)

\* They leave the log as it is, and no clock goes back.
LEMMA SilentKeepsLog ==
  ASSUME Shapes, Silent
  PROVE  Onward /\ log' = log /\ sent' = sent
<1>1. ASSUME NEW p \in Peers, Tick(p)
      PROVE  log' = log /\ sent' = sent /\ \A r \in Peers : clock[r] <= clock'[r]
  <2>1. clock' = [clock EXCEPT ![p] = @ + 1] /\ log' = log /\ sent' = sent
    BY <1>1 DEF Tick, chat
  <2>2. DOMAIN clock = Peers
    BY DEF Shapes, TypeOK
  <2>3. \A r \in Peers : clock'[r] = IF r = p THEN clock[p] + 1 ELSE clock[r]
    BY <2>1, <2>2
  <2>. QED
    BY <2>1, <2>3, Counts
<1>2. ASSUME Silent, ~\E p \in Peers : Tick(p)
      PROVE  log' = log /\ sent' = sent /\ clock' = clock
  <2>1. ASSUME NEW p \in Peers,
               \/ \E t \in Tasks : Send(p, t) \/ SendRaises(p, t)
               \/ \E q \in Peers \cup {None} : To(p, q)
               \/ SendTextRaises(p) \/ Quit(p)
        PROVE  log' = log /\ sent' = sent /\ clock' = clock
    BY <2>1 DEF Send, SendRaises, To, SendTextRaises, Quit, chat
  <2>2. ASSUME NEW p \in Peers, NEW f \in air,
               \/ PassBy(p, f) \/ OnFin(p, f) \/ OnForeign(p, f)
               \/ OnBeacon(p, f) \/ OnData(p, f)
        PROVE  log' = log /\ sent' = sent /\ clock' = clock
    BY <2>2 DEF PassBy, OnFin, OnForeign, OnBeacon, OnData, chat
  <2>. QED
    BY <1>2, <2>1, <2>2, Zenon DEF Silent
<1>3. log' = log /\ sent' = sent /\ \A r \in Peers : clock[r] <= clock'[r]
  <2>1. \A r \in Peers : clock[r] <= clock[r]
    BY Counts
  <2>. QED
    BY <1>1, <1>2, <2>1
<1>4. \A r \in Peers : sent[r] <= sent'[r]
  BY <1>3, Counts
<1>. QED
  BY <1>3, <1>4 DEF Onward, Positions

\* A step writes one of six messages, or none.
LEMMA Steps ==
  ASSUME NodeAssumption, Shapes, KnownInv, Next
  PROVE  /\ Onward
         /\ \/ Silent /\ log' = log
            \/ \E p, q \in Peers :
                 Connect(p, q) /\ InitOf(p, q) \in Message /\ Writes(InitOf(p, q))
            \/ \E p \in Peers :
                 \/ SendText(p) /\ TextOf(p) \in Message /\ Writes(TextOf(p))
                 \/ BeaconLoop(p) /\ BeaconOf(p) \in Message /\ Writes(BeaconOf(p))
                 \/ CoverLoop(p) /\ CoverOf(p) \in Message /\ Writes(CoverOf(p))
            \/ \E p \in Peers, f \in air :
                 \/ /\ OnInit(p, f) /\ AnswerOf("RESP", p, f) \in Message
                    /\ Writes(AnswerOf("RESP", p, f))
                 \/ /\ OnResp(p, f) /\ AnswerOf("FIN", p, f) \in Message
                    /\ Writes(AnswerOf("FIN", p, f))
<1>1. CASE Silent
  BY <1>1, SilentKeepsLog
<1>2. CASE \E p, q \in Peers : Connect(p, q)
  BY <1>2, ConnectWrites DEF Writes
<1>3. CASE \E p \in Peers : SendText(p)
  BY <1>3, SendTextWrites DEF Writes
<1>4. CASE \E p \in Peers : BeaconLoop(p) \/ CoverLoop(p)
  BY <1>4, NoiseWrites DEF Writes
<1>5. CASE \E p \in Peers, f \in air : OnInit(p, f) \/ OnResp(p, f)
  BY <1>5, AnswerWrites DEF Writes
<1>. QED
  BY <1>1, <1>2, <1>3, <1>4, <1>5, Zenon DEF Next, Silent

-----------------------------------------------------------------------------
(* What a step does to each variable *)

\* The steps of p that are not about a frame it hears.
Speaks(p) ==
  \/ \E t \in Tasks : Send(p, t) \/ SendRaises(p, t)
  \/ \E q \in Peers : Connect(p, q)
  \/ \E q \in Peers \cup {None} : To(p, q)
  \/ SendText(p) \/ SendTextRaises(p) \/ Quit(p)
  \/ BeaconLoop(p) \/ CoverLoop(p) \/ Tick(p)

\* What p keeps of a frame it takes.
Gets(p, f) == Takes(p, f) /\ Collect(p, f)

\* Frames are taken by who hears one.
LEMMA Hearing ==
  ASSUME Next
  PROVE  \/ UNCHANGED <<handled, collected>>
         \/ \E p \in Peers : \E f \in air : Receive(p, f) /\ Gets(p, f)
<1>1. \E p \in Peers : Speaks(p) \/ \E f \in air : Receive(p, f)
  BY Zenon DEF Next, Speaks, Receive
<1>2. ASSUME NEW p \in Peers, Speaks(p) PROVE UNCHANGED <<handled, collected>>
  BY <1>2 DEF Speaks, Send, SendRaises, Connect, To, SendText, SendTextRaises,
         Quit, BeaconLoop, CoverLoop, Noise, Tick
<1>3. ASSUME NEW p \in Peers, NEW f \in air, Receive(p, f) PROVE Gets(p, f)
  BY <1>3, Zenon DEF Receive, Gets, PassBy, OnInit, OnResp, OnFin, OnForeign,
                     OnBeacon, OnData
<1>. QED
  BY <1>1, <1>2, <1>3, Zenon

\* Which steps change which variable.
LEMMA Changes ==
  ASSUME Next
  PROVE  /\ \/ UNCHANGED life
            \/ \E p \in Peers : \E why \in {"quit", "refused", "no chain"} : End(p, why)
         /\ UNCHANGED clock \/ \E p \in Peers : Tick(p)
         /\ \/ UNCHANGED pending
            \/ \E p, q \in Peers : Connect(p, q)
            \/ \E p \in Peers : \E f \in air : OnInit(p, f) \/ OnResp(p, f) \/ OnFin(p, f)
         /\ \/ UNCHANGED <<sessions, order>>
            \/ \E p \in Peers : \E f \in air : OnResp(p, f) \/ OnFin(p, f)
            \/ UNCHANGED order /\ \E p \in Peers : \E f \in air : OnData(p, f)
         /\ UNCHANGED target \/ \E p \in Peers : \E q \in Peers \cup {None} : To(p, q)
         /\ UNCHANGED discovered \/ \E p \in Peers : \E f \in air : OnBeacon(p, f)
         /\ UNCHANGED air \/ \E p \in Peers : \E t \in Tasks : Send(p, t)
         /\ \/ UNCHANGED <<handled, collected>>
            \/ \E p \in Peers : \E f \in air : Gets(p, f)
         /\ \/ UNCHANGED <<delivered, received, inbox>>
            \/ \E p \in Peers : \E f \in air : OnData(p, f)
         /\ UNCHANGED sent \/ \E p \in Peers : SendText(p)
         /\ \/ UNCHANGED refusals
            \/ \E p \in Peers : \E t \in Tasks : SendRaises(p, t)
<1>0. \E p \in Peers : Speaks(p) \/ \E f \in air : Receive(p, f)
  BY Zenon DEF Next, Speaks, Receive
<1>1. \/ UNCHANGED life
      \/ \E p \in Peers : \E why \in {"quit", "refused", "no chain"} : End(p, why)
  <2>1. ASSUME NEW p \in Peers, Speaks(p),
               ~(\E why \in {"quit", "refused", "no chain"} : End(p, why))
        PROVE  UNCHANGED life
    BY <2>1 DEF Speaks, Send, SendRaises, Connect, To, SendText, SendTextRaises, Quit,
                BeaconLoop, CoverLoop, Noise, Tick
  <2>2. ASSUME NEW p \in Peers, NEW f \in air, Receive(p, f)
        PROVE  UNCHANGED life
    BY <2>2 DEF Receive, PassBy, OnInit, OnResp, OnFin, OnForeign, OnBeacon, OnData
  <2>. QED
    BY <1>0, <2>1, <2>2, Zenon
<1>2. UNCHANGED clock \/ \E p \in Peers : Tick(p)
  <2>1. ASSUME NEW p \in Peers, Speaks(p), ~(Tick(p))
        PROVE  UNCHANGED clock
    BY <2>1 DEF Speaks, Send, SendRaises, Connect, To, SendText, SendTextRaises, Quit,
                BeaconLoop, CoverLoop, Noise
  <2>2. ASSUME NEW p \in Peers, NEW f \in air, Receive(p, f)
        PROVE  UNCHANGED clock
    BY <2>2 DEF Receive, PassBy, OnInit, OnResp, OnFin, OnForeign, OnBeacon, OnData
  <2>. QED
    BY <1>0, <2>1, <2>2, Zenon
<1>3. \/ UNCHANGED pending
      \/ \E p, q \in Peers : Connect(p, q)
      \/ \E p \in Peers : \E f \in air : OnInit(p, f) \/ OnResp(p, f) \/ OnFin(p, f)
  <2>1. ASSUME NEW p \in Peers, Speaks(p), ~(\E q \in Peers : Connect(p, q))
        PROVE  UNCHANGED pending
    BY <2>1 DEF Speaks, Send, SendRaises, To, SendText, SendTextRaises, Quit,
                BeaconLoop, CoverLoop, Noise, Tick, table
  <2>2. ASSUME NEW p \in Peers, NEW f \in air, Receive(p, f),
               ~(OnInit(p, f) \/ OnResp(p, f) \/ OnFin(p, f))
        PROVE  UNCHANGED pending
    BY <2>2 DEF Receive, PassBy, OnForeign, OnBeacon, OnData, table
  <2>. QED
    BY <1>0, <2>1, <2>2, Zenon
<1>4. \/ UNCHANGED <<sessions, order>>
      \/ \E p \in Peers : \E f \in air : OnResp(p, f) \/ OnFin(p, f)
      \/ UNCHANGED order /\ \E p \in Peers : \E f \in air : OnData(p, f)
  <2>1. ASSUME NEW p \in Peers, Speaks(p) PROVE UNCHANGED <<sessions, order>>
    BY <2>1 DEF Speaks, Send, SendRaises, Connect, To, SendText, SendTextRaises,
           Quit, BeaconLoop, CoverLoop, Noise, Tick, table
  <2>2. ASSUME NEW p \in Peers, NEW f \in air,
               PassBy(p, f) \/ OnInit(p, f) \/ OnForeign(p, f) \/ OnBeacon(p, f)
        PROVE  UNCHANGED <<sessions, order>>
    BY <2>2 DEF PassBy, OnInit, OnForeign, OnBeacon, table
  <2>3. ASSUME NEW p \in Peers, NEW f \in air, OnData(p, f) PROVE UNCHANGED order
    BY <2>3 DEF OnData
  <2>. QED
    BY <1>0, <2>1, <2>2, <2>3, Zenon DEF Receive
<1>5. UNCHANGED target \/ \E p \in Peers : \E q \in Peers \cup {None} : To(p, q)
  <2>1. ASSUME NEW p \in Peers, Speaks(p), ~(\E q \in Peers \cup {None} : To(p, q))
        PROVE  UNCHANGED target
    BY <2>1 DEF Speaks, Send, SendRaises, Connect, SendText, SendTextRaises, Quit,
                BeaconLoop, CoverLoop, Noise, Tick
  <2>2. ASSUME NEW p \in Peers, NEW f \in air, Receive(p, f)
        PROVE  UNCHANGED target
    BY <2>2 DEF Receive, PassBy, OnInit, OnResp, OnFin, OnForeign, OnBeacon, OnData
  <2>. QED
    BY <1>0, <2>1, <2>2, Zenon
<1>6. UNCHANGED discovered \/ \E p \in Peers : \E f \in air : OnBeacon(p, f)
  <2>1. ASSUME NEW p \in Peers, Speaks(p)
        PROVE  UNCHANGED discovered
    BY <2>1 DEF Speaks, Send, SendRaises, Connect, To, SendText, SendTextRaises, Quit,
                BeaconLoop, CoverLoop, Noise, Tick
  <2>2. ASSUME NEW p \in Peers, NEW f \in air, Receive(p, f), ~(OnBeacon(p, f))
        PROVE  UNCHANGED discovered
    BY <2>2 DEF Receive, PassBy, OnInit, OnResp, OnFin, OnForeign, OnData
  <2>. QED
    BY <1>0, <2>1, <2>2, Zenon
<1>7. UNCHANGED air \/ \E p \in Peers : \E t \in Tasks : Send(p, t)
  <2>1. ASSUME NEW p \in Peers, Speaks(p), ~(\E t \in Tasks : Send(p, t))
        PROVE  UNCHANGED air
    BY <2>1 DEF Speaks, SendRaises, Connect, To, SendText, SendTextRaises, Quit,
                BeaconLoop, CoverLoop, Noise, Tick
  <2>2. ASSUME NEW p \in Peers, NEW f \in air, Receive(p, f)
        PROVE  UNCHANGED air
    BY <2>2 DEF Receive, PassBy, OnInit, OnResp, OnFin, OnForeign, OnBeacon, OnData
  <2>. QED
    BY <1>0, <2>1, <2>2, Zenon
<1>8. \/ UNCHANGED <<handled, collected>>
      \/ \E p \in Peers : \E f \in air : Gets(p, f)
  BY Hearing, Zenon
<1>9. \/ UNCHANGED <<delivered, received, inbox>>
      \/ \E p \in Peers : \E f \in air : OnData(p, f)
  <2>1. ASSUME NEW p \in Peers, Speaks(p) PROVE UNCHANGED <<delivered, received, inbox>>
    BY <2>1 DEF Speaks, Send, SendRaises, Connect, To, SendText, SendTextRaises,
           Quit, BeaconLoop, CoverLoop, Noise, Tick, chat
  <2>2. ASSUME NEW p \in Peers, NEW f \in air, Receive(p, f), ~OnData(p, f)
        PROVE  UNCHANGED <<delivered, received, inbox>>
    BY <2>2 DEF Receive, PassBy, OnInit, OnResp, OnFin, OnForeign, OnBeacon, chat
  <2>. QED
    BY <1>0, <2>1, <2>2, Zenon
<1>10. UNCHANGED sent \/ \E p \in Peers : SendText(p)
  <2>1. ASSUME NEW p \in Peers, Speaks(p), ~(SendText(p))
        PROVE  UNCHANGED sent
    BY <2>1 DEF Speaks, Send, SendRaises, Connect, To, SendTextRaises, Quit,
                BeaconLoop, CoverLoop, Noise, Tick, chat
  <2>2. ASSUME NEW p \in Peers, NEW f \in air, Receive(p, f)
        PROVE  UNCHANGED sent
    BY <2>2 DEF Receive, PassBy, OnInit, OnResp, OnFin, OnForeign, OnBeacon, OnData,
                chat
  <2>. QED
    BY <1>0, <2>1, <2>2, Zenon
<1>11. \/ UNCHANGED refusals
       \/ \E p \in Peers : \E t \in Tasks : SendRaises(p, t)
  <2>1. ASSUME NEW p \in Peers, Speaks(p), ~(\E t \in Tasks : SendRaises(p, t))
        PROVE  UNCHANGED refusals
    BY <2>1 DEF Speaks, Send, Connect, To, SendText, SendTextRaises, Quit, BeaconLoop,
                CoverLoop, Noise, Tick
  <2>2. ASSUME NEW p \in Peers, NEW f \in air, Receive(p, f)
        PROVE  UNCHANGED refusals
    BY <2>2 DEF Receive, PassBy, OnInit, OnResp, OnFin, OnForeign, OnBeacon, OnData
  <2>. QED
    BY <1>0, <2>1, <2>2, Zenon
<1>. QED
  BY <1>1, <1>2, <1>3, <1>4, <1>5, <1>6, <1>7, <1>8, <1>9, <1>10, <1>11

\* What a peer has with another is a session or none.
LEMMA SessionTypes ==
  ASSUME Shapes, NEW p \in Peers, NEW q \in Peers
  PROVE  sessions[p][q] \in Session \/ sessions[p][q] = None
<1>1. sessions \in [Peers -> [Peers -> Session \cup {None}]]
  BY DEF Shapes, TypeOK
<1>. QED
  BY <1>1

\* The peers of a handshake whose answer is awaited are the ones its messages
\* name.
LEMMA Establishes ==
  ASSUME Shapes, NumbersInv, LogInv, PendingInv, NEW p \in Peers, NEW f \in air,
         NEW q, NEW h, q = log[f[1]].from, h = log[f[1]].hs
  PROVE  /\ OnResp(p, f) => /\ Began(h, p, q) /\ h \in HsIds /\ q \in Peers
                            /\ Establish(p, q, h, TRUE)
         /\ OnFin(p, f) => /\ Began(h, q, p) /\ h \in HsIds /\ q \in Peers
                           /\ Establish(p, q, h, FALSE)
<1>1. LetterOK(log[f[1]]) /\ q \in Peers
  BY Airborne DEF LogInv
<1>2. ASSUME OnResp(p, f)
      PROVE  Began(h, p, q) /\ h \in HsIds /\ Establish(p, q, h, TRUE)
  <2>1. log[f[1]].type = "RESP" /\ pending[p][h] = TRUE /\ Establish(p, q, h, TRUE)
    BY <1>2 DEF OnResp
  <2>2. Began(h, log[f[1]].to, q)
    BY <1>1, <2>1 DEF LetterOK
  <2>3. h \in HsIds
    BY <2>2, BegunApart
  <2>4. PICK r \in Peers : Began(h, p, r)
    BY <2>1, <2>3 DEF PendingInv
  <2>5. p = log[f[1]].to
    BY <2>2, <2>4, BegunOnce
  <2>. QED
    BY <2>1, <2>2, <2>3, <2>5
<1>3. ASSUME OnFin(p, f)
      PROVE  Began(h, q, p) /\ h \in HsIds /\ Establish(p, q, h, FALSE)
  <2>1. log[f[1]].type = "FIN" /\ pending[p][h] = FALSE /\ Establish(p, q, h, FALSE)
    BY <1>3 DEF OnFin
  <2>2. Began(h, q, log[f[1]].to)
    BY <1>1, <2>1 DEF LetterOK
  <2>3. h \in HsIds
    BY <2>2, BegunApart
  <2>4. PICK r \in Peers : Began(h, r, p)
    BY <2>1, <2>3 DEF PendingInv
  <2>5. p = log[f[1]].to
    BY <2>2, <2>4, BegunOnce
  <2>. QED
    BY <2>1, <2>2, <2>3, <2>5
<1>. QED
  BY <1>1, <1>2, <1>3

\* Who opens a text by a tag is its receiver, and the session is that with its
\* sender: the two keys of a handshake are told apart by who began it.
LEMMA Opens ==
  ASSUME Shapes, NumbersInv, LogInv, SessionsInv, NEW p \in Peers, NEW m \in Message,
         LetterOK(m), m.type = "DATA", NEW q \in ByTag(p, m.tag)
  PROVE  /\ q \in Peers /\ sessions[p][q] \in Session /\ sessions[p][q] # None
         /\ Text(m) /\ m.from = q /\ m.to = p
<1>1. /\ q \in Peers /\ sessions[p][q] # None
      /\ m.tag.key = RecvKey(sessions[p][q])
  BY DEF ByTag, Matches
<1>2. sessions[p][q] \in Session
  BY <1>1, SessionTypes
<1>3. PICK s \in Session : s = sessions[p][q]
  BY <1>2
<1>4. SessionOK(p, q, s) /\ m.tag.key = RecvKey(s) /\ s.initiator \in BOOLEAN
  <2>1. s.initiator \in BOOLEAN
    BY DEF Session
  <2>. QED
    BY <1>1, <1>3, <2>1 DEF SessionsInv
<1>5. Cover(m) \/ Text(m)
  BY DEF LetterOK
<1>6. CASE s.initiator = TRUE
  <2>1. m.tag.key = <<"r2i", s.hs>> /\ Began(s.hs, p, q)
    BY <1>4, <1>6 DEF RecvKey, SessionOK
  <2>2. Text(m)
    BY <1>5, <2>1 DEF Cover
  <2>3. m.hs = s.hs /\ Began(m.hs, m.to, m.from)
    BY <2>1, <2>2 DEF Text
  <2>4. p = m.to /\ q = m.from
    BY <2>1, <2>3, BegunOnce
  <2>. QED
    BY <1>1, <1>2, <2>2, <2>4
<1>7. CASE s.initiator = FALSE
  <2>1. m.tag.key = <<"i2r", s.hs>> /\ Began(s.hs, q, p)
    BY <1>4, <1>7 DEF RecvKey, SessionOK
  <2>2. Text(m)
    BY <1>5, <2>1 DEF Cover
  <2>3. m.hs = s.hs /\ Began(m.hs, m.from, m.to)
    BY <2>1, <2>2 DEF Text
  <2>4. q = m.from /\ p = m.to
    BY <2>1, <2>3, BegunOnce
  <2>. QED
    BY <1>1, <1>2, <2>2, <2>4
<1>. QED
  BY <1>4, <1>6, <1>7

\* What p does with a text it opens.
Opened(p, f, m) ==
  /\ m.type = "DATA" /\ Text(m) /\ m.to = p /\ m \in Message
  /\ m.from \in ByTag(p, m.tag)
  /\ m.from \in Peers /\ sessions[p][m.from] \in Session
  /\ sessions[p][m.from] # None
  /\ f[1] \in Positions
  /\ sessions' = [sessions EXCEPT ![p][m.from].chain = TRUE]
  /\ received' = [received EXCEPT ![p] = @ + 1]
  /\ delivered' = [delivered EXCEPT ![m.from] = @ \cup {m.number}]
  /\ inbox' = [inbox EXCEPT ![p] = @ \cup {<<m.from, f[1]>>}]

\* A step of _on_data opens the text as said.
LEMMA TextOpened ==
  ASSUME Shapes, NumbersInv, LogInv, SessionsInv, NEW p \in Peers, NEW f \in air,
         OnData(p, f), NEW m, m = log[f[1]]
  PROVE  Opened(p, f, m)
<1>1. m \in Message /\ LetterOK(m) /\ f[1] \in Positions
  BY Airborne DEF LogInv
<1>2. m.type = "DATA"
  BY DEF OnData
<1>3. PICK q \in ByTag(p, m.tag) :
        /\ sessions' = [sessions EXCEPT ![p][q].chain = TRUE]
        /\ received' = [received EXCEPT ![p] = @ + 1]
        /\ delivered' = [delivered EXCEPT ![m.from] = @ \cup {m.number}]
        /\ inbox' = [inbox EXCEPT ![p] = @ \cup {<<q, f[1]>>}]
  BY DEF OnData
<1>4. /\ q \in Peers /\ sessions[p][q] \in Session /\ sessions[p][q] # None
      /\ Text(m) /\ m.from = q /\ m.to = p
  BY <1>1, <1>2, Opens
<1>. QED
  BY <1>1, <1>2, <1>3, <1>4 DEF Opened

-----------------------------------------------------------------------------
(* The types *)

\* What tasks still have to send are frames of messages that were written.
LEMMA OutStays ==
  ASSUME NodeAssumption, Shapes, KnownInv, Next
  PROVE  out' \in [Peers -> [Tasks -> Seq(Cut')]]
<1>1. out \in [Peers -> [Tasks -> Seq(Cut)]]
  BY DEF Shapes, TypeOK, Cut
<1>2. Onward /\ Cut \subseteq Cut'
  BY Steps, CutStays
<1>3. out \in [Peers -> [Tasks -> Seq(Cut')]]
  BY <1>1, <1>2
<1>4. << >> \in Seq(Cut')
  OBVIOUS
<1>5. ASSUME NEW p \in Peers, NEW t \in Tasks, NEW m \in Message, Emit(p, t, m), Writes(m)
      PROVE  out' \in [Peers -> [Tasks -> Seq(Cut')]]
  <2>1. PICK n : n = Len(log) + 1
    OBVIOUS
  <2>2. n \in Positions' /\ log'[n] = m
    BY <1>5, <2>1 DEF Writes
  <2>3. PartsOf(n)' = {Frame(n, k) : k \in 1 .. m.count}
    BY <2>2 DEF PartsOf
  <2>4. \A k \in 1 .. m.count : Frame(n, k) \in Cut'
    BY <2>2, <2>3 DEF Cut
  <2>5. m.count \in Nat
    BY DEF Message
  <2>6. PICK cuts : cuts = [k \in 1 .. m.count |-> Frame(n, k)]
    OBVIOUS
  <2>7. out' = [out EXCEPT ![p][t] = cuts]
    BY <1>5, <2>1, <2>6 DEF Emit
  <2>8. cuts \in Seq(Cut')
    BY <2>4, <2>5, <2>6
  <2>. QED
    BY <1>3, <2>7, <2>8
<1>6. ASSUME NEW p \in Peers, NEW t \in Tasks, Send(p, t)
      PROVE  out' \in [Peers -> [Tasks -> Seq(Cut')]]
  <2>1. out' = [out EXCEPT ![p][t] = Tail(@)] /\ out[p][t] # << >>
    BY <1>6 DEF Send
  <2>2. out[p][t] \in Seq(Cut')
    BY <1>3
  <2>3. Tail(out[p][t]) \in Seq(Cut')
    BY <2>1, <2>2
  <2>. QED
    BY <1>3, <2>1, <2>3
<1>7. ASSUME NEW p \in Peers, NEW why, End(p, why)
      PROVE  out' \in [Peers -> [Tasks -> Seq(Cut')]]
  <2>1. out' = [out EXCEPT ![p] = [t \in Tasks |-> << >>]]
    BY <1>7 DEF End
  <2>. QED
    BY <1>3, <1>4, <2>1
<1>8. ASSUME NEW p \in Peers, NEW t \in Tasks, SendRaises(p, t)
      PROVE  out' \in [Peers -> [Tasks -> Seq(Cut')]]
  <2>1. End(p, "refused") \/ out' = [out EXCEPT ![p][t] = << >>]
    BY <1>8 DEF SendRaises
  <2>2. CASE out' = [out EXCEPT ![p][t] = << >>]
    BY <1>3, <1>4, <2>2
  <2>. QED
    BY <1>7, <2>1, <2>2
<1>9. CASE Silent
  <2>1. ASSUME NEW p \in Peers,
               \/ \E q \in Peers \cup {None} : To(p, q)
               \/ SendTextRaises(p) \/ Quit(p) \/ Tick(p)
        PROVE  UNCHANGED out \/ End(p, "quit") \/ End(p, "no chain")
    BY <2>1 DEF To, SendTextRaises, Quit, Tick
  <2>2. ASSUME NEW p \in Peers, NEW f \in air,
               \/ PassBy(p, f) \/ OnFin(p, f) \/ OnForeign(p, f)
               \/ OnBeacon(p, f) \/ OnData(p, f)
        PROVE  UNCHANGED out
    BY <2>2 DEF PassBy, OnFin, OnForeign, OnBeacon, OnData
  <2>3. \/ UNCHANGED out
        \/ \E p \in Peers : \E t \in Tasks : Send(p, t) \/ SendRaises(p, t)
        \/ \E p \in Peers : End(p, "quit") \/ End(p, "no chain")
    BY <1>9, <2>1, <2>2, Zenon DEF Silent
  <2>. QED
    BY <1>3, <1>6, <1>7, <1>8, <2>3
<1>10. "chat" \in Tasks /\ "beacon" \in Tasks /\ "cover" \in Tasks /\ "loop" \in Tasks
  BY DEF Tasks
<1>11. CASE \E p, q \in Peers :
              Connect(p, q) /\ InitOf(p, q) \in Message /\ Writes(InitOf(p, q))
  <2>1. PICK p \in Peers, q \in Peers :
          Emit(p, "chat", InitOf(p, q)) /\ InitOf(p, q) \in Message /\ Writes(InitOf(p, q))
    BY <1>11 DEF Connect, InitOf
  <2>. QED
    BY <1>5, <1>10, <2>1
<1>12. CASE \E p \in Peers : SendText(p) /\ TextOf(p) \in Message /\ Writes(TextOf(p))
  <2>1. PICK p \in Peers :
          Emit(p, "chat", TextOf(p)) /\ TextOf(p) \in Message /\ Writes(TextOf(p))
    BY <1>12 DEF SendText, TextOf
  <2>. QED
    BY <1>5, <1>10, <2>1
<1>13. CASE \E p \in Peers :
              BeaconLoop(p) /\ BeaconOf(p) \in Message /\ Writes(BeaconOf(p))
  <2>1. PICK p \in Peers :
          Emit(p, "beacon", BeaconOf(p)) /\ BeaconOf(p) \in Message /\ Writes(BeaconOf(p))
    BY <1>13 DEF BeaconLoop, Noise, BeaconOf
  <2>. QED
    BY <1>5, <1>10, <2>1
<1>14. CASE \E p \in Peers : CoverLoop(p) /\ CoverOf(p) \in Message /\ Writes(CoverOf(p))
  <2>1. PICK p \in Peers :
          Emit(p, "cover", CoverOf(p)) /\ CoverOf(p) \in Message /\ Writes(CoverOf(p))
    BY <1>14 DEF CoverLoop, Noise, CoverOf
  <2>. QED
    BY <1>5, <1>10, <2>1
<1>15. CASE \E p \in Peers, f \in air :
              /\ OnInit(p, f) /\ AnswerOf("RESP", p, f) \in Message
              /\ Writes(AnswerOf("RESP", p, f))
  <2>1. PICK p \in Peers, f \in air :
          /\ Emit(p, "loop", AnswerOf("RESP", p, f)) /\ AnswerOf("RESP", p, f) \in Message
          /\ Writes(AnswerOf("RESP", p, f))
    BY <1>15 DEF OnInit, AnswerOf
  <2>. QED
    BY <1>5, <1>10, <2>1
<1>16. CASE \E p \in Peers, f \in air :
              /\ OnResp(p, f) /\ AnswerOf("FIN", p, f) \in Message
              /\ Writes(AnswerOf("FIN", p, f))
  <2>1. PICK p \in Peers, f \in air :
          /\ Emit(p, "loop", AnswerOf("FIN", p, f)) /\ AnswerOf("FIN", p, f) \in Message
          /\ Writes(AnswerOf("FIN", p, f))
    BY <1>16 DEF OnResp, AnswerOf
  <2>. QED
    BY <1>5, <1>10, <2>1
<1>. QED
  BY Steps, <1>9, <1>11, <1>12, <1>13, <1>14, <1>15, <1>16

\* What a frame that is taken adds to.
LEMMA TakesOne ==
  ASSUME Shapes, NEW p \in Peers, NEW f \in air, Gets(p, f)
  PROVE  /\ handled' = [handled EXCEPT ![p] = @ \cup {f}]
         /\ collected' = [collected EXCEPT ![p] = Kept(p, f)]
         /\ f \notin handled[p] /\ log[f[1]].from # p
         /\ \/ Kept(p, f) = collected[p] \cup {f} /\ ForUs(p, log[f[1]])
            \/ Kept(p, f) = collected[p] /\ ~ForUs(p, log[f[1]])
BY DEF Gets, Takes, Collect, Kept

\* The fields of a peer's own tables keep their types.
LEMMA TablesStay ==
  ASSUME NodeAssumption, Shapes, KnownInv, NumbersInv, LogInv, PendingInv, Next
  PROVE  /\ pending' \in [Peers -> [HsIds -> BOOLEAN \cup {None}]]
         /\ sessions' \in [Peers -> [Peers -> Session \cup {None}]]
         /\ order' \in [Peers -> Seq(Peers)]
<1>1. /\ pending \in [Peers -> [HsIds -> BOOLEAN \cup {None}]]
      /\ sessions \in [Peers -> [Peers -> Session \cup {None}]]
      /\ order \in [Peers -> Seq(Peers)]
  BY DEF Shapes, TypeOK
<1>2. ASSUME NEW p \in Peers, NEW q \in Peers, NEW h \in HsIds, NEW b \in BOOLEAN,
             Establish(p, q, h, b)
      PROVE  /\ pending' \in [Peers -> [HsIds -> BOOLEAN \cup {None}]]
             /\ sessions' \in [Peers -> [Peers -> Session \cup {None}]]
             /\ order' \in [Peers -> Seq(Peers)]
  <2>1. pending' = [pending EXCEPT ![p][h] = None]
    BY <1>2 DEF Establish
  <2>2. pending' \in [Peers -> [HsIds -> BOOLEAN \cup {None}]]
    BY <1>1, <2>1
  <2>3. PICK s : s = [hs |-> h, initiator |-> b, chain |-> b]
    OBVIOUS
  <2>4. s \in Session
    BY <2>3 DEF Session
  <2>5. sessions' = [sessions EXCEPT ![p][q] = s]
    BY <1>2, <2>3 DEF Establish
  <2>6. sessions' \in [Peers -> [Peers -> Session \cup {None}]]
    BY <1>1, <2>4, <2>5
  <2>7. order' = order \/ order' = [order EXCEPT ![p] = Append(@, q)]
    BY <1>2 DEF Establish
  <2>8. Append(order[p], q) \in Seq(Peers)
    <3>1. \A x \in Seq(Peers) : Append(x, q) \in Seq(Peers)
      OBVIOUS
    <3>. QED
      BY <1>1, <3>1
  <2>9. order' \in [Peers -> Seq(Peers)]
    BY <1>1, <2>7, <2>8
  <2>. QED
    BY <2>2, <2>6, <2>9
<1>3. ASSUME NEW p \in Peers, NEW f \in air, OnResp(p, f) \/ OnFin(p, f)
      PROVE  /\ pending' \in [Peers -> [HsIds -> BOOLEAN \cup {None}]]
             /\ sessions' \in [Peers -> [Peers -> Session \cup {None}]]
             /\ order' \in [Peers -> Seq(Peers)]
  <2>1. PICK q, h : q = log[f[1]].from /\ h = log[f[1]].hs
    OBVIOUS
  <2>2. /\ h \in HsIds /\ q \in Peers
        /\ Establish(p, q, h, TRUE) \/ Establish(p, q, h, FALSE)
    BY <1>3, <2>1, Establishes
  <2>. QED
    BY <1>2, <2>2
<1>4. ASSUME NEW p \in Peers, NEW q \in Peers, Connect(p, q)
      PROVE  pending' \in [Peers -> [HsIds -> BOOLEAN \cup {None}]]
  <2>1. PICK h : h = Cardinality(Handshakes) + 1
    OBVIOUS
  <2>2. h \in HsIds /\ pending' = [pending EXCEPT ![p][h] = TRUE]
    BY <1>4, <2>1 DEF Connect
  <2>. QED
    BY <1>1, <2>2
<1>5. ASSUME NEW p \in Peers, NEW f \in air, OnInit(p, f)
      PROVE  pending' \in [Peers -> [HsIds -> BOOLEAN \cup {None}]]
  <2>1. PICK h : h = log[f[1]].hs
    OBVIOUS
  <2>2. log[f[1]].type = "INIT" /\ LetterOK(log[f[1]])
    BY <1>5, Airborne DEF OnInit, LogInv
  <2>3. h \in HsIds
    BY <2>1, <2>2 DEF LetterOK
  <2>4. pending' = [pending EXCEPT ![p][h] = FALSE]
    BY <1>5, <2>1 DEF OnInit
  <2>. QED
    BY <1>1, <2>3, <2>4
<1>6. ASSUME NEW p \in Peers, NEW f \in air, OnData(p, f)
      PROVE  sessions' \in [Peers -> [Peers -> Session \cup {None}]]
  <2>1. PICK q \in Peers :
          sessions[p][q] # None /\ sessions' = [sessions EXCEPT ![p][q].chain = TRUE]
    BY <1>6 DEF OnData, ByTag
  <2>2. PICK s \in Session : s = sessions[p][q]
    BY <2>1, SessionTypes
  <2>3. [s EXCEPT !.chain = TRUE] \in Session
    BY DEF Session
  <2>4. sessions' = [sessions EXCEPT ![p][q] = [s EXCEPT !.chain = TRUE]]
    BY <1>1, <2>1, <2>2
  <2>. QED
    BY <1>1, <2>3, <2>4
<1>7. pending' \in [Peers -> [HsIds -> BOOLEAN \cup {None}]]
  <2>1. \/ pending' = pending
        \/ \E p, q \in Peers : Connect(p, q)
        \/ \E p \in Peers : \E f \in air : OnInit(p, f) \/ OnResp(p, f) \/ OnFin(p, f)
    BY Changes
  <2>. QED
    BY <1>1, <1>3, <1>4, <1>5, <2>1
<1>8. /\ sessions' \in [Peers -> [Peers -> Session \cup {None}]]
      /\ order' \in [Peers -> Seq(Peers)]
  <2>1. \/ sessions' = sessions /\ order' = order
        \/ \E p \in Peers : \E f \in air : OnResp(p, f) \/ OnFin(p, f)
        \/ order' = order /\ \E p \in Peers : \E f \in air : OnData(p, f)
    BY Changes
  <2>. QED
    BY <1>1, <1>3, <1>6, <2>1
<1>. QED
  BY <1>7, <1>8

\* What a text adds to is what was sent, and what it is shown as is a peer and
\* a message.
LEMMA ChatStays ==
  ASSUME NodeAssumption, Shapes, KnownInv, NumbersInv, LogInv, SessionsInv, Next
  PROVE  /\ sent' \in [Peers -> 0 .. MaxTexts]
         /\ received' \in [Peers -> Nat]
         /\ delivered' \in [Peers -> SUBSET Nat]
         /\ \A p \in Peers : delivered'[p] \subseteq 1 .. sent'[p]
         /\ inbox' \in [Peers -> SUBSET (Peers \X Positions')]
<1>1. /\ sent \in [Peers -> 0 .. MaxTexts] /\ received \in [Peers -> Nat]
      /\ delivered \in [Peers -> SUBSET Nat]
      /\ \A p \in Peers : delivered[p] \subseteq 1 .. sent[p]
      /\ inbox \in [Peers -> SUBSET (Peers \X Positions)]
  BY DEF Shapes, TypeOK
<1>2. Positions \subseteq Positions' /\ \A p \in Peers : sent[p] <= sent'[p]
  BY Steps DEF Onward
<1>3. sent' \in [Peers -> 0 .. MaxTexts]
  <2>1. ASSUME NEW p \in Peers, SendText(p) PROVE sent' \in [Peers -> 0 .. MaxTexts]
    <3>1. sent' = [sent EXCEPT ![p] = sent[p] + 1] /\ sent[p] < MaxTexts
      BY <2>1 DEF SendText, NextText
    <3>2. sent[p] + 1 \in 0 .. MaxTexts
      <4>1. sent[p] \in 0 .. MaxTexts /\ MaxTexts \in Nat
        BY <1>1 DEF NodeAssumption
      <4>. QED
        BY <3>1, <4>1
    <3>. QED
      BY <1>1, <3>1, <3>2
  <2>2. sent' = sent \/ \E p \in Peers : SendText(p)
    BY Changes
  <2>. QED
    BY <1>1, <2>1, <2>2
<1>4. CASE UNCHANGED <<delivered, received, inbox>>
  <2>1. \A p \in Peers : delivered'[p] \subseteq 1 .. sent'[p]
    <3>. SUFFICES ASSUME NEW p \in Peers, NEW k \in delivered[p]
                  PROVE  k \in 1 .. sent'[p]
      BY <1>4
    <3>1. k \in 1 .. sent[p]
      BY <1>1
    <3>2. sent[p] \in Nat /\ sent'[p] \in Nat /\ sent[p] <= sent'[p]
      <4>1. sent[p] \in 0 .. MaxTexts /\ sent'[p] \in 0 .. MaxTexts
        BY <1>1, <1>3
      <4>. QED
        BY <1>2, <4>1
    <3>. QED
      BY <3>1, <3>2
  <2>2. inbox' \in [Peers -> SUBSET (Peers \X Positions')]
    BY <1>1, <1>2, <1>4
  <2>. QED
    BY <1>1, <1>3, <1>4, <2>1, <2>2
<1>5. CASE \E p \in Peers : \E f \in air : OnData(p, f)
  <2>1. PICK p \in Peers, f \in air : OnData(p, f)
    BY <1>5
  <2>2. PICK m : m = log[f[1]]
    OBVIOUS
  <2>0. Opened(p, f, m)
    BY <2>1, <2>2, TextOpened
  <2>3. /\ Text(m) /\ m.from \in Peers /\ f[1] \in Positions
        /\ received' = [received EXCEPT ![p] = @ + 1]
        /\ delivered' = [delivered EXCEPT ![m.from] = @ \cup {m.number}]
        /\ inbox' = [inbox EXCEPT ![p] = @ \cup {<<m.from, f[1]>>}]
    BY <2>0 DEF Opened
  <2>4. sent' = sent
    BY <2>1 DEF OnData
  <2>5. m.number \in 1 .. sent[m.from] /\ m.number \in Nat
    <3>1. m.number \in 1 .. sent[m.from] /\ sent[m.from] \in 0 .. MaxTexts
      BY <1>1, <2>3 DEF Text
    <3>. QED
      BY <3>1
  <2>6. delivered' \in [Peers -> SUBSET Nat]
    BY <1>1, <2>3, <2>5
  <2>7. \A r \in Peers : delivered'[r] \subseteq 1 .. sent'[r]
    BY <1>1, <2>3, <2>4, <2>5
  <2>8. inbox' \in [Peers -> SUBSET (Peers \X Positions')]
    <3>1. <<m.from, f[1]>> \in Peers \X Positions'
      BY <1>2, <2>3
    <3>2. inbox \in [Peers -> SUBSET (Peers \X Positions')]
      BY <1>1, <1>2
    <3>. QED
      BY <2>3, <3>1, <3>2
  <2>9. received' \in [Peers -> Nat]
    BY <1>1, <2>3
  <2>. QED
    BY <1>3, <2>6, <2>7, <2>8, <2>9
<1>6. \/ UNCHANGED <<delivered, received, inbox>>
      \/ \E p \in Peers : \E f \in air : OnData(p, f)
  BY Changes
<1>. QED
  BY <1>4, <1>5, <1>6

\* The frames a peer heard are frames that were sent.
LEMMA AirStays ==
  ASSUME NodeAssumption, Shapes, KnownInv, Next
  PROVE  /\ air' \subseteq Cut'
         /\ handled' \in [Peers -> SUBSET Cut'] /\ collected' \in [Peers -> SUBSET Cut']
         /\ \A p \in Peers : collected'[p] \subseteq handled'[p] /\ handled'[p] \subseteq air'
<1>1. /\ air \subseteq Cut /\ out \in [Peers -> [Tasks -> Seq(Cut)]]
      /\ handled \in [Peers -> SUBSET Cut] /\ collected \in [Peers -> SUBSET Cut]
      /\ \A p \in Peers : collected[p] \subseteq handled[p] /\ handled[p] \subseteq air
  BY DEF Shapes, TypeOK, Cut
<1>2. Cut \subseteq Cut'
  BY Steps, CutStays
<1>3. air \subseteq air' /\ air' \subseteq Cut'
  <2>1. ASSUME NEW p \in Peers, NEW t \in Tasks, Send(p, t)
        PROVE  air \subseteq air' /\ air' \subseteq Cut'
    <3>1. air' = air \cup {Head(out[p][t])} /\ out[p][t] # << >> /\ out[p][t] \in Seq(Cut)
      BY <1>1, <2>1 DEF Send
    <3>2. Head(out[p][t]) \in Cut
      BY <3>1
    <3>. QED
      BY <1>1, <1>2, <3>1, <3>2
  <2>2. air' = air \/ \E p \in Peers : \E t \in Tasks : Send(p, t)
    BY Changes
  <2>. QED
    BY <1>1, <1>2, <2>1, <2>2
<1>4. CASE UNCHANGED <<handled, collected>>
  BY <1>1, <1>2, <1>3, <1>4
<1>5. CASE \E p \in Peers : \E f \in air : Gets(p, f)
  <2>1. PICK p \in Peers, f \in air : Gets(p, f)
    BY <1>5
  <2>2. PICK kept : kept = Kept(p, f)
    OBVIOUS
  <2>3. /\ handled' = [handled EXCEPT ![p] = @ \cup {f}]
        /\ collected' = [collected EXCEPT ![p] = kept]
        /\ kept = collected[p] \cup {f} \/ kept = collected[p]
    BY <2>1, <2>2, TakesOne
  <2>4. f \in Cut /\ kept \subseteq collected[p] \cup {f} /\ kept \subseteq Cut
    BY <1>1, <2>3
  <2>5. handled' \in [Peers -> SUBSET Cut] /\ collected' \in [Peers -> SUBSET Cut]
    BY <1>1, <2>3, <2>4
  <2>6. \A r \in Peers : collected'[r] \subseteq handled'[r] /\ handled'[r] \subseteq air
    BY <1>1, <2>3, <2>4
  <2>. QED
    BY <1>2, <1>3, <2>5, <2>6
<1>6. UNCHANGED <<handled, collected>> \/ \E p \in Peers : \E f \in air : Gets(p, f)
  BY Changes
<1>. QED
  BY <1>3, <1>4, <1>5, <1>6

\* The log is a sequence of messages.
LEMMA LogStays ==
  ASSUME NodeAssumption, Shapes, KnownInv, Next
  PROVE  log' \in Seq(Message) /\ \A i \in Positions' : log'[i] \in Message
<1>1. log \in Seq(Message)
  BY DEF Shapes
<1>2. log' \in Seq(Message)
  <2>1. ASSUME NEW m, Writes(m) PROVE log' \in Seq(Message)
    BY <2>1 DEF Writes
  <2>. QED
    BY <1>1, <2>1, Steps
<1>3. \A s \in Seq(Message) : \A i \in 1 .. Len(s) : s[i] \in Message
  OBVIOUS
<1>. QED
  BY <1>2, <1>3 DEF Positions

\* Every step keeps the types.
LEMMA ShapesStay ==
  ASSUME NodeAssumption, Shapes, KnownInv, NumbersInv, LogInv, PendingInv, SessionsInv,
         Next
  PROVE  Shapes'
<1>1. /\ running' \in [Peers -> BOOLEAN]
      /\ ended' \in [Peers -> {"no", "quit", "refused", "no chain"}]
  <2>1. /\ running \in [Peers -> BOOLEAN]
        /\ ended \in [Peers -> {"no", "quit", "refused", "no chain"}]
    BY DEF Shapes, TypeOK
  <2>2. ASSUME NEW p \in Peers, NEW why \in {"quit", "refused", "no chain"}, End(p, why)
        PROVE  /\ running' = [running EXCEPT ![p] = FALSE]
               /\ ended' = [ended EXCEPT ![p] = why]
    BY <2>2 DEF End
  <2>3. \/ running' = running /\ ended' = ended
        \/ \E p \in Peers : \E why \in {"quit", "refused", "no chain"} : End(p, why)
    BY Changes DEF life
  <2>. QED
    BY <2>1, <2>2, <2>3
<1>2. clock' \in [Peers -> Epochs]
  <2>1. clock \in [Peers -> Epochs] /\ MaxEpoch \in Nat
    BY DEF Shapes, TypeOK, NodeAssumption
  <2>2. ASSUME NEW p \in Peers, Tick(p) PROVE clock' \in [Peers -> Epochs]
    <3>1. clock' = [clock EXCEPT ![p] = clock[p] + 1] /\ clock[p] < MaxEpoch
      BY <2>2 DEF Tick
    <3>2. clock[p] + 1 \in Epochs
      BY <2>1, <3>1 DEF Epochs
    <3>. QED
      BY <2>1, <3>1, <3>2
  <2>3. clock' = clock \/ \E p \in Peers : Tick(p)
    BY Changes
  <2>. QED
    BY <2>1, <2>2, <2>3
<1>3. target' \in [Peers -> Peers \cup {None}]
  <2>1. target \in [Peers -> Peers \cup {None}]
    BY DEF Shapes, TypeOK
  <2>2. ASSUME NEW p \in Peers, NEW q \in Peers \cup {None}, To(p, q)
        PROVE  target' = [target EXCEPT ![p] = q]
    BY <2>2 DEF To
  <2>3. target' = target \/ \E p \in Peers : \E q \in Peers \cup {None} : To(p, q)
    BY Changes
  <2>. QED
    BY <2>1, <2>2, <2>3
<1>4. discovered' \in [Peers -> SUBSET Peers]
  <2>1. discovered \in [Peers -> SUBSET Peers]
    BY DEF Shapes, TypeOK
  <2>2. ASSUME NEW p \in Peers, NEW f \in air, OnBeacon(p, f)
        PROVE  \E q \in Peers : discovered' = [discovered EXCEPT ![p] = @ \cup {q}]
    BY <2>2, Airborne DEF OnBeacon
  <2>3. discovered' = discovered \/ \E p \in Peers : \E f \in air : OnBeacon(p, f)
    BY Changes
  <2>. QED
    BY <2>1, <2>2, <2>3
<1>5. refusals' \in 0 .. MaxRefusals
  <2>1. refusals \in 0 .. MaxRefusals /\ MaxRefusals \in Nat
    BY DEF Shapes, TypeOK, NodeAssumption
  <2>2. ASSUME NEW p \in Peers, NEW t \in Tasks, SendRaises(p, t)
        PROVE  refusals < MaxRefusals /\ refusals' = refusals + 1
    BY <2>2 DEF SendRaises
  <2>3. refusals' = refusals \/ \E p \in Peers : \E t \in Tasks : SendRaises(p, t)
    BY Changes
  <2>. QED
    BY <2>1, <2>2, <2>3
<1>6. out' \in [Peers -> [Tasks -> Seq(UNION {PartsOf(i)' : i \in Positions'})]]
  BY OutStays DEF Cut
<1>7. air' \subseteq UNION {PartsOf(i)' : i \in Positions'}
  BY AirStays DEF Cut
<1>8. /\ pending' \in [Peers -> [HsIds -> BOOLEAN \cup {None}]]
      /\ sessions' \in [Peers -> [Peers -> Session \cup {None}]]
      /\ order' \in [Peers -> Seq(Peers)]
  BY TablesStay
<1>9. /\ sent' \in [Peers -> 0 .. MaxTexts]
      /\ received' \in [Peers -> Nat]
      /\ delivered' \in [Peers -> SUBSET Nat]
      /\ \A p \in Peers : delivered'[p] \subseteq 1 .. sent'[p]
      /\ inbox' \in [Peers -> SUBSET (Peers \X Positions')]
  BY ChatStays
<1>10. TypeOK'
  BY <1>1, <1>2, <1>3, <1>4, <1>5, <1>6, <1>7, <1>8, <1>9, LogStays, AirStays DEF TypeOK
<1>. QED
  BY <1>9, <1>10, LogStays, AirStays DEF Shapes

-----------------------------------------------------------------------------
(* Sessions and who is written to *)

\* A session is kept, got a sending chain, or is that of a handshake in which
\* the peer has its role.
SessionStep(p, q) ==
  LET s == sessions[p][q]
      t == sessions'[p][q]
  IN  \/ t = s
      \/ s # None /\ t # None /\ t.hs = s.hs /\ t.initiator = s.initiator
      \/ t # None /\ SessionOK(p, q, t)

\* Each step does one of the three to each session.
LEMMA SessionSteps ==
  ASSUME NodeAssumption, Shapes, NumbersInv, LogInv, PendingInv, Next,
         NEW p \in Peers, NEW q \in Peers
  PROVE  SessionStep(p, q)
<1>1. sessions \in [Peers -> [Peers -> Session \cup {None}]]
  BY DEF Shapes, TypeOK
<1>2. ASSUME NEW r \in Peers, NEW f \in air, OnResp(r, f) \/ OnFin(r, f)
      PROVE  SessionStep(p, q)
  <2>1. PICK x, h : x = log[f[1]].from /\ h = log[f[1]].hs
    OBVIOUS
  <2>2. /\ h \in HsIds /\ x \in Peers
        /\ \/ Establish(r, x, h, TRUE) /\ Began(h, r, x)
           \/ Establish(r, x, h, FALSE) /\ Began(h, x, r)
    BY <1>2, <2>1, Establishes
  <2>3. PICK b \in BOOLEAN : /\ Establish(r, x, h, b)
                             /\ b = TRUE => Began(h, r, x)
                             /\ b = FALSE => Began(h, x, r)
    BY <2>2
  <2>4. PICK t : t = [hs |-> h, initiator |-> b, chain |-> b]
    OBVIOUS
  <2>5. t \in Session /\ t.hs = h /\ t.initiator = b
    BY <2>2, <2>4 DEF Session
  <2>6. t # None /\ SessionOK(r, x, t)
    BY <2>3, <2>5, NoneAssumption DEF SessionOK
  <2>7. sessions' = [sessions EXCEPT ![r][x] = t]
    BY <2>3, <2>4 DEF Establish
  <2>8. sessions'[p][q] = IF r = p /\ x = q THEN t ELSE sessions[p][q]
    BY <1>1, <2>2, <2>7
  <2>. QED
    BY <2>6, <2>8 DEF SessionStep
<1>3. ASSUME NEW r \in Peers, NEW f \in air, OnData(r, f)
      PROVE  SessionStep(p, q)
  <2>1. PICK x \in Peers :
          sessions[r][x] # None /\ sessions' = [sessions EXCEPT ![r][x].chain = TRUE]
    BY <1>3 DEF OnData, ByTag
  <2>2. PICK s \in Session : s = sessions[r][x]
    BY <2>1, SessionTypes
  <2>3. PICK t : t = [s EXCEPT !.chain = TRUE]
    OBVIOUS
  <2>4. t \in Session /\ t.hs = s.hs /\ t.initiator = s.initiator
    BY <2>3 DEF Session
  <2>5. t # None
    BY <2>4, NoneAssumption
  <2>6. sessions'[p][q] = IF r = p /\ x = q THEN t ELSE sessions[p][q]
    BY <1>1, <2>1, <2>2, <2>3
  <2>. QED
    BY <2>1, <2>2, <2>4, <2>5, <2>6 DEF SessionStep
<1>4. CASE sessions' = sessions
  BY <1>4 DEF SessionStep
<1>. QED
  BY <1>2, <1>3, <1>4, Changes

\* A session is of a handshake in which its peer has that role.
LEMMA SessionsStay ==
  ASSUME NodeAssumption, Shapes, KnownInv, NumbersInv, LogInv, PendingInv, SessionsInv,
         Next
  PROVE  SessionsInv'
<1>1. Onward
  BY Steps
<1>2. ASSUME NEW p \in Peers, NEW q \in Peers, NEW t, t = sessions'[p][q], t # None
      PROVE  SessionOK(p, q, t)
  <2>1. SessionStep(p, q)
    BY SessionSteps
  <2>2. CASE t = sessions[p][q]
    BY <1>2, <2>2 DEF SessionsInv
  <2>3. CASE /\ sessions[p][q] # None /\ t.hs = sessions[p][q].hs
             /\ t.initiator = sessions[p][q].initiator
    <3>1. SessionOK(p, q, sessions[p][q])
      BY <2>3 DEF SessionsInv
    <3>. QED
      BY <2>3, <3>1 DEF SessionOK
  <2>. QED
    BY <1>2, <2>1, <2>2, <2>3 DEF SessionStep
<1>3. ASSUME NEW p \in Peers, NEW q \in Peers, NEW t, SessionOK(p, q, t)
      PROVE  /\ t.initiator = TRUE => Began(t.hs, p, q)'
             /\ t.initiator = FALSE => Began(t.hs, q, p)'
  BY <1>1, <1>3, BegunStays DEF SessionOK
<1>4. ASSUME NEW p \in Peers, NEW q \in Peers, sessions'[p][q] # None
      PROVE  SessionOK(p, q, sessions[p][q])'
  <2>1. PICK t : t = sessions'[p][q]
    OBVIOUS
  <2>2. /\ t.initiator = TRUE => Began(t.hs, p, q)'
        /\ t.initiator = FALSE => Began(t.hs, q, p)'
    BY <1>2, <1>3, <1>4, <2>1
  <2>. QED
    BY <2>1, <2>2 DEF SessionOK, Began
<1>. QED
  BY <1>4 DEF SessionsInv

\* No session is forgotten.
LEMMA SessionsKept ==
  ASSUME NodeAssumption, Shapes, NumbersInv, LogInv, PendingInv, Next,
         NEW p \in Peers, NEW q \in Peers, sessions[p][q] # None
  PROVE  sessions'[p][q] # None
BY SessionSteps DEF SessionStep

\* /to chooses, and the dictionary lists, only peers with a session.
LEMMA KnownStays ==
  ASSUME NodeAssumption, Shapes, KnownInv, NumbersInv, LogInv, PendingInv, Next
  PROVE  KnownInv'
<1>1. ASSUME NEW p \in Peers, target'[p] # None
      PROVE  sessions'[p][target'[p]] # None
  <2>1. target \in [Peers -> Peers \cup {None}]
    BY DEF Shapes, TypeOK
  <2>2. ASSUME NEW r \in Peers, NEW q \in Peers \cup {None}, To(r, q)
        PROVE  target' = [target EXCEPT ![r] = q] /\ (q # None => sessions[r][q] # None)
    BY <2>2 DEF To
  <2>3. target' = target \/ \E r \in Peers : \E q \in Peers \cup {None} : To(r, q)
    BY Changes
  <2>4. CASE target'[p] = target[p]
    <3>1. PICK q \in Peers : q = target[p]
      BY <1>1, <2>1, <2>4
    <3>2. sessions[p][q] # None
      BY <1>1, <2>4, <3>1 DEF KnownInv
    <3>. QED
      BY <2>4, <3>1, <3>2, SessionsKept
  <2>5. CASE \E q \in Peers : target'[p] = q /\ sessions[p][q] # None
    BY <2>5, SessionsKept
  <2>. QED
    BY <1>1, <2>1, <2>2, <2>3, <2>4, <2>5
<1>2. ASSUME NEW p \in Peers, NEW k \in DOMAIN order'[p]
      PROVE  sessions'[p][order'[p][k]] # None
  <2>1. order \in [Peers -> Seq(Peers)] /\ sessions \in [Peers -> [Peers -> Session \cup {None}]]
    BY DEF Shapes, TypeOK
  <2>2. CASE order'[p] = order[p]
    <3>1. order[p] \in Seq(Peers) /\ k \in DOMAIN order[p]
      BY <1>2, <2>1, <2>2
    <3>2. PICK q \in Peers : q = order[p][k]
      BY <3>1
    <3>3. sessions[p][q] # None
      BY <3>1, <3>2 DEF KnownInv
    <3>. QED
      BY <2>2, <3>2, <3>3, SessionsKept
  <2>3. ASSUME NEW r \in Peers, NEW f \in air, OnResp(r, f) \/ OnFin(r, f)
        PROVE  sessions'[p][order'[p][k]] # None
    <3>1. PICK x, h : x = log[f[1]].from /\ h = log[f[1]].hs
      OBVIOUS
    <3>2. h \in HsIds /\ x \in Peers /\ \E b \in BOOLEAN : Establish(r, x, h, b)
      BY <2>3, <3>1, Establishes
    <3>3. PICK b \in BOOLEAN : Establish(r, x, h, b)
      BY <3>2
    <3>4. PICK t : t = [hs |-> h, initiator |-> b, chain |-> b]
      OBVIOUS
    <3>5. t # None
      <4>1. t \in Session
        BY <3>2, <3>4 DEF Session
      <4>. QED
        BY <4>1, NoneAssumption
    <3>6. sessions' = [sessions EXCEPT ![r][x] = t]
      BY <3>3, <3>4 DEF Establish
    <3>7. sessions'[r][x] # None
      BY <2>1, <3>2, <3>5, <3>6
    <3>8. order' = order \/ order' = [order EXCEPT ![r] = Append(@, x)]
      BY <3>3 DEF Establish
    <3>9. CASE r = p /\ order' = [order EXCEPT ![r] = Append(@, x)]
      <4>1. order'[p] = Append(order[p], x) /\ order[p] \in Seq(Peers)
        BY <2>1, <3>9
      <4>2. \A s \in Seq(Peers) : \A i \in DOMAIN Append(s, x) :
              \/ i \in DOMAIN s /\ Append(s, x)[i] = s[i] /\ s[i] \in Peers
              \/ Append(s, x)[i] = x
        OBVIOUS
      <4>3. \/ k \in DOMAIN order[p] /\ order'[p][k] = order[p][k] /\ order[p][k] \in Peers
            \/ order'[p][k] = x
        BY <1>2, <4>1, <4>2
      <4>4. CASE order'[p][k] = x
        BY <3>7, <3>9, <4>4
      <4>5. CASE k \in DOMAIN order[p] /\ order'[p][k] = order[p][k] /\ order[p][k] \in Peers
        <5>1. PICK q \in Peers : q = order[p][k]
          BY <4>5
        <5>2. sessions[p][q] # None
          BY <4>5, <5>1 DEF KnownInv
        <5>. QED
          BY <4>5, <5>1, <5>2, SessionsKept
      <4>. QED
        BY <4>3, <4>4, <4>5
    <3>. QED
      BY <2>1, <2>2, <3>8, <3>9
  <2>. QED
    BY <2>2, <2>3, Changes
<1>. QED
  BY <1>1, <1>2 DEF KnownInv

-----------------------------------------------------------------------------
(* What is written *)

\* What a step adds to the log.
Adds(m) ==
  \/ \E p, q \in Peers : Connect(p, q) /\ m = InitOf(p, q)
  \/ \E p \in Peers : SendText(p) /\ m = TextOf(p)
  \/ \E p \in Peers : BeaconLoop(p) /\ m = BeaconOf(p)
  \/ \E p \in Peers : CoverLoop(p) /\ m = CoverOf(p)
  \/ \E p \in Peers, f \in air : OnInit(p, f) /\ m = AnswerOf("RESP", p, f)
  \/ \E p \in Peers, f \in air : OnResp(p, f) /\ m = AnswerOf("FIN", p, f)

\* Each step adds one message to the log or none.
LEMMA Added ==
  ASSUME NodeAssumption, Shapes, KnownInv, Next
  PROVE  /\ Onward
         /\ log' = log \/ \E m \in Message : Writes(m) /\ Adds(m)
<1>1. ASSUME NEW m \in Message, Writes(m), Adds(m)
      PROVE  \E x \in Message : Writes(x) /\ Adds(x)
  BY <1>1
<1>. QED
  BY Steps, Zenon DEF Adds

\* Who writes an INIT connects, and who writes a text sends it.
LEMMA Kinds ==
  ASSUME NEW m, Adds(m)
  PROVE  /\ m.type = "INIT" =>
              \E p, q \in Peers : Connect(p, q) /\ m = InitOf(p, q)
         /\ m.type = "DATA" /\ m.to # None =>
              \E p \in Peers : SendText(p) /\ m = TextOf(p)
<1>1. CASE \E p, q \in Peers : Connect(p, q) /\ m = InitOf(p, q)
  <2>1. m.type = "INIT"
    BY <1>1 DEF InitOf, NoText, Letter
  <2>. QED
    BY <1>1, <2>1
<1>2. CASE \E p \in Peers : SendText(p) /\ m = TextOf(p)
  <2>1. m.type = "DATA"
    BY <1>2 DEF TextOf, Letter
  <2>. QED
    BY <1>2, <2>1
<1>3. CASE \E p \in Peers : BeaconLoop(p) /\ m = BeaconOf(p)
  BY <1>3 DEF BeaconOf, NoText, Letter
<1>4. CASE \E p \in Peers : CoverLoop(p) /\ m = CoverOf(p)
  BY <1>4 DEF CoverOf, NoText, Letter
<1>5. CASE \/ \E p \in Peers, f \in air : OnInit(p, f) /\ m = AnswerOf("RESP", p, f)
           \/ \E p \in Peers, f \in air : OnResp(p, f) /\ m = AnswerOf("FIN", p, f)
  BY <1>5 DEF AnswerOf, NoText, Letter
<1>. QED
  BY <1>1, <1>2, <1>3, <1>4, <1>5, Zenon DEF Adds

\* A handshake gets the next number.
LEMMA NumbersStay ==
  ASSUME NodeAssumption, Shapes, KnownInv, NumbersInv, Next
  PROVE  NumbersInv'
<1>1. IsFiniteSet(Handshakes) /\ Cardinality(Handshakes) \in Nat
  <2>1. Len(log) \in Nat
    BY DEF Shapes
  <2>2. IsFiniteSet(1 .. Len(log))
    BY <2>1, FS_Interval
  <2>3. IsFiniteSet(Handshakes)
    BY <2>2, FS_Subset DEF Handshakes, Positions
  <2>. QED
    BY <2>3, FS_CardinalityType
<1>2. CASE log' = log
  BY <1>2 DEF NumbersInv, Handshakes, Positions
<1>3. ASSUME NEW m \in Message, Writes(m), Adds(m), m.type # "INIT"
      PROVE  NumbersInv'
  <2>1. Handshakes' = Handshakes
    BY <1>3 DEF Writes, Onward, Handshakes
  <2>2. \A i \in Handshakes : log'[i] = log[i]
    BY <1>3 DEF Writes, Onward, Handshakes
  <2>. QED
    BY <2>1, <2>2 DEF NumbersInv
<1>4. ASSUME NEW m \in Message, Writes(m), Adds(m), m.type = "INIT"
      PROVE  NumbersInv'
  <2>1. PICK n : n = Len(log) + 1
    OBVIOUS
  <2>2. PICK c \in Nat : c = Cardinality(Handshakes)
    BY <1>1
  <2>3. m.hs = c + 1
    <3>1. PICK p \in Peers, q \in Peers : m = InitOf(p, q)
      BY <1>4, Kinds
    <3>. QED
      BY <2>2, <3>1 DEF InitOf, NoText, Letter
  <2>4. Handshakes' = Handshakes \cup {n} /\ n \notin Handshakes
    BY <1>4, <2>1 DEF Writes, Onward, Handshakes
  <2>5. Cardinality(Handshakes') = c + 1
    BY <1>1, <2>2, <2>4, FS_AddElement
  <2>6. log'[n] = m /\ \A i \in Handshakes : log'[i] = log[i]
    BY <1>4, <2>1 DEF Writes, Onward, Handshakes
  <2>7. \A i \in Handshakes : log[i].hs \in 1 .. c
    BY <2>2 DEF NumbersInv
  <2>8. \A i \in Handshakes' : log'[i].hs \in 1 .. c + 1
    BY <2>3, <2>4, <2>6, <2>7
  <2>9. \A i, j \in Handshakes' : log'[i].hs = log'[j].hs => i = j
    <3>1. \A i \in Handshakes : log'[i].hs # log'[n].hs
      BY <2>3, <2>6, <2>7
    <3>2. \A i, j \in Handshakes : log'[i].hs = log'[j].hs => i = j
      BY <2>6 DEF NumbersInv
    <3>. QED
      BY <2>4, <3>1, <3>2
  <2>. QED
    BY <2>5, <2>8, <2>9 DEF NumbersInv
<1>. QED
  BY <1>2, <1>3, <1>4, Added

\* A text gets the next number of its sender.
LEMMA TextsStay ==
  ASSUME NodeAssumption, Shapes, KnownInv, LogInv, TextsInv, Next
  PROVE  TextsInv'
<1>1. CASE log' = log
  BY <1>1 DEF TextsInv, IsText, Positions
<1>2. ASSUME NEW m \in Message, Writes(m), Adds(m)
      PROVE  TextsInv'
  <2>1. PICK n : n = Len(log) + 1
    OBVIOUS
  <2>2. /\ Positions' = Positions \cup {n} /\ n \notin Positions /\ log'[n] = m
        /\ \A i \in Positions : log'[i] = log[i]
    BY <1>2, <2>1 DEF Writes, Onward
  <2>3. m.type = "DATA" /\ m.to \in Peers => m.number = sent[m.from] + 1
    <3>. SUFFICES ASSUME m.type = "DATA", m.to \in Peers
                  PROVE  m.number = sent[m.from] + 1
      OBVIOUS
    <3>1. PICK p \in Peers : m = TextOf(p)
      BY <1>2, Kinds, NoneAssumption
    <3>. QED
      BY <3>1 DEF TextOf, Letter, NextText
  <2>4. ASSUME NEW i \in Positions, IsText(i), m.type = "DATA", m.to \in Peers,
               log[i].from = m.from
        PROVE  log[i].number # m.number
    <3>1. LetterOK(log[i]) /\ log[i] \in Message
      BY DEF LogInv, Shapes, TypeOK
    <3>2. Text(log[i])
      BY <2>4, <3>1, NoneAssumption DEF LetterOK, Cover, IsText
    <3>3. sent[m.from] \in Nat /\ log[i].number \in 1 .. sent[m.from]
      <4>1. m.from \in Peers
        BY DEF Message
      <4>. QED
        BY <2>4, <3>2, <4>1, Counts DEF Text
    <3>. QED
      BY <2>3, <2>4, <3>3
  <2>5. /\ \A i \in Positions : IsText(i)' = IsText(i)
        /\ IsText(n)' = (m.type = "DATA" /\ m.to \in Peers)
    BY <2>2 DEF IsText
  <2>6. ASSUME NEW i \in Positions', NEW j \in Positions',
               log'[i].type = "DATA", log'[i].to \in Peers,
               log'[j].type = "DATA", log'[j].to \in Peers,
               log'[i].from = log'[j].from, log'[i].number = log'[j].number
        PROVE  i = j
    <3>1. CASE i \in Positions /\ j \in Positions
      BY <2>2, <2>6, <3>1 DEF TextsInv, IsText
    <3>2. CASE i = n /\ j \in Positions
      BY <2>2, <2>4, <2>6, <3>2 DEF IsText
    <3>3. CASE j = n /\ i \in Positions
      BY <2>2, <2>4, <2>6, <3>3 DEF IsText
    <3>. QED
      BY <2>2, <3>1, <3>2, <3>3
  <2>. QED
    BY <2>6 DEF TextsInv, IsText
<1>. QED
  BY <1>1, <1>2, Added

\* An INIT is for the one whose static key its tag is made from.
LEMMA InitFor ==
  ASSUME Shapes, LogInv, NEW p \in Peers, NEW f \in air, OnInit(p, f),
         NEW q, NEW h, q = log[f[1]].from, h = log[f[1]].hs
  PROVE  Began(h, q, p) /\ h \in HsIds
<1>1. PICK m : m = log[f[1]]
  OBVIOUS
<1>2. /\ m.type = "INIT" /\ ForUs(p, m) /\ LetterOK(m)
      /\ f[1] \in Handshakes
  BY <1>1, Airborne DEF OnInit, Whole, LogInv, Handshakes
<1>3. m.tag.key = <<"static", m.to>> /\ h \in HsIds
  BY <1>1, <1>2 DEF LetterOK
<1>4. m.tag # Broadcast
  BY <1>3 DEF Broadcast
<1>5. ByTag(p, m.tag) = {}
  <2>1. \A s : RecvKey(s) # <<"static", m.to>>
    BY DEF RecvKey
  <2>. QED
    BY <1>3, <2>1 DEF ByTag, Matches
<1>6. m.to = p
  BY <1>2, <1>3, <1>4, <1>5 DEF ForUs, Matches
<1>. QED
  BY <1>1, <1>2, <1>3, <1>6 DEF Began

\* A new message says what is so.
LEMMA NewLetter ==
  ASSUME NodeAssumption, Shapes, KnownInv, NumbersInv, LogInv, PendingInv, SessionsInv,
         NEW m \in Message, Writes(m), Adds(m), Shapes'
  PROVE  LetterOK(m)'
<1>0. Onward
  BY DEF Writes
<1>1. ASSUME NEW p \in Peers, NEW q \in Peers, Connect(p, q), m = InitOf(p, q)
      PROVE  LetterOK(m)'
  <2>1. /\ m.type = "INIT" /\ m.from = p /\ m.to = q
        /\ m.hs = Cardinality(Handshakes) + 1 /\ m.tag.key = <<"static", q>>
    BY <1>1 DEF InitOf, NoText, Letter, Now
  <2>2. p # q /\ m.hs \in HsIds
    BY <1>1, <2>1 DEF Connect
  <2>. QED
    BY <2>1, <2>2 DEF LetterOK
<1>2. ASSUME NEW p \in Peers, SendText(p), m = TextOf(p)
      PROVE  LetterOK(m)'
  <2>1. PICK q, s : q = Recipient(p) /\ s = sessions[p][q]
    OBVIOUS
  <2>2. q \in Peers /\ s \in Session /\ s # None
    BY <1>2, <2>1, SendTextWrites
  <2>3. /\ m.type = "DATA" /\ m.from = p /\ m.to = q /\ m.hs = s.hs
        /\ m.tag.key = SendKey(s) /\ m.tag.epoch = clock[p] /\ m.number = sent[p] + 1
    BY <1>2, <2>1 DEF TextOf, Letter, Now, NextText
  <2>4. SessionOK(p, q, s)
    BY <2>1, <2>2 DEF SessionsInv
  <2>5. sent[p] \in Nat /\ sent'[p] = sent[p] + 1 /\ clock[p] \in Nat /\ clock' = clock
    <3>1. sent' = [sent EXCEPT ![p] = sent[p] + 1] /\ DOMAIN sent = Peers /\ clock' = clock
      BY <1>2 DEF SendText, NextText, Shapes, TypeOK
    <3>. QED
      BY <3>1, Counts
  <2>6. /\ m.number \in 1 .. sent'[p] /\ m.tag.epoch <= clock'[p]
    BY <2>3, <2>5
  <2>7. \/ m.tag.key = <<"i2r", m.hs>> /\ Began(m.hs, p, q)
        \/ m.tag.key = <<"r2i", m.hs>> /\ Began(m.hs, q, p)
    <3>1. s.initiator \in BOOLEAN
      BY <2>2 DEF Session
    <3>2. CASE s.initiator = TRUE
      BY <2>3, <2>4, <3>2 DEF SessionOK, SendKey
    <3>3. CASE s.initiator = FALSE
      BY <2>3, <2>4, <3>3 DEF SessionOK, SendKey
    <3>. QED
      BY <3>1, <3>2, <3>3
  <2>8. \/ m.tag.key = <<"i2r", m.hs>> /\ Began(m.hs, m.from, m.to)'
        \/ m.tag.key = <<"r2i", m.hs>> /\ Began(m.hs, m.to, m.from)'
    BY <1>0, <2>3, <2>7, BegunStays
  <2>9. Text(m)'
    BY <2>2, <2>3, <2>6, <2>8 DEF Text
  <2>. QED
    BY <2>3, <2>9 DEF LetterOK
<1>3. ASSUME NEW p \in Peers, m = BeaconOf(p)
      PROVE  LetterOK(m)'
  <2>1. m.type = "BEACON"
    BY <1>3 DEF BeaconOf, NoText, Letter
  <2>. QED
    BY <2>1 DEF LetterOK
<1>4. ASSUME NEW p \in Peers, m = CoverOf(p)
      PROVE  LetterOK(m)'
  <2>1. /\ m.type = "DATA" /\ m.to = None /\ m.tag.key = <<"random", None>>
        /\ m.settled = FALSE
    BY <1>4 DEF CoverOf, NoText, Letter, Now
  <2>. QED
    BY <2>1 DEF LetterOK, Cover
<1>5. ASSUME NEW p \in Peers, NEW f \in air, OnInit(p, f), m = AnswerOf("RESP", p, f)
      PROVE  LetterOK(m)'
  <2>1. /\ m.type = "RESP" /\ m.from = p
        /\ m.to = log[f[1]].from /\ m.hs = log[f[1]].hs
    BY <1>5 DEF AnswerOf, NoText, Letter
  <2>2. Began(m.hs, m.to, p)
    BY <1>5, <2>1, InitFor
  <2>3. Began(m.hs, m.to, m.from)'
    BY <1>0, <2>1, <2>2, BegunStays
  <2>. QED
    BY <2>1, <2>3 DEF LetterOK
<1>6. ASSUME NEW p \in Peers, NEW f \in air, OnResp(p, f), m = AnswerOf("FIN", p, f)
      PROVE  LetterOK(m)'
  <2>1. /\ m.type = "FIN" /\ m.from = p
        /\ m.to = log[f[1]].from /\ m.hs = log[f[1]].hs
    BY <1>6 DEF AnswerOf, NoText, Letter
  <2>2. Began(m.hs, p, m.to)
    BY <1>6, <2>1, Establishes
  <2>3. Began(m.hs, m.from, m.to)'
    BY <1>0, <2>1, <2>2, BegunStays
  <2>. QED
    BY <2>1, <2>3 DEF LetterOK
<1>. QED
  BY <1>1, <1>2, <1>3, <1>4, <1>5, <1>6 DEF Adds

\* What the messages say stays so, and holds of the new one.
LEMMA LogInvStays ==
  ASSUME NodeAssumption, Shapes, KnownInv, NumbersInv, LogInv, PendingInv, SessionsInv,
         Next, Shapes'
  PROVE  LogInv'
<1>1. ASSUME NEW i \in Positions'
      PROVE  LetterOK(log[i])'
  <2>1. Onward
    BY Added
  <2>2. PICK m \in Message : m = log'[i]
    BY LogStays
  <2>3. LetterOK(m)'
    <3>1. CASE i \in Positions
      <4>1. m = log[i] /\ LetterOK(m)
        BY <2>1, <2>2, <3>1 DEF Onward, LogInv
      <4>. QED
        BY <2>1, <4>1, LetterStays
    <3>2. CASE i \notin Positions
      <4>1. PICK x \in Message : Writes(x) /\ Adds(x)
        BY <1>1, <3>2, Added DEF Positions
      <4>2. m = x
        BY <1>1, <2>2, <3>2, <4>1 DEF Writes
      <4>. QED
        BY <4>1, <4>2, NewLetter
    <3>. QED
      BY <3>1, <3>2
  <2>. QED
    BY <2>2, <2>3 DEF LetterOK, Text, Cover, Began
<1>. QED
  BY <1>1 DEF LogInv

\* Who waits has the role that the messages of the handshake give it.
LEMMA PendingStays ==
  ASSUME NodeAssumption, Shapes, KnownInv, NumbersInv, LogInv, PendingInv, Next
  PROVE  PendingInv'
<1>1. pending \in [Peers -> [HsIds -> BOOLEAN \cup {None}]] /\ Onward
  BY Added DEF Shapes, TypeOK
<1>2. ASSUME NEW p \in Peers, NEW h \in HsIds, pending'[p][h] = TRUE
      PROVE  \E q \in Peers : Began(h, p, q)'
  <2>1. CASE pending'[p][h] = pending[p][h]
    <3>1. PICK q \in Peers : Began(h, p, q)
      BY <1>2, <2>1 DEF PendingInv
    <3>. QED
      BY <1>1, <3>1, BegunStays
  <2>2. ASSUME NEW r \in Peers, NEW q \in Peers, Connect(r, q), r = p,
               h = Cardinality(Handshakes) + 1
        PROVE  \E x \in Peers : Began(h, p, x)'
    <3>1. PICK m : m = InitOf(p, q) /\ Writes(m)
      BY <2>2, ConnectWrites
    <3>2. m.type = "INIT" /\ m.from = p /\ m.to = q /\ m.hs = h
      BY <2>2, <3>1 DEF InitOf, NoText, Letter
    <3>3. Began(h, p, q)'
      BY <3>1, <3>2 DEF Writes, Began, Handshakes
    <3>. QED
      BY <3>3
  <2>3. \/ pending'[p][h] = pending[p][h]
        \/ \E r, q \in Peers : Connect(r, q) /\ r = p /\ h = Cardinality(Handshakes) + 1
    <3>1. ASSUME NEW r \in Peers, NEW q \in Peers, Connect(r, q)
          PROVE  \/ pending'[p][h] = pending[p][h]
                 \/ r = p /\ h = Cardinality(Handshakes) + 1
      <4>1. PICK c : c = Cardinality(Handshakes) + 1
        OBVIOUS
      <4>2. pending' = [pending EXCEPT ![r][c] = TRUE]
        BY <3>1, <4>1 DEF Connect
      <4>. QED
        BY <1>1, <4>1, <4>2
    <3>2. ASSUME NEW r \in Peers, NEW f \in air, OnInit(r, f) \/ OnResp(r, f) \/ OnFin(r, f)
          PROVE  pending'[p][h] = pending[p][h]
      <4>1. PICK c : c = log[f[1]].hs
        OBVIOUS
      <4>2. \/ pending' = [pending EXCEPT ![r][c] = FALSE]
            \/ pending' = [pending EXCEPT ![r][c] = None]
        BY <3>2, <4>1 DEF OnInit, OnResp, OnFin, Establish
      <4>. QED
        <5>1. TRUE # FALSE /\ TRUE # None
          BY NoneAssumption
        <5>2. CASE pending' = [pending EXCEPT ![r][c] = FALSE]
          BY <1>1, <1>2, <5>1, <5>2
        <5>3. CASE pending' = [pending EXCEPT ![r][c] = None]
          BY <1>1, <1>2, <5>1, <5>3
        <5>. QED
          BY <4>2, <5>2, <5>3
    <3>3. \/ pending' = pending
          \/ \E r, q \in Peers : Connect(r, q)
          \/ \E r \in Peers : \E f \in air : OnInit(r, f) \/ OnResp(r, f) \/ OnFin(r, f)
      BY Changes
    <3>. QED
      BY <3>1, <3>2, <3>3
  <2>. QED
    BY <2>1, <2>2, <2>3
<1>3. ASSUME NEW p \in Peers, NEW h \in HsIds, pending'[p][h] = FALSE
      PROVE  \E q \in Peers : Began(h, q, p)'
  <2>1. CASE pending'[p][h] = pending[p][h]
    <3>1. PICK q \in Peers : Began(h, q, p)
      BY <1>3, <2>1 DEF PendingInv
    <3>. QED
      BY <1>1, <3>1, BegunStays
  <2>2. ASSUME NEW r \in Peers, NEW f \in air, OnInit(r, f), r = p, h = log[f[1]].hs
        PROVE  \E q \in Peers : Began(h, q, p)'
    <3>1. PICK q : q = log[f[1]].from
      OBVIOUS
    <3>2. Began(h, q, p)
      BY <2>2, <3>1, InitFor
    <3>3. q \in Peers
      BY <3>1, Airborne
    <3>. QED
      BY <1>1, <3>2, <3>3, BegunStays
  <2>3. \/ pending'[p][h] = pending[p][h]
        \/ \E r \in Peers : \E f \in air : OnInit(r, f) /\ r = p /\ h = log[f[1]].hs
    <3>1. ASSUME NEW r \in Peers, NEW q \in Peers, Connect(r, q)
          PROVE  pending'[p][h] = pending[p][h]
      <4>1. PICK c : c = Cardinality(Handshakes) + 1
        OBVIOUS
      <4>2. pending' = [pending EXCEPT ![r][c] = TRUE]
        BY <3>1, <4>1 DEF Connect
      <4>. QED
        BY <1>1, <1>3, <4>2
    <3>2. ASSUME NEW r \in Peers, NEW f \in air, OnResp(r, f) \/ OnFin(r, f)
          PROVE  pending'[p][h] = pending[p][h]
      <4>1. PICK c : c = log[f[1]].hs
        OBVIOUS
      <4>2. pending' = [pending EXCEPT ![r][c] = None]
        BY <3>2, <4>1 DEF OnResp, OnFin, Establish
      <4>. QED
        BY <1>1, <1>3, <4>2, NoneAssumption
    <3>3. ASSUME NEW r \in Peers, NEW f \in air, OnInit(r, f)
          PROVE  \/ pending'[p][h] = pending[p][h]
                 \/ r = p /\ h = log[f[1]].hs
      <4>1. PICK c : c = log[f[1]].hs
        OBVIOUS
      <4>2. pending' = [pending EXCEPT ![r][c] = FALSE]
        BY <3>3, <4>1 DEF OnInit
      <4>. QED
        BY <1>1, <4>1, <4>2
    <3>4. \/ pending' = pending
          \/ \E r, q \in Peers : Connect(r, q)
          \/ \E r \in Peers : \E f \in air : OnInit(r, f) \/ OnResp(r, f) \/ OnFin(r, f)
      BY Changes
    <3>. QED
      BY <3>1, <3>2, <3>3, <3>4
  <2>. QED
    BY <2>1, <2>2, <2>3
<1>. QED
  BY <1>2, <1>3 DEF PendingInv

-----------------------------------------------------------------------------
(* What came out *)

\* A text came out only at the one it was for, from the one who sent it.
LEMMA ShownStays ==
  ASSUME NodeAssumption, Shapes, KnownInv, NumbersInv, LogInv, SessionsInv, ShownTruly,
         Next
  PROVE  ShownTruly'
<1>1. inbox \in [Peers -> SUBSET (Peers \X Positions)] /\ Onward
  BY Added DEF Shapes
<1>2. ASSUME NEW p \in Peers, NEW x \in inbox[p]
      PROVE  log'[x[2]].from = x[1] /\ log'[x[2]].to = p
  <2>1. x[2] \in Positions /\ log[x[2]].from = x[1] /\ log[x[2]].to = p
    BY <1>1 DEF ShownTruly
  <2>. QED
    BY <1>1, <2>1 DEF Onward
<1>3. CASE inbox' = inbox
  BY <1>2, <1>3 DEF ShownTruly
<1>4. ASSUME NEW p \in Peers, NEW f \in air, OnData(p, f)
      PROVE  ShownTruly'
  <2>1. PICK m : m = log[f[1]]
    OBVIOUS
  <2>2. Opened(p, f, m)
    BY <1>4, <2>1, TextOpened
  <2>3. /\ inbox' = [inbox EXCEPT ![p] = @ \cup {<<m.from, f[1]>>}]
        /\ m.to = p /\ f[1] \in Positions
    BY <2>2 DEF Opened
  <2>4. log'[f[1]] = m
    BY <1>1, <2>1, <2>3 DEF Onward
  <2>5. ASSUME NEW r \in Peers, NEW x \in inbox'[r]
        PROVE  log'[x[2]].from = x[1] /\ log'[x[2]].to = r
    <3>1. x \in inbox[r] \/ (r = p /\ x = <<m.from, f[1]>>)
      BY <1>1, <2>3
    <3>. QED
      BY <1>2, <2>3, <2>4, <3>1
  <2>. QED
    BY <2>5 DEF ShownTruly
<1>. QED
  BY <1>3, <1>4, Changes

\* Frames that were taken stay so.
LEMMA HandledGrows ==
  ASSUME Shapes, Next, NEW p \in Peers
  PROVE  handled[p] \subseteq handled'[p] /\ collected[p] \subseteq collected'[p]
<1>1. DOMAIN handled = Peers /\ DOMAIN collected = Peers
  BY DEF Shapes
<1>2. ASSUME NEW r \in Peers, NEW f \in air, Gets(r, f)
      PROVE  handled[p] \subseteq handled'[p] /\ collected[p] \subseteq collected'[p]
  <2>1. PICK kept : kept = Kept(r, f)
    OBVIOUS
  <2>2. /\ handled' = [handled EXCEPT ![r] = @ \cup {f}]
        /\ collected' = [collected EXCEPT ![r] = kept] /\ collected[r] \subseteq kept
    BY <1>2, <2>1, TakesOne
  <2>. QED
    BY <1>1, <2>2
<1>. QED
  BY <1>2, Changes

\* What completes a message was the last of its frames.
LEMMA WholeTaken ==
  ASSUME Shapes, NEW p \in Peers, NEW f \in air, Gets(p, f), Whole(p, f)
  PROVE  PartsOf(f[1]) \subseteq handled'[p]
<1>1. DOMAIN handled = Peers /\ collected[p] \subseteq handled[p]
  BY DEF Shapes, TypeOK
<1>2. handled' = [handled EXCEPT ![p] = @ \cup {f}] /\ Kept(p, f) \subseteq collected[p] \cup {f}
  BY TakesOne
<1>3. PartsOf(f[1]) \subseteq Kept(p, f)
  BY DEF Whole
<1>. QED
  BY <1>1, <1>2, <1>3

\* A text that comes out was completed by the frame that was taken.
LEMMA CameOutStays ==
  ASSUME NodeAssumption, Shapes, KnownInv, NumbersInv, LogInv, SessionsInv, CameOutInv,
         Next
  PROVE  CameOutInv'
<1>1. Onward /\ delivered \in [Peers -> SUBSET Nat]
  BY Added DEF Shapes
<1>2. ASSUME NEW i \in Positions, IsText(i), PartsOf(i) \subseteq handled'[log[i].to]
      PROVE  IsText(i)' /\ Taken(i)' /\ i \in Positions' /\ log'[i] = log[i]
  <2>1. i \in Positions' /\ log'[i] = log[i] /\ PartsOf(i)' = PartsOf(i)
    BY <1>1, CutStays DEF Onward
  <2>. QED
    BY <1>2, <2>1 DEF IsText, Taken
<1>3. ASSUME NEW p \in Peers, NEW k \in delivered[p]
      PROVE  (\E i \in Positions : IsText(i) /\ log[i].from = p /\ log[i].number = k /\ Taken(i))'
  <2>1. PICK i \in Positions : IsText(i) /\ log[i].from = p /\ log[i].number = k /\ Taken(i)
    BY <1>3 DEF CameOutInv
  <2>2. log[i].to \in Peers
    BY <2>1 DEF IsText
  <2>3. PartsOf(i) \subseteq handled'[log[i].to]
    BY <2>1, <2>2, HandledGrows DEF Taken
  <2>4. IsText(i)' /\ Taken(i)' /\ i \in Positions' /\ log'[i] = log[i]
    BY <1>2, <2>1, <2>3
  <2>. QED
    BY <2>1, <2>4
<1>4. CASE delivered' = delivered
  BY <1>3, <1>4 DEF CameOutInv
<1>5. ASSUME NEW p \in Peers, NEW f \in air, OnData(p, f)
      PROVE  CameOutInv'
  <2>1. PICK m : m = log[f[1]]
    OBVIOUS
  <2>2. Opened(p, f, m)
    BY <1>5, <2>1, TextOpened
  <2>3. /\ delivered' = [delivered EXCEPT ![m.from] = @ \cup {m.number}]
        /\ m.type = "DATA" /\ m.to = p /\ m.from \in Peers /\ f[1] \in Positions
    BY <2>2 DEF Opened
  <2>4. Gets(p, f) /\ Whole(p, f)
    BY <1>5 DEF OnData, Gets
  <2>5. IsText(f[1]) /\ PartsOf(f[1]) \subseteq handled'[log[f[1]].to]
    BY <2>1, <2>3, <2>4, WholeTaken DEF IsText
  <2>6. PICK i : i = f[1]
    OBVIOUS
  <2>7. IsText(i)' /\ Taken(i)' /\ i \in Positions' /\ log'[i] = m
    BY <1>2, <2>1, <2>3, <2>5, <2>6
  <2>8. ASSUME NEW r \in Peers, NEW k \in delivered'[r]
        PROVE  (\E j \in Positions : IsText(j) /\ log[j].from = r /\ log[j].number = k /\ Taken(j))'
    <3>1. k \in delivered[r] \/ (r = m.from /\ k = m.number)
      BY <1>1, <2>3
    <3>2. CASE r = m.from /\ k = m.number
      BY <2>7, <3>2
    <3>. QED
      BY <1>3, <3>1, <3>2
  <2>. QED
    BY <2>8 DEF CameOutInv
<1>. QED
  BY <1>4, <1>5, Changes

\* Only the clocks that are behind may go on.
LEMMA ClockStays ==
  ASSUME Shapes, ClockInv, Next
  PROVE  ClockInv'
<1>1. clock \in [Peers -> Epochs] /\ \A p \in Peers : clock[p] \in Nat
  BY Counts DEF Shapes, TypeOK
<1>2. ASSUME NEW p \in Peers, Tick(p)
      PROVE  ClockInv'
  <2>1. clock' = [clock EXCEPT ![p] = clock[p] + 1] /\ \A q \in Peers : clock[q] >= clock[p]
    BY <1>2 DEF Tick
  <2>2. \A q \in Peers : clock'[q] = IF q = p THEN clock[p] + 1 ELSE clock[q]
    BY <1>1, <2>1
  <2>. QED
    BY <1>1, <2>1, <2>2 DEF ClockInv
<1>. QED
  BY <1>2, Changes DEF ClockInv

-----------------------------------------------------------------------------
(* Texts that were sent when both ends stood *)

\* As long as two peers have begun one handshake only, what they have with each
\* other is of that handshake.
LEMMA SameHandshake ==
  ASSUME NEW p, NEW q, OnlyOne(q, p), NEW g, NEW h,
         Began(g, p, q) \/ Began(g, q, p), Began(h, p, q) \/ Began(h, q, p)
  PROVE  g = h
<1>1. PICK i \in Handshakes : log[i].hs = g /\ {log[i].from, log[i].to} = {q, p}
  BY DEF Began
<1>2. PICK j \in Handshakes : log[j].hs = h /\ {log[j].from, log[j].to} = {q, p}
  BY DEF Began
<1>3. i \in Between(q, p) /\ j \in Between(q, p)
  BY <1>1, <1>2 DEF Between
<1>. QED
  BY <1>1, <1>2, <1>3 DEF OnlyOne

\* The receiver's side of the session recognises the tag, in the epochs in
\* which it may.
LEMMA Recognised ==
  ASSUME Shapes, NumbersInv, LogInv, SessionsInv, ClockInv,
         NEW m \in Message, Text(m), NEW p, NEW q, p = m.to, q = m.from,
         sessions[p][q] # None, sessions[p][q].hs = m.hs,
         clock[p] - m.tag.epoch <= Skew
  PROVE  ForUs(p, m)
<1>1. p \in Peers /\ q \in Peers
  BY DEF Text, Message
<1>2. PICK s \in Session : s = sessions[p][q]
  BY <1>1, SessionTypes
<1>3. SessionOK(p, q, s) /\ s.hs = m.hs /\ s.initiator \in BOOLEAN
  <2>1. s.initiator \in BOOLEAN
    BY DEF Session
  <2>. QED
    BY <1>1, <1>2, <2>1 DEF SessionsInv
<1>4. m.tag.key = RecvKey(s)
  <2>1. CASE m.tag.key = <<"i2r", m.hs>> /\ Began(m.hs, q, p)
    <3>1. s.initiator # TRUE
      <4>. SUFFICES ASSUME s.initiator = TRUE PROVE FALSE
        OBVIOUS
      <4>1. Began(m.hs, p, q)
        BY <1>3 DEF SessionOK
      <4>. QED
        BY <2>1, <4>1, BegunOnce, BegunApart
    <3>2. s.initiator = FALSE
      BY <1>3, <3>1
    <3>. QED
      BY <1>3, <2>1, <3>2 DEF RecvKey
  <2>2. CASE m.tag.key = <<"r2i", m.hs>> /\ Began(m.hs, p, q)
    <3>1. s.initiator # FALSE
      <4>. SUFFICES ASSUME s.initiator = FALSE PROVE FALSE
        OBVIOUS
      <4>1. Began(m.hs, q, p)
        BY <1>3 DEF SessionOK
      <4>. QED
        BY <2>2, <4>1, BegunOnce, BegunApart
    <3>2. s.initiator = TRUE
      BY <1>3, <3>1
    <3>. QED
      BY <1>3, <2>2, <3>2 DEF RecvKey
  <2>. QED
    BY <2>1, <2>2 DEF Text
<1>5. Abs(m.tag.epoch - clock[p]) <= Skew
  <2>1. m.tag.epoch \in Nat /\ clock[p] \in Nat /\ clock[q] \in Nat
    BY <1>1, Counts DEF Message, Tag, Epochs
  <2>2. m.tag.epoch <= clock[q] /\ clock[q] <= clock[p] + 1
    BY <1>1 DEF Text, ClockInv
  <2>. QED
    BY <2>1, <2>2 DEF Abs, Skew
<1>6. q \in ByTag(p, m.tag)
  BY <1>1, <1>2, <1>4, <1>5 DEF ByTag, Matches
<1>. QED
  BY <1>6 DEF ForUs

\* A text that is settled is a text for somebody.
LEMMA SettledText ==
  ASSUME LogInv, Shapes, NEW i \in Positions, log[i].type = "DATA", log[i].settled
  PROVE  Text(log[i]) /\ log[i] \in Message /\ IsText(i)
<1>1. LetterOK(log[i]) /\ log[i] \in Message
  BY DEF LogInv, Shapes, TypeOK
<1>2. Text(log[i])
  BY <1>1 DEF LetterOK, Cover
<1>. QED
  BY <1>1, <1>2 DEF Text, IsText

\* The last frame of a text that its receiver recognises makes it come out.
LEMMA LastFrame ==
  ASSUME NodeAssumption, Shapes, KnownInv, NumbersInv, LogInv, SessionsInv, Next,
         NEW i \in Positions, NEW m, m = log[i], NEW p, p = m.to,
         IsText(i), ForUs(p, m),
         PartsOf(i) \cap handled[p] \subseteq collected[p],
         NEW g \in PartsOf(i), g \notin handled[p], g \in handled'[p]
  PROVE  /\ g \in collected'[p]
         /\ PartsOf(i) \subseteq handled'[p] => m.number \in delivered'[m.from]
<1>1. p \in Peers /\ m.type = "DATA" /\ g[1] = i
  BY PartsApart DEF IsText
<1>2. DOMAIN handled = Peers /\ DOMAIN collected = Peers
  BY DEF Shapes
<1>3. PICK r \in Peers, f \in air : Receive(r, f) /\ Gets(r, f)
  BY Hearing
<1>4. r = p /\ f = g
  BY <1>1, <1>2, <1>3, TakesOne
<1>5. Kept(p, g) = collected[p] \cup {g} /\ collected'[p] = Kept(p, g)
      /\ handled'[p] = handled[p] \cup {g}
  BY <1>1, <1>2, <1>3, <1>4, TakesOne
<1>6. ASSUME PartsOf(i) \subseteq handled'[p]
      PROVE  m.number \in delivered'[m.from]
  <2>1. Whole(p, g)
    BY <1>1, <1>5, <1>6 DEF Whole
  <2>2. OnData(p, g)
    BY <1>1, <1>3, <1>4, <2>1 DEF Receive, PassBy, OnInit, OnResp, OnFin, OnForeign, OnBeacon
  <2>3. Opened(p, g, m)
    BY <1>1, <1>3, <1>4, <2>2, TextOpened
  <2>4. /\ delivered' = [delivered EXCEPT ![m.from] = @ \cup {m.number}]
        /\ m.from \in Peers
    BY <2>3 DEF Opened
  <2>5. DOMAIN delivered = Peers
    BY DEF Shapes
  <2>. QED
    BY <2>4, <2>5
<1>. QED
  BY <1>5, <1>6

\* Texts that came out have come out for good.
LEMMA DeliveredGrows ==
  ASSUME NodeAssumption, Shapes, NumbersInv, LogInv, SessionsInv, Next, NEW p \in Peers
  PROVE  delivered[p] \subseteq delivered'[p]
<1>1. DOMAIN delivered = Peers
  BY DEF Shapes
<1>2. ASSUME NEW r \in Peers, NEW f \in air, OnData(r, f)
      PROVE  delivered[p] \subseteq delivered'[p]
  <2>1. PICK m : m = log[f[1]]
    OBVIOUS
  <2>2. delivered' = [delivered EXCEPT ![m.from] = @ \cup {m.number}]
    BY <1>2, <2>1 DEF OnData
  <2>. QED
    BY <1>1, <2>2
<1>. QED
  BY <1>2, Changes

\* The receiver's side of a session of its only handshake stays one.
LEMMA SideStays ==
  ASSUME NodeAssumption, Shapes, KnownInv, NumbersInv, LogInv, PendingInv, Next,
         NEW m \in Message, Text(m), NEW p, NEW q, p = m.to, q = m.from, OnlyOne(q, p),
         sessions[p][q] # None, sessions[p][q].hs = m.hs
  PROVE  sessions'[p][q] # None /\ sessions'[p][q].hs = m.hs
<1>1. p \in Peers /\ q \in Peers
  BY DEF Text, Message
<1>2. SessionStep(p, q)
  BY <1>1, SessionSteps
<1>3. PICK t : t = sessions'[p][q]
  OBVIOUS
<1>4. t \in Session \cup {None}
  <2>1. sessions' \in [Peers -> [Peers -> Session \cup {None}]]
    BY TablesStay
  <2>. QED
    BY <1>1, <1>3, <2>1
<1>5. CASE t # None /\ SessionOK(p, q, t)
  <2>1. t.initiator \in BOOLEAN
    BY <1>4, <1>5 DEF Session
  <2>2. Began(t.hs, p, q) \/ Began(t.hs, q, p)
    BY <1>5, <2>1 DEF SessionOK
  <2>3. Began(m.hs, p, q) \/ Began(m.hs, q, p)
    BY DEF Text
  <2>4. t.hs = m.hs
    BY <2>2, <2>3, SameHandshake
  <2>. QED
    BY <1>3, <1>5, <2>4
<1>. QED
  BY <1>2, <1>3, <1>5 DEF SessionStep

\* A text that was there before.
LEMMA OldSettled ==
  ASSUME NodeAssumption, Shapes, KnownInv, NumbersInv, LogInv, PendingInv, SessionsInv,
         ClockInv, SettledInv, Next, Shapes',
         NEW i \in Positions, NEW m \in Message, m = log[i], m.type = "DATA", m.settled,
         NEW p, NEW q, p = m.to, q = m.from, OnlyOne(q, p)
  PROVE  /\ sessions'[p][q] # None /\ sessions'[p][q].hs = m.hs
         /\ clock'[p] - m.tag.epoch <= Skew =>
              /\ PartsOf(i) \cap handled'[p] \subseteq collected'[p]
              /\ PartsOf(i) \subseteq handled'[p] => m.number \in delivered'[q]
<1>1. Text(m) /\ IsText(i)
  BY SettledText
<1>2. SettledOK(i)
  BY <1>1 DEF SettledInv
<1>3. sessions[p][q] # None /\ sessions[p][q].hs = m.hs
  BY <1>2 DEF SettledOK
<1>4. sessions'[p][q] # None /\ sessions'[p][q].hs = m.hs
  BY <1>1, <1>3, SideStays
<1>5. p \in Peers /\ q \in Peers
  BY <1>1 DEF Text, Message
<1>6. ASSUME clock'[p] - m.tag.epoch <= Skew
      PROVE  /\ PartsOf(i) \cap handled'[p] \subseteq collected'[p]
             /\ PartsOf(i) \subseteq handled'[p] => m.number \in delivered'[q]
  <2>1. clock[p] - m.tag.epoch <= Skew
    <3>1. clock[p] <= clock'[p]
      BY <1>5, Added DEF Onward
    <3>2. clock[p] \in Nat /\ clock'[p] \in Nat /\ m.tag.epoch \in Nat
      BY <1>5, Counts DEF Message, Tag, Epochs
    <3>. QED
      BY <1>6, <3>1, <3>2 DEF Skew
  <2>2. /\ PartsOf(i) \cap handled[p] \subseteq collected[p]
        /\ PartsOf(i) \subseteq handled[p] => m.number \in delivered[q]
    BY <1>2, <2>1 DEF SettledOK, Taken
  <2>3. ForUs(p, m)
    BY <1>1, <1>3, <2>1, Recognised
  <2>4. PartsOf(i) \cap handled'[p] \subseteq collected'[p]
    <3>. SUFFICES ASSUME NEW g \in PartsOf(i), g \in handled'[p]
                  PROVE  g \in collected'[p]
      OBVIOUS
    <3>1. CASE g \in handled[p]
      BY <1>5, <2>2, <3>1, HandledGrows
    <3>2. CASE g \notin handled[p]
      BY <1>1, <2>2, <2>3, <3>2, LastFrame
    <3>. QED
      BY <3>1, <3>2
  <2>5. ASSUME PartsOf(i) \subseteq handled'[p]
        PROVE  m.number \in delivered'[q]
    <3>1. CASE PartsOf(i) \subseteq handled[p]
      BY <1>5, <2>2, <3>1, DeliveredGrows
    <3>2. CASE \E g \in PartsOf(i) : g \notin handled[p]
      <4>1. PICK g \in PartsOf(i) : g \notin handled[p] /\ g \in handled'[p]
        BY <2>5, <3>2
      <4>. QED
        BY <1>1, <2>2, <2>3, <2>5, <4>1, LastFrame
    <3>. QED
      BY <3>1, <3>2
  <2>. QED
    BY <2>4, <2>5
<1>. QED
  BY <1>4, <1>6

\* A text that is just sent: none of its frames was taken.
LEMMA NewSettled ==
  ASSUME NodeAssumption, Shapes, KnownInv, Next, Shapes',
         NEW i \in Positions', i \notin Positions, NEW m \in Message, m = log'[i],
         m.type = "DATA", m.settled, m.to \in Peers, NEW p, NEW q, p = m.to, q = m.from
  PROVE  /\ sessions'[p][q] # None /\ sessions'[p][q].hs = m.hs
         /\ PartsOf(i)' \cap handled'[p] = {}
         /\ ~(PartsOf(i)' \subseteq handled'[p])
<1>1. Writes(m) /\ Adds(m)
  <2>1. PICK x \in Message : Writes(x) /\ Adds(x)
    BY Added DEF Positions
  <2>2. m = x
    BY <2>1 DEF Writes
  <2>. QED
    BY <2>1, <2>2
<1>2. PICK r \in Peers : SendText(r) /\ m = TextOf(r)
  BY <1>1, Kinds, NoneAssumption
<1>3. PICK s : s = sessions[r][Recipient(r)]
  OBVIOUS
<1>4. q = r /\ p = Recipient(r) /\ m.hs = s.hs
  BY <1>2, <1>3 DEF TextOf, Letter
<1>5. sessions[p][q] # None /\ sessions[p][q].hs = m.hs
  <2> DEFINE x == Recipient(r)
             y == sessions[r][x]
             z == sessions[x][r]
             settled == z # None /\ z.hs = y.hs
  <2>1. TextOf(r) = Letter("DATA", r, x, y.hs, Now(r, SendKey(y)), NextText(r), settled)
    BY DEF TextOf
  <2> HIDE DEF settled
  <2>2. m.settled = settled
    BY <1>2, <2>1 DEF Letter
  <2>3. settled
    BY <2>2
  <2>4. z # None /\ z.hs = y.hs
    BY <2>3 DEF settled
  <2>. QED
    BY <1>3, <1>4, <2>4
<1>6. sessions' = sessions /\ handled' = handled
  BY <1>2 DEF SendText, table
<1>7. handled[p] \subseteq Cut
  BY DEF Shapes
<1>8. PartsOf(i)' = {Frame(i, k) : k \in 1 .. m.count}
  BY DEF PartsOf
<1>9. \A f \in PartsOf(i)' : f \notin Cut
  <2>1. \A f \in PartsOf(i)' : f[1] = i
    BY <1>8 DEF Frame
  <2>. QED
    BY <2>1, CutParts
<1>10. \E f \in PartsOf(i)' : TRUE
  <2>1. 1 \in 1 .. m.count
    BY DEF Message
  <2>. QED
    BY <1>8, <2>1
<1>. QED
  BY <1>5, <1>6, <1>7, <1>9, <1>10

\* Old texts and the new one keep what SettledInv says.
LEMMA SettledStays ==
  ASSUME NodeAssumption, Shapes, KnownInv, NumbersInv, LogInv, PendingInv, SessionsInv,
         ClockInv, SettledInv, Next, Shapes'
  PROVE  SettledInv'
<1>1. Onward
  BY Added
<1>2. ASSUME NEW i \in Positions', IsText(i)', log'[i].settled,
             OnlyOne(log[i].from, log[i].to)'
      PROVE  SettledOK(i)'
  <2>1. PICK m \in Message : m = log'[i]
    BY LogStays
  <2>2. PICK p, q : p = m.to /\ q = m.from
    OBVIOUS
  <2>3. p \in Peers /\ m.type = "DATA" /\ m.settled
    BY <1>2, <2>1, <2>2 DEF IsText
  <2>4. CASE i \in Positions
    <3>1. m = log[i] /\ PartsOf(i)' = PartsOf(i)
      BY <1>1, <2>1, <2>4, CutStays DEF Onward
    <3>2. OnlyOne(q, p)
      <4>1. Between(q, p) \subseteq Between(q, p)'
        BY <1>1 DEF Between, Handshakes, Onward
      <4>2. \A x, y \in Between(q, p)' : x = y
        BY <1>2, <2>1, <2>2 DEF OnlyOne, Between, Handshakes
      <4>. QED
        BY <4>1, <4>2 DEF OnlyOne
    <3>3. /\ sessions'[p][q] # None /\ sessions'[p][q].hs = m.hs
          /\ clock'[p] - m.tag.epoch <= Skew =>
               /\ PartsOf(i) \cap handled'[p] \subseteq collected'[p]
               /\ PartsOf(i) \subseteq handled'[p] => m.number \in delivered'[q]
      BY <2>2, <2>3, <2>4, <3>1, <3>2, OldSettled
    <3>. QED
      BY <2>1, <2>2, <3>1, <3>3 DEF SettledOK, Taken
  <2>5. CASE i \notin Positions
    <3>1. /\ sessions'[p][q] # None /\ sessions'[p][q].hs = m.hs
          /\ PartsOf(i)' \cap handled'[p] = {}
          /\ ~(PartsOf(i)' \subseteq handled'[p])
      BY <2>1, <2>2, <2>3, <2>5, NewSettled
    <3>. QED
      BY <2>1, <2>2, <3>1 DEF SettledOK, Taken
  <2>. QED
    BY <2>4, <2>5
<1>. QED
  BY <1>2 DEF SettledInv

-----------------------------------------------------------------------------
(* The invariant *)

LEMMA NodeBegins ==
  ASSUME Init
  PROVE  NodeInv
<1>1. log = << >> /\ Positions = {} /\ Handshakes = {} /\ Cut = {}
  <2>1. log = << >> /\ Len(log) = 0
    BY DEF Init
  <2>2. Positions = {}
    BY <2>1 DEF Positions
  <2>. QED
    BY <2>1, <2>2 DEF Handshakes, Cut
<1>2. Shapes
  <2>1. log \in Seq(Message)
    BY <1>1
  <2>2. out \in [Peers -> [Tasks -> Seq(Cut)]]
    BY <1>1 DEF Init
  <2>3. /\ running \in [Peers -> BOOLEAN] /\ clock \in [Peers -> Epochs]
        /\ sent \in [Peers -> 0 .. MaxTexts] /\ received \in [Peers -> Nat]
        /\ ended \in [Peers -> {"no", "quit", "refused", "no chain"}]
        /\ refusals \in 0 .. MaxRefusals
    BY NodeAssumption DEF Init, Epochs
  <2>4. /\ pending \in [Peers -> [HsIds -> BOOLEAN \cup {None}]]
        /\ sessions \in [Peers -> [Peers -> Session \cup {None}]]
        /\ order \in [Peers -> Seq(Peers)] /\ target \in [Peers -> Peers \cup {None}]
        /\ discovered \in [Peers -> SUBSET Peers]
    BY DEF Init
  <2>5. /\ air = {} /\ handled \in [Peers -> SUBSET Cut] /\ collected \in [Peers -> SUBSET Cut]
        /\ \A p \in Peers : collected[p] = {} /\ handled[p] = {}
    BY DEF Init
  <2>6. /\ delivered \in [Peers -> SUBSET Nat] /\ \A p \in Peers : delivered[p] = {}
        /\ inbox \in [Peers -> SUBSET (Peers \X Positions)]
    BY DEF Init
  <2>7. TypeOK
    BY <1>1, <2>2, <2>3, <2>4, <2>5, <2>6 DEF TypeOK, Cut
  <2>. QED
    BY <2>1, <2>5, <2>6, <2>7 DEF Shapes
<1>3. KnownInv /\ PendingInv /\ SessionsInv
  <2>1. \A p \in Peers : target[p] = None /\ order[p] = << >> /\ DOMAIN order[p] = {}
    BY DEF Init
  <2>2. \A p, q \in Peers : sessions[p][q] = None
    BY DEF Init
  <2>3. \A p \in Peers, h \in HsIds : pending[p][h] # TRUE /\ pending[p][h] # FALSE
    BY NoneAssumption DEF Init
  <2>4. KnownInv
    BY <2>1 DEF KnownInv
  <2>5. PendingInv
    BY <2>3 DEF PendingInv
  <2>6. SessionsInv
    BY <2>2 DEF SessionsInv
  <2>. QED
    BY <2>4, <2>5, <2>6
<1>4. NumbersInv /\ LogInv /\ TextsInv /\ SettledInv
  BY <1>1 DEF NumbersInv, LogInv, TextsInv, SettledInv
<1>5. CameOutInv /\ ClockInv /\ ShownTruly
  BY DEF Init, CameOutInv, ClockInv, ShownTruly
<1>. QED
  BY <1>2, <1>3, <1>4, <1>5 DEF NodeInv

\* The invariant is inductive.
LEMMA NodeSteps ==
  ASSUME NodeInv, Next
  PROVE  NodeInv'
<1>1. /\ Shapes /\ KnownInv /\ NumbersInv /\ LogInv /\ PendingInv /\ SessionsInv
      /\ TextsInv /\ CameOutInv /\ ClockInv /\ SettledInv /\ ShownTruly
  BY DEF NodeInv
<1>2. Shapes'
  BY <1>1, NodeAssumption, ShapesStay
<1>3. KnownInv' /\ SessionsInv'
  BY <1>1, NodeAssumption, KnownStays, SessionsStay
<1>4. NumbersInv' /\ TextsInv' /\ PendingInv'
  BY <1>1, NodeAssumption, NumbersStay, TextsStay, PendingStays
<1>5. LogInv'
  BY <1>1, <1>2, NodeAssumption, LogInvStays
<1>6. CameOutInv' /\ ClockInv' /\ ShownTruly'
  BY <1>1, NodeAssumption, CameOutStays, ClockStays, ShownStays
<1>7. SettledInv'
  BY <1>1, <1>2, NodeAssumption, SettledStays
<1>. QED
  BY <1>2, <1>3, <1>4, <1>5, <1>6, <1>7 DEF NodeInv

\* A step that changes nothing keeps it.
LEMMA NodeStutters ==
  ASSUME NodeInv, UNCHANGED vars
  PROVE  NodeInv'
<1>1. /\ log' = log /\ Positions' = Positions /\ Handshakes' = Handshakes
      /\ \A i : PartsOf(i)' = PartsOf(i)
      /\ Cut' = Cut
  <2>1. log' = log
    BY DEF vars
  <2>2. Positions' = Positions /\ \A i : PartsOf(i)' = PartsOf(i)
    BY <2>1 DEF Positions, PartsOf
  <2>. QED
    BY <2>1, <2>2 DEF Handshakes, Cut
<1>2. Shapes'
  <2>0. Shapes
    BY DEF NodeInv
  <2>1. /\ running' = running /\ clock' = clock /\ pending' = pending
        /\ sessions' = sessions /\ order' = order /\ target' = target
        /\ discovered' = discovered /\ out' = out /\ air' = air
        /\ handled' = handled /\ collected' = collected /\ sent' = sent
        /\ delivered' = delivered /\ received' = received /\ inbox' = inbox
        /\ ended' = ended /\ refusals' = refusals
    BY DEF vars
  <2>2. /\ out' \in [Peers -> [Tasks -> Seq(Cut')]] /\ air' \subseteq Cut'
        /\ \A i \in Positions' : log'[i] \in Message
    <3>1. /\ out \in [Peers -> [Tasks -> Seq(Cut)]] /\ air \subseteq Cut
          /\ \A i \in Positions : log[i] \in Message
      BY <2>0 DEF Shapes, TypeOK, Cut
    <3>. QED
      BY <1>1, <2>1, <3>1
  <2>3. TypeOK'
    BY <2>0, <2>1, <2>2 DEF Shapes, TypeOK, Cut
  <2>. QED
    BY <1>1, <2>0, <2>1, <2>3 DEF Shapes
<1>3. KnownInv' /\ NumbersInv' /\ ClockInv'
  BY <1>1 DEF NodeInv, KnownInv, NumbersInv, ClockInv, vars
<1>4. \A h, p, q : Began(h, p, q)' = Began(h, p, q)
  BY <1>1 DEF Began
<1>5. PendingInv' /\ SessionsInv'
  BY <1>1, <1>4 DEF NodeInv, PendingInv, SessionsInv, SessionOK, vars
<1>6. LogInv'
  BY <1>1, <1>4 DEF NodeInv, LogInv, LetterOK, Cover, Text, vars
<1>7. TextsInv' /\ CameOutInv' /\ ShownTruly'
  BY <1>1 DEF NodeInv, TextsInv, CameOutInv, IsText, Taken, ShownTruly, vars
<1>8. SettledInv'
  <2>1. /\ sessions' = sessions /\ clock' = clock /\ handled' = handled
        /\ collected' = collected /\ delivered' = delivered
    BY DEF vars
  <2>2. \A i : IsText(i)' = IsText(i)
    BY <1>1 DEF IsText
  <2>3. \A p, q : OnlyOne(p, q)' = OnlyOne(p, q)
    BY <1>1 DEF OnlyOne, Between
  <2>4. \A i : Taken(i)' = Taken(i)
    BY <1>1, <2>1 DEF Taken
  <2>5. \A i : SettledOK(i)' = SettledOK(i)
    BY <1>1, <2>1, <2>4 DEF SettledOK
  <2>6. ASSUME NEW i \in Positions', IsText(i)', log'[i].settled,
               OnlyOne(log[i].from, log[i].to)'
        PROVE  SettledOK(i)'
    <3>1. OnlyOne(log[i].from, log[i].to)
      BY <1>1, <2>6 DEF OnlyOne, Between
    <3>. QED
      BY <1>1, <2>2, <2>5, <2>6, <3>1 DEF NodeInv, SettledInv
  <2>. QED
    BY <2>6 DEF SettledInv
<1>. QED
  BY <1>2, <1>3, <1>5, <1>6, <1>7, <1>8 DEF NodeInv

\* What every reachable state has: the sessions, the waiting handshakes and the
\* tags in the air belong to handshakes that were begun by who they say, every
\* text has a number of its own, and what came out was taken as a whole.
THEOREM NodeInvariant == Spec => []NodeInv
<1>1. NodeInv /\ [Next]_vars => NodeInv'
  BY NodeSteps, NodeStutters
<1>. QED
  BY <1>1, NodeBegins, PTL DEF Spec

-----------------------------------------------------------------------------
(* What follows *)

\* The tables of a node hold what their types say, in particular sessions of
\* handshakes that exist and only texts that were sent (node.py, session.py).
THEOREM TypeCorrect == Spec => []TypeOK
<1>1. NodeInv => TypeOK
  BY DEF NodeInv, Shapes
<1>. QED
  BY <1>1, NodeInvariant, PTL

\* A text is shown as coming from the one who sent it, to the one it was meant
\* for: two sessions never recognise the same tag, whatever handshakes crossed
\* or were repeated (session_by_tag, IncomingMessage.peer).
THEOREM WhoSaidIt == Spec => []ShownTruly
<1>1. NodeInv => ShownTruly
  BY DEF NodeInv
<1>. QED
  BY <1>1, NodeInvariant, PTL

\* A text of a session that both ends had when it was sent comes out with the
\* last of its frames, in whatever order they come and whatever the clocks do
\* within the epochs a receiver accepts (_is_for_us, _emit, _on_data).
THEOREM SettledComesOut == Spec => []SettledDelivers
<1>1. ASSUME NodeInv PROVE SettledDelivers
  <2>1. Shapes /\ LogInv /\ SettledInv
    BY <1>1 DEF NodeInv
  <2>2. ASSUME NEW i \in Positions, NEW m, m = log[i], m.type = "DATA", m.settled,
               PartsOf(i) \subseteq handled[m.to],
               Cardinality(Between(m.from, m.to)) = 1, clock[m.to] - m.tag.epoch <= Skew
        PROVE  m.number \in delivered[m.from]
    <3>1. IsText(i)
      BY <2>1, <2>2, SettledText
    <3>2. OnlyOne(m.from, m.to)
      <4>1. PICK all : all = Between(m.from, m.to)
        OBVIOUS
      <4>2. IsFiniteSet(all)
        <5>1. IsFiniteSet(1 .. Len(log))
          <6>1. Len(log) \in Nat
            BY <2>1 DEF Shapes
          <6>. QED
            BY <6>1, FS_Interval
        <5>2. all \subseteq 1 .. Len(log)
          BY <4>1 DEF Between, Handshakes, Positions
        <5>. QED
          BY <5>1, <5>2, FS_Subset
      <4>3. \E x : all = {x}
        BY <2>2, <4>1, <4>2, FS_Singleton
      <4>. QED
        BY <4>1, <4>3 DEF OnlyOne
    <3>3. SettledOK(i)
      BY <2>1, <2>2, <3>1, <3>2 DEF SettledInv
    <3>. QED
      BY <2>2, <3>3 DEF SettledOK, Taken
  <2>. QED
    BY <2>2 DEF SettledDelivers
<1>. QED
  BY <1>1, NodeInvariant, PTL

\* The channel between the users of the nodes.
Promised == INSTANCE Channel

\* The nodes begin as a channel does.
LEMMA ChannelBegins ==
  ASSUME Init
  PROVE  Promised!Init
BY DEF Init, Promised!Init

\* Sending a text puts it in; opening it takes out one that was put in and had
\* not come out: all its frames but the last were taken before, and the last was not.
LEMMA ChannelSteps ==
  ASSUME NodeInv, Next
  PROVE  Promised!Next \/ UNCHANGED Promised!vars
<1>1. /\ Shapes /\ KnownInv /\ NumbersInv /\ LogInv /\ SessionsInv /\ TextsInv /\ CameOutInv
  BY DEF NodeInv
<1>2. ASSUME NEW p \in Peers, SendText(p)
      PROVE  Promised!Next
  <2>1. sent' = [sent EXCEPT ![p] = sent[p] + 1] /\ UNCHANGED <<delivered, received>>
    BY <1>2 DEF SendText, NextText
  <2>2. Promised!Send(p)
    BY <2>1 DEF Promised!Send
  <2>. QED
    BY <2>2 DEF Promised!Next
<1>3. ASSUME NEW p \in Peers, NEW f \in air, OnData(p, f)
      PROVE  Promised!Next
  <2>1. PICK m : m = log[f[1]]
    OBVIOUS
  <2>2. Opened(p, f, m)
    BY <1>1, <1>3, <2>1, TextOpened
  <2>3. PICK q, k : q = m.from /\ k = m.number
    OBVIOUS
  <2>4. /\ Text(m) /\ m.type = "DATA" /\ m.to = p /\ q \in Peers /\ f[1] \in Positions
        /\ received' = [received EXCEPT ![p] = @ + 1]
        /\ delivered' = [delivered EXCEPT ![q] = @ \cup {k}]
    BY <2>2, <2>3 DEF Opened
  <2>5. k \in 1 .. sent[q]
    BY <2>3, <2>4 DEF Text
  <2>6. p # q
    <3>1. Began(m.hs, q, p) \/ Began(m.hs, p, q)
      BY <2>3, <2>4 DEF Text
    <3>. QED
      BY <1>1, <3>1, BegunApart
  <2>7. k \notin delivered[q]
    <3>. SUFFICES ASSUME k \in delivered[q] PROVE FALSE
      OBVIOUS
    <3>1. PICK i \in Positions : IsText(i) /\ log[i].from = q /\ log[i].number = k /\ Taken(i)
      BY <1>1, <2>4 DEF CameOutInv
    <3>2. i = f[1]
      BY <1>1, <2>1, <2>3, <2>4, <3>1 DEF TextsInv, IsText
    <3>3. f \in PartsOf(f[1]) /\ f \notin handled[p]
      BY <1>1, <1>3, Airborne DEF OnData, Takes
    <3>. QED
      BY <2>1, <2>4, <3>1, <3>2, <3>3 DEF Taken
  <2>8. sent' = sent
    BY <1>3 DEF OnData
  <2>9. Promised!Deliver(p, q, k)
    BY <2>4, <2>7, <2>8 DEF Promised!Deliver
  <2>. QED
    BY <2>4, <2>5, <2>6, <2>9 DEF Promised!Next
<1>4. CASE UNCHANGED <<sent, delivered, received>>
  BY <1>4 DEF Promised!vars
<1>. QED
  BY <1>2, <1>3, <1>4, Changes

\* What the users type and are shown is a channel: a text comes
\* out only if it was sent, and once at most, however its frames are cut, mixed
\* with others and reordered (SessionManager, Node._on_data).
THEOREM NodesAreAChannel == Spec => Promised!Spec
<1>1. NodeInv /\ [Next]_vars => [Promised!Next]_(Promised!vars)
  <2>1. UNCHANGED vars => UNCHANGED Promised!vars
    BY DEF vars, Promised!vars
  <2>. QED
    BY <2>1, ChannelSteps
<1>. QED
  BY <1>1, ChannelBegins, NodeInvariant, PTL DEF Spec, Promised!Spec
=============================================================================
