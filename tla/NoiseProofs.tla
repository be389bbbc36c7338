---------------------------- MODULE NoiseProofs ----------------------------
(***************************************************************************)
(* What holds of the Noise XX handshake for any number of ends, owned by   *)
(* whomever, whatever arrives where, how often and how damaged.            *)
(*                                                                         *)
(* All that an end which did not fail can have in its hands is determined  *)
(* by who it is, by the end it talks with and by how far it has come: the  *)
(* terms below.  x is the initiator, y the responder; a responder that was *)
(* given a damaged message 1 talks with x = Damaged, which is no end.      *)
(***************************************************************************)
EXTENDS Noise, TLAPS

-----------------------------------------------------------------------------
(* The transcripts T, the keys K, and the encrypted parts S and P of the     *)
(* messages 2 and 3.                                                         *)

T1(x) == Append(<< >>, Eph(x))
T2(x, y) == Append(T1(x), Eph(y))
K1(x, y) == Append(<< >>, DH(Eph(x), Eph(y)))
S2(x, y) == [key |-> K1(x, y), nonce |-> 0, ad |-> T2(x, y), text |-> Stat(Owner[y])]
T3(x, y) == Append(T2(x, y), S2(x, y))
K2(x, y) == Append(K1(x, y), DH(Eph(x), Stat(Owner[y])))
P2(x, y) == [key |-> K2(x, y), nonce |-> 0, ad |-> T3(x, y),
             text |-> [by |-> Owner[y], signed |-> T3(x, y)]]
T4(x, y) == Append(T3(x, y), P2(x, y))
S3(x, y) == [key |-> K2(x, y), nonce |-> 1, ad |-> T4(x, y), text |-> Stat(Owner[x])]
T5(x, y) == Append(T4(x, y), S3(x, y))
K3(x, y) == Append(K2(x, y), DH(Stat(Owner[x]), Eph(y)))
P3(x, y) == [key |-> K3(x, y), nonce |-> 0, ad |-> T5(x, y),
             text |-> [by |-> Owner[x], signed |-> T5(x, y)]]
T6(x, y) == Append(T5(x, y), P3(x, y))

-----------------------------------------------------------------------------
(* The inductive invariant *)

Fields == {"e", "re", "rs", "ck", "h", "k", "n", "index", "split"}
Shape(t) == DOMAIN t = Fields

Callers == Initiators \cup {Damaged}

Terms == {Eph(x) : x \in Ends \cup {Damaged}} \cup {Stat(o) : o \in Owners}
Secrets == SUBSET Terms

\* The state of one end: its chaining key, which is its key, its transcript and
\* its nonce.
At(t, ck, h, n) == t.ck = ck /\ t.k = ck /\ t.h = h /\ t.n = n

\* y has answered x.
Answered(y, x) == y \in Responders /\ hand[y].index >= 2 /\ hand[y].re = x

\* An initiator: a read that failed leaves it with a chaining key it cannot go
\* on from.
InitiatorOK(x) ==
  LET t == hand[x]
  IN  /\ Shape(t) /\ t.index \in 0 .. 3
      /\ t.index = 3 => t.split = TRUE
      /\ t.index # 3 => t.split = FALSE
      /\ failures[x] \in Nat
      /\ t.index # 1 => failures[x] = 0
      /\ t.index = 0 => t.ck = << >> /\ t.h = << >>
      /\ t.index = 1 => IF failures[x] = 0 THEN t.ck = << >> /\ t.h = T1(x)
                        ELSE t.ck \in Seq(Secrets) /\ Len(t.ck) >= 1
      /\ t.index >= 2 => Answered(t.re, x) /\ t.rs = Owner[t.re]
      /\ t.index = 2 => At(t, K2(x, t.re), T4(x, t.re), 1)
      /\ t.index = 3 => At(t, K3(x, t.re), T6(x, t.re), 1)

\* A responder: a proof in message 3 that it cannot open leaves it with the
\* key after the one that message 3 is sealed with.
ResponderOK(y) ==
  LET t == hand[y]
  IN  /\ Shape(t) /\ t.index \in 0 .. 3
      /\ t.index = 3 => t.split = TRUE
      /\ t.index # 3 => t.split = FALSE
      /\ t.index = 0 => t.ck = << >> /\ t.h = << >>
      /\ t.index >= 1 => t.re \in Callers
      /\ t.index = 1 => t.ck = << >> /\ t.h = T1(t.re)
      /\ t.index = 2 => \/ At(t, K2(t.re, y), T4(t.re, y), 1)
                        \/ t.k = K3(t.re, y)
      /\ t.index = 3 =>
           /\ t.re \in Initiators /\ t.rs = Owner[t.re]
           /\ hand[t.re].index = 3 /\ hand[t.re].re = y
           /\ At(t, K3(t.re, y), T6(t.re, y), 1)

\* Everything that was encrypted, by whom.
IsSealed(a) ==
  \/ \E y \in Responders :
       /\ hand[y].index >= 2
       /\ a = <<y, S2(hand[y].re, y)>> \/ a = <<y, P2(hand[y].re, y)>>
  \/ \E x \in Initiators :
       /\ hand[x].index = 3
       /\ a = <<x, S3(x, hand[x].re)>> \/ a = <<x, P3(x, hand[x].re)>>

\* A message that was written, by the end that wrote it.
IsMessage1(m) == \E x \in Initiators : m = [number |-> 1, e |-> x]
IsMessage2(m) ==
  \E y \in Responders :
    /\ hand[y].index >= 2
    /\ m = [number |-> 2, e |-> y, s |-> S2(hand[y].re, y), p |-> P2(hand[y].re, y)]
IsMessage3(m) ==
  \E x \in Initiators :
    /\ hand[x].index = 3
    /\ m = [number |-> 3, s |-> S3(x, hand[x].re), p |-> P3(x, hand[x].re)]

\* The proofs the ends sent are among what was encrypted.
ProofsSealed ==
  /\ \A y \in Responders : hand[y].index >= 2 => <<y, P2(hand[y].re, y)>> \in sealed
  /\ \A x \in Initiators : hand[x].index = 3 => <<x, P3(x, hand[x].re)>> \in sealed

NoiseInv ==
  /\ hand = [x \in Ends |-> hand[x]]
  /\ failures = [x \in Ends |-> failures[x]]
  /\ \A x \in Initiators : InitiatorOK(x)
  /\ \A y \in Responders : ResponderOK(y)
  /\ \A a \in sealed : IsSealed(a)
  /\ ProofsSealed
  /\ \A m \in written : IsMessage1(m) \/ IsMessage2(m) \/ IsMessage3(m)

-----------------------------------------------------------------------------
(* One step of a symmetric state, field by field *)

\* The fields an end's state keeps through mix_hash and mix_key.
SameHead(u, t) ==
  u.e = t.e /\ u.re = t.re /\ u.rs = t.rs /\ u.index = t.index /\ u.split = t.split

\* mix_hash touches the transcript and nothing else.
LEMMA MixHashDone ==
  ASSUME NEW t, NEW item, Shape(t)
  PROVE  /\ Shape(MixHash(t, item)) /\ SameHead(MixHash(t, item), t)
         /\ MixHash(t, item).h = Append(t.h, item)
         /\ MixHash(t, item).ck = t.ck /\ MixHash(t, item).k = t.k
         /\ MixHash(t, item).n = t.n
BY DEF MixHash, Shape, Fields, SameHead

\* mix_key: a longer chaining key, the new key, and a nonce that starts again.
LEMMA MixKeyDone ==
  ASSUME NEW t, NEW secret, Shape(t)
  PROVE  /\ Shape(MixKey(t, secret)) /\ SameHead(MixKey(t, secret), t)
         /\ MixKey(t, secret).h = t.h
         /\ MixKey(t, secret).ck = Append(t.ck, secret)
         /\ MixKey(t, secret).k = Append(t.ck, secret)
         /\ MixKey(t, secret).n = 0
BY DEF MixKey, Shape, Fields, SameHead

\* What is encrypted goes into the transcript, and counts.
LEMMA SealedDone ==
  ASSUME NEW t, NEW text, Shape(t)
  PROVE  /\ Shape(Sealed(t, text)) /\ SameHead(Sealed(t, text), t)
         /\ Sealed(t, text).h = Append(t.h, Seal(t, text))
         /\ Sealed(t, text).ck = t.ck /\ Sealed(t, text).k = t.k
         /\ Sealed(t, text).n = t.n + 1
<1>1. Shape([t EXCEPT !.n = @ + 1])
  BY DEF Shape, Fields
<1>2. QED
  BY <1>1, MixHashDone DEF Sealed, Shape, Fields, SameHead

\* What is decrypted does, too.
LEMMA OpenedDone ==
  ASSUME NEW t, NEW c, Shape(t)
  PROVE  /\ Shape(Opened(t, c)) /\ SameHead(Opened(t, c), t)
         /\ Opened(t, c).h = Append(t.h, c)
         /\ Opened(t, c).ck = t.ck /\ Opened(t, c).k = t.k
         /\ Opened(t, c).n = t.n + 1
<1>1. Shape([t EXCEPT !.n = @ + 1])
  BY DEF Shape, Fields
<1>2. QED
  BY <1>1, MixHashDone DEF Opened, Shape, Fields, SameHead

\* The second half of a message: the static key and the proof, as they are
\* encrypted, and the state after it.
StaticOf(o, t) == [key |-> t.k, nonce |-> t.n, ad |-> t.h, text |-> Stat(o)]
ProofOf(o, t, secret) ==
  [key |-> Append(t.ck, secret), nonce |-> 0, ad |-> Append(t.h, StaticOf(o, t)),
   text |-> [by |-> o, signed |-> Append(t.h, StaticOf(o, t))]]

\* Sealing encrypts these two, the second under a new key.
LEMMA SealingDone ==
  ASSUME NEW x, NEW t, NEW secret, Shape(t)
  PROVE  /\ Sealing(x, t, secret).s = StaticOf(Owner[x], t)
         /\ Sealing(x, t, secret).p = ProofOf(Owner[x], t, secret)
         /\ Shape(Sealing(x, t, secret).hand) /\ SameHead(Sealing(x, t, secret).hand, t)
         /\ At(Sealing(x, t, secret).hand, Append(t.ck, secret),
               Append(Append(t.h, StaticOf(Owner[x], t)), ProofOf(Owner[x], t, secret)), 1)
<1> DEFINE s == StaticOf(Owner[x], t)
           u == Sealed(t, Stat(Owner[x]))
           t2 == MixKey(u, secret)
           p == ProofOf(Owner[x], t, secret)
           v == Sealed(t2, Identity(x, t2))
<1>1. Seal(t, Stat(Owner[x])) = s
  BY DEF Seal, StaticOf
<1>2. Shape(u) /\ SameHead(u, t) /\ u.h = Append(t.h, s) /\ u.ck = t.ck
  BY <1>1, SealedDone
<1>3. /\ Shape(t2) /\ SameHead(t2, u) /\ t2.h = Append(t.h, s) /\ t2.n = 0
      /\ t2.ck = Append(t.ck, secret) /\ t2.k = Append(t.ck, secret)
  BY <1>2, MixKeyDone
<1>4. Seal(t2, Identity(x, t2)) = p
  BY <1>3 DEF Seal, Identity, ProofOf
<1>5. /\ Shape(v) /\ SameHead(v, t2) /\ v.h = Append(Append(t.h, s), p)
      /\ v.ck = Append(t.ck, secret) /\ v.k = Append(t.ck, secret) /\ v.n = 1
  <2>1. /\ Shape(v) /\ SameHead(v, t2)
        /\ v.h = Append(t2.h, Seal(t2, Identity(x, t2)))
        /\ v.ck = t2.ck /\ v.k = t2.k /\ v.n = t2.n + 1
    BY <1>3, SealedDone
  <2> HIDE DEF s, u, t2, p, v
  <2>2. QED
    BY <2>1, <1>3, <1>4
<1>6. Sealing(x, t, secret) = [s |-> s, p |-> p, hand |-> v]
  BY <1>1, <1>4 DEF Sealing
<1> HIDE DEF s, u, t2, p, v
<1>7. /\ Sealing(x, t, secret).s = s /\ Sealing(x, t, secret).p = p
      /\ Sealing(x, t, secret).hand = v
  BY <1>6
<1>8. Shape(v) /\ SameHead(v, t) /\ At(v, Append(t.ck, secret), Append(Append(t.h, s), p), 1)
  BY <1>2, <1>3, <1>5 DEF SameHead, At
<1>9. QED
  BY <1>7, <1>8 DEF s, p

\* What comes of a message whose static key opens: o is who the key says it is
\* of.  Its proof may open or not.
AfterOpening(r, t, m, o, ck) ==
  /\ Shape(r.hand)
  /\ r.hand.e = t.e /\ r.hand.re = t.re /\ r.hand.rs = o
  /\ r.hand.index = t.index /\ r.hand.split = t.split
  /\ r.hand.ck = ck /\ r.hand.k = ck
  /\ \/ r.ok = FALSE
     \/ /\ r.ok = TRUE /\ m.p # Damaged
        /\ r.hand.h = Append(Append(t.h, m.s), m.p) /\ r.hand.n = 1

\* Opening comes to that, whatever the proof is.
LEMMA OpeningDone ==
  ASSUME NEW x, NEW t, NEW m, NEW o, Shape(t), Opens(t, m.s), m.s.text = Stat(o)
  PROVE  AfterOpening(Opening(x, t, m), t, m, o, Append(t.ck, DH(Eph(x), Stat(o))))
<1> DEFINE u == Opened(t, m.s)
           w == [u EXCEPT !.rs = m.s.text.stat]
           t2 == MixKey(w, DH(Eph(x), m.s.text))
           v == Opened(t2, m.p)
           r == Opening(x, t, m)
           ck == Append(t.ck, DH(Eph(x), Stat(o)))
<1>1. Shape(u) /\ SameHead(u, t) /\ u.h = Append(t.h, m.s) /\ u.ck = t.ck
  BY OpenedDone
<1>2. m.s.text.stat = o
  BY DEF Stat
<1>3. /\ Shape(w) /\ w.e = t.e /\ w.re = t.re /\ w.rs = o /\ w.index = t.index
      /\ w.split = t.split /\ w.h = Append(t.h, m.s) /\ w.ck = t.ck
  <2> HIDE DEF u
  <2>1. QED
    BY <1>1, <1>2 DEF Shape, Fields, SameHead
<1>4. /\ Shape(t2) /\ SameHead(t2, w) /\ t2.h = Append(t.h, m.s)
      /\ t2.ck = ck /\ t2.k = ck /\ t2.n = 0
  <2> HIDE DEF w
  <2>1. QED
    BY <1>3, MixKeyDone
<1>5. /\ Shape(v) /\ SameHead(v, t2) /\ v.h = Append(Append(t.h, m.s), m.p)
      /\ v.ck = ck /\ v.k = ck /\ v.n = 1
  <2> HIDE DEF t2, ck
  <2>1. /\ Shape(v) /\ SameHead(v, t2) /\ v.h = Append(t2.h, m.p)
        /\ v.ck = t2.ck /\ v.k = t2.k /\ v.n = t2.n + 1
    BY <1>4, OpenedDone
  <2> HIDE DEF v
  <2>2. QED
    BY <2>1, <1>4
<1>6. \/ r = [ok |-> FALSE, hand |-> t2]
      \/ r = [ok |-> TRUE, hand |-> v] /\ m.p # Damaged
  BY DEF Opening, Opens
<1> HIDE DEF u, w, t2, v, r, ck
<1>7. \/ r.ok = FALSE /\ r.hand = t2
      \/ r.ok = TRUE /\ r.hand = v /\ m.p # Damaged
  BY <1>6
<1>8. QED
  BY <1>3, <1>4, <1>5, <1>7 DEF SameHead, r, ck, AfterOpening

\* A message whose static key does not open changes nothing.
LEMMA ShutOut ==
  ASSUME NEW x, NEW t, NEW m, ~Opens(t, m.s)
  PROVE  Opening(x, t, m).hand = t /\ Opening(x, t, m).ok = FALSE
BY DEF Opening

-----------------------------------------------------------------------------
(* Keys tell who talks with whom, and how far *)

\* A sequence that got longer.
LEMMA Appended ==
  ASSUME NEW S, NEW s \in Seq(S), NEW e \in S
  PROVE  /\ Append(s, e) \in Seq(S) /\ Len(Append(s, e)) = Len(s) + 1
         /\ Append(s, e)[Len(s) + 1] = e
         /\ \A i \in 1 .. Len(s) : Append(s, e)[i] = s[i]
OBVIOUS

\* How long the keys are, and what went into them first.
LEMMA KeysLaidOut ==
  ASSUME NEW x, NEW y
  PROVE  /\ Len(K1(x, y)) = 1 /\ Len(K2(x, y)) = 2 /\ Len(K3(x, y)) = 3
         /\ K1(x, y)[1] = DH(Eph(x), Eph(y))
         /\ K2(x, y)[1] = DH(Eph(x), Eph(y))
         /\ K3(x, y)[1] = DH(Eph(x), Eph(y))
<1> DEFINE a == DH(Eph(x), Eph(y))
           b == DH(Eph(x), Stat(Owner[y]))
           c == DH(Stat(Owner[x]), Eph(y))
           S == {a, b, c}
<1> HIDE DEF a, b, c
<1>1. a \in S /\ b \in S /\ c \in S
  OBVIOUS
<1> HIDE DEF S
<1>2. ASSUME NEW s \in Seq(S), NEW e \in S, Len(s) >= 1
      PROVE  Append(s, e) \in Seq(S) /\ Len(Append(s, e)) = Len(s) + 1 /\ Append(s, e)[1] = s[1]
  BY <1>2
<1>3. K1(x, y) \in Seq(S) /\ Len(K1(x, y)) = 1 /\ K1(x, y)[1] = a
  <2>1. K1(x, y) = Append(<< >>, a)
    BY DEF K1, a
  <2>2. << >> \in Seq(S) /\ Len(<< >>) = 0
    OBVIOUS
  <2>3. QED
    BY <1>1, <2>1, <2>2, Appended
<1>4. K2(x, y) \in Seq(S) /\ Len(K2(x, y)) = 2 /\ K2(x, y)[1] = a
  <2>1. K2(x, y) = Append(K1(x, y), b)
    BY DEF K2, b
  <2>2. K1(x, y) \in Seq(S) /\ Len(K1(x, y)) >= 1
    BY <1>3
  <2>3. /\ Append(K1(x, y), b) \in Seq(S)
        /\ Len(Append(K1(x, y), b)) = Len(K1(x, y)) + 1
        /\ Append(K1(x, y), b)[1] = K1(x, y)[1]
    BY <1>1, <1>2, <2>2
  <2>4. QED
    BY <1>3, <2>1, <2>3
<1>5. K3(x, y) \in Seq(S) /\ Len(K3(x, y)) = 3 /\ K3(x, y)[1] = a
  <2>1. K3(x, y) = Append(K2(x, y), c)
    BY DEF K3, c
  <2>2. K2(x, y) \in Seq(S) /\ Len(K2(x, y)) >= 1
    BY <1>4
  <2>3. /\ Append(K2(x, y), c) \in Seq(S)
        /\ Len(Append(K2(x, y), c)) = Len(K2(x, y)) + 1
        /\ Append(K2(x, y), c)[1] = K2(x, y)[1]
    BY <1>1, <1>2, <2>2
  <2>4. QED
    BY <1>4, <2>1, <2>3
<1>6. QED
  BY <1>3, <1>4, <1>5 DEF a

\* Keys of different length differ.
LEMMA KeyLengths ==
  ASSUME NEW x, NEW y, NEW x1, NEW y1
  PROVE  K1(x, y) # K2(x1, y1) /\ K1(x, y) # K3(x1, y1) /\ K2(x, y) # K3(x1, y1)
<1>1. /\ Len(K1(x, y)) = 1 /\ Len(K2(x, y)) = 2
      /\ Len(K2(x1, y1)) = 2 /\ Len(K3(x1, y1)) = 3
  BY KeysLaidOut
<1>2. QED
  BY <1>1

\* Ephemeral keys of different ends differ, and are no static keys.
LEMMA KeysApart ==
  /\ \A x, y : Eph(x) = Eph(y) => x = y
  /\ \A x, o : Eph(x) # Stat(o)
<1>1. ASSUME NEW x, NEW y, Eph(x) = Eph(y) PROVE x = y
  <2>1. Eph(x).eph = x /\ Eph(y).eph = y
    BY DEF Eph
  <2>2. QED
    BY <1>1, <2>1
<1>2. ASSUME NEW x, NEW o, Eph(x) = Stat(o) PROVE FALSE
  <2>1. DOMAIN Eph(x) = {"eph"} /\ DOMAIN Stat(o) = {"stat"}
    BY DEF Eph, Stat
  <2>2. "eph" # "stat"
    OBVIOUS
  <2>3. QED
    BY <1>2, <2>1, <2>2
<1>3. QED
  BY <1>1, <1>2

\* The first secret of a key names the two ends.
LEMMA KeyNames ==
  ASSUME NoiseAssumption, NEW x \in Callers, NEW y \in Responders,
         NEW x1 \in Callers, NEW y1 \in Responders,
         \/ K1(x, y) = K1(x1, y1) \/ K2(x, y) = K2(x1, y1) \/ K3(x, y) = K3(x1, y1)
  PROVE  x = x1 /\ y = y1
<1>1. \A u, v : /\ K1(u, v)[1] = DH(Eph(u), Eph(v))
                /\ K2(u, v)[1] = DH(Eph(u), Eph(v))
                /\ K3(u, v)[1] = DH(Eph(u), Eph(v))
  BY KeysLaidOut
<1>2. DH(Eph(x), Eph(y)) = DH(Eph(x1), Eph(y1))
  BY <1>1
<1>3. Eph(x) \in {Eph(x1), Eph(y1)} /\ Eph(y) \in {Eph(x1), Eph(y1)}
  BY <1>2 DEF DH
<1>4. x \in {x1, y1} /\ y \in {x1, y1}
  BY <1>3, KeysApart
<1>5. x # y1 /\ y # x1
  BY DEF NoiseAssumption, Callers, Ends
<1>6. QED
  BY <1>4, <1>5
-----------------------------------------------------------------------------
(* What may arrive, and what a step leaves as it was *)

\* Each part of an arriving message is what somebody wrote, or damaged.
LEMMA ArrivingParts ==
  ASSUME NoiseInv, NEW m \in Arriving
  PROVE  /\ m.number = 1 => m.e \in Callers
         /\ m.number = 2 =>
              \E y \in Responders :
                /\ hand[y].index >= 2 /\ m.e \in {y, Damaged}
                /\ m.s \in {S2(hand[y].re, y), Damaged}
                /\ m.p \in {P2(hand[y].re, y), Damaged}
         /\ m.number = 3 =>
              \E x \in Initiators :
                /\ hand[x].index = 3
                /\ m.s \in {S3(x, hand[x].re), Damaged}
                /\ m.p \in {P3(x, hand[x].re), Damaged}
<1>1. PICK w \in written :
        m = w \/ \E part \in DOMAIN w \ {"number"} : m = [w EXCEPT ![part] = Damaged]
  BY DEF Arriving
<1>2. IsMessage1(w) \/ IsMessage2(w) \/ IsMessage3(w)
  BY DEF NoiseInv
<1>3. CASE IsMessage1(w)
  <2>1. PICK x \in Initiators : w = [number |-> 1, e |-> x]
    BY <1>3 DEF IsMessage1
  <2>2. m.number = 1 /\ m.e \in {x, Damaged}
    BY <1>1, <2>1
  <2>3. QED
    BY <2>2 DEF Callers
<1>4. CASE IsMessage2(w)
  <2>1. PICK y \in Responders :
          /\ hand[y].index >= 2
          /\ w = [number |-> 2, e |-> y, s |-> S2(hand[y].re, y), p |-> P2(hand[y].re, y)]
    BY <1>4 DEF IsMessage2
  <2>2. /\ m.number = 2 /\ m.e \in {y, Damaged}
        /\ m.s \in {S2(hand[y].re, y), Damaged}
        /\ m.p \in {P2(hand[y].re, y), Damaged}
    BY <1>1, <2>1
  <2>3. QED
    BY <2>1, <2>2
<1>5. CASE IsMessage3(w)
  <2>1. PICK x \in Initiators :
          /\ hand[x].index = 3
          /\ w = [number |-> 3, s |-> S3(x, hand[x].re), p |-> P3(x, hand[x].re)]
    BY <1>5 DEF IsMessage3
  <2>2. /\ m.number = 3
        /\ m.s \in {S3(x, hand[x].re), Damaged}
        /\ m.p \in {P3(x, hand[x].re), Damaged}
    BY <1>1, <2>1
  <2>3. QED
    BY <2>1, <2>2
<1>6. QED
  BY <1>2, <1>3, <1>4, <1>5

\* A step of one end: an answer stays given, a complete initiator does not move.
StepOf(z) ==
  /\ hand' = [hand EXCEPT ![z] = hand'[z]]
  /\ failures' = [failures EXCEPT ![z] = failures'[z]]
  /\ z \in Initiators => hand[z].index # 3
  /\ z \in Responders /\ hand[z].index >= 2 =>
       hand'[z].index >= 2 /\ hand'[z].re = hand[z].re

\* The other ends and what was said before stay as they are.
LEMMA OthersStay ==
  ASSUME NoiseAssumption, NoiseInv, NEW z \in Ends, StepOf(z)
  PROVE  /\ hand' = [x \in Ends |-> hand'[x]]
         /\ failures' = [x \in Ends |-> failures'[x]]
         /\ \A x \in Initiators \ {z} : InitiatorOK(x)'
         /\ \A y \in Responders \ {z} : ResponderOK(y)'
         /\ \A y, x : Answered(y, x) => Answered(y, x)'
         /\ \A a : IsSealed(a) => IsSealed(a)'
         /\ \A m : /\ IsMessage1(m) => IsMessage1(m)'
                   /\ IsMessage2(m) => IsMessage2(m)'
                   /\ IsMessage3(m) => IsMessage3(m)'
<1>1. /\ hand' = [x \in Ends |-> hand'[x]]
      /\ failures' = [x \in Ends |-> failures'[x]]
      /\ \A x \in Ends \ {z} : hand'[x] = hand[x] /\ failures'[x] = failures[x]
  BY DEF NoiseInv, StepOf
<1>2. Initiators \subseteq Ends /\ Responders \subseteq Ends
  BY DEF Ends
<1>3. \A y \in Responders : hand[y].index >= 2 => hand'[y].index >= 2 /\ hand'[y].re = hand[y].re
  BY <1>1, <1>2 DEF StepOf
<1>4. \A x \in Initiators : hand[x].index = 3 => hand'[x] = hand[x]
  BY <1>1, <1>2 DEF StepOf
<1>5. \A y, x : Answered(y, x) => Answered(y, x)'
  BY <1>3 DEF Answered
<1>6. ASSUME NEW x \in Initiators \ {z} PROVE InitiatorOK(x)'
  <2>1. hand'[x] = hand[x] /\ failures'[x] = failures[x]
    BY <1>1, <1>2
  <2>2. InitiatorOK(x)
    BY DEF NoiseInv
  <2>3. QED
    BY <2>1, <2>2, <1>3 DEF InitiatorOK, Answered
<1>7. ASSUME NEW y \in Responders \ {z} PROVE ResponderOK(y)'
  <2>1. hand'[y] = hand[y]
    BY <1>1, <1>2
  <2>2. ResponderOK(y)
    BY DEF NoiseInv
  <2>3. QED
    BY <2>1, <2>2, <1>4 DEF ResponderOK
<1>8. \A a : IsSealed(a) => IsSealed(a)'
  BY <1>3, <1>4 DEF IsSealed
<1>9. ASSUME NEW m
      PROVE  /\ IsMessage1(m) => IsMessage1(m)'
             /\ IsMessage2(m) => IsMessage2(m)'
             /\ IsMessage3(m) => IsMessage3(m)'
  BY <1>3, <1>4 DEF IsMessage1, IsMessage2, IsMessage3
<1>10. QED
  BY <1>1, <1>5, <1>6, <1>7, <1>8, <1>9

\* What a step of z has to show.
LEMMA StepKeeps ==
  ASSUME NoiseAssumption, NoiseInv, NEW z \in Ends, StepOf(z),
         z \in Initiators => InitiatorOK(z)',
         z \in Responders => ResponderOK(z)',
         sealed \subseteq sealed',
         \A a \in sealed' \ sealed : IsSealed(a)',
         z \in Responders /\ hand'[z].index >= 2 => <<z, P2(hand'[z].re, z)>> \in sealed',
         z \in Initiators /\ hand'[z].index = 3 => <<z, P3(z, hand'[z].re)>> \in sealed',
         \A m \in written' \ written : IsMessage1(m)' \/ IsMessage2(m)' \/ IsMessage3(m)'
  PROVE  NoiseInv'
<1>1. /\ hand' = [x \in Ends |-> hand'[x]]
      /\ failures' = [x \in Ends |-> failures'[x]]
      /\ \A x \in Ends \ {z} : hand'[x] = hand[x]
  <2>1. \A x \in Ends \ {z} : hand'[x] = hand[x]
    BY DEF NoiseInv, StepOf
  <2>2. QED
    BY <2>1, OthersStay
<1>2. Initiators \subseteq Ends /\ Responders \subseteq Ends
  BY DEF Ends
<1>3. (\A x \in Initiators : InitiatorOK(x))' /\ (\A y \in Responders : ResponderOK(y))'
  BY OthersStay
<1>4. (\A a \in sealed : IsSealed(a))'
  <2>1. \A a \in sealed : IsSealed(a)
    BY DEF NoiseInv
  <2>2. \A a : IsSealed(a) => IsSealed(a)'
    BY OthersStay
  <2>3. QED
    BY <2>1, <2>2
<1>5. ProofsSealed'
  <2>1. ASSUME NEW y \in Responders, hand'[y].index >= 2
        PROVE  <<y, P2(hand'[y].re, y)>> \in sealed'
    <3>1. CASE y = z
      BY <2>1, <3>1
    <3>2. CASE y # z
      BY <1>1, <1>2, <2>1, <3>2 DEF NoiseInv, ProofsSealed
    <3>3. QED
      BY <3>1, <3>2
  <2>2. ASSUME NEW x \in Initiators, hand'[x].index = 3
        PROVE  <<x, P3(x, hand'[x].re)>> \in sealed'
    <3>1. CASE x = z
      BY <2>2, <3>1
    <3>2. CASE x # z
      BY <1>1, <1>2, <2>2, <3>2 DEF NoiseInv, ProofsSealed
    <3>3. QED
      BY <3>1, <3>2
  <2>3. QED
    BY <2>1, <2>2 DEF ProofsSealed
<1>6. (\A m \in written : IsMessage1(m) \/ IsMessage2(m) \/ IsMessage3(m))'
  <2>1. \A m \in written : IsMessage1(m) \/ IsMessage2(m) \/ IsMessage3(m)
    BY DEF NoiseInv
  <2>2. \A m : /\ IsMessage1(m) => IsMessage1(m)'
               /\ IsMessage2(m) => IsMessage2(m)'
               /\ IsMessage3(m) => IsMessage3(m)'
    BY OthersStay
  <2>3. QED
    BY <2>1, <2>2
<1>7. QED
  BY <1>1, <1>3, <1>4, <1>5, <1>6 DEF NoiseInv

-----------------------------------------------------------------------------
(* The steps *)

\* Message 1: an initiator draws its ephemeral key.
LEMMA WriteMessage1Step ==
  ASSUME NoiseAssumption, NoiseInv, NEW x \in Ends, WriteMessage1(x)
  PROVE  NoiseInv'
<1> DEFINE t == hand[x]
           t1 == [t EXCEPT !.e = TRUE, !.index = 1]
<1>1. /\ x \in Initiators /\ t.index = 0 /\ x \notin Responders
      /\ hand' = [hand EXCEPT ![x] = MixHash(t1, Eph(x))]
      /\ written' = written \cup {[number |-> 1, e |-> x]}
      /\ sealed' = sealed /\ failures' = failures
  BY DEF WriteMessage1, NoiseAssumption
<1>2. /\ Shape(t) /\ t.ck = << >> /\ t.h = << >> /\ failures[x] = 0 /\ t.split = FALSE
  <2>1. InitiatorOK(x)
    BY <1>1 DEF NoiseInv
  <2>2. QED
    BY <1>1, <2>1 DEF InitiatorOK
<1>3. Shape(t1) /\ t1.index = 1 /\ t1.h = << >> /\ t1.ck = << >> /\ t1.split = FALSE
  BY <1>2 DEF Shape, Fields
<1> HIDE DEF t1
<1>4. hand'[x] = MixHash(t1, Eph(x))
  BY <1>1 DEF NoiseInv
<1>5. /\ Shape(hand'[x]) /\ hand'[x].index = 1 /\ hand'[x].split = FALSE
      /\ hand'[x].ck = << >> /\ hand'[x].h = T1(x)
  BY <1>3, <1>4, MixHashDone DEF SameHead, T1
<1>6. StepOf(x)
  BY <1>1, <1>4 DEF StepOf, NoiseInv
<1>7. InitiatorOK(x)'
  <2>1. failures'[x] = 0
    BY <1>1, <1>2
  <2>2. QED
    BY <1>5, <2>1 DEF InitiatorOK
<1>8. \A m \in written' \ written : IsMessage1(m)' \/ IsMessage2(m)' \/ IsMessage3(m)'
  BY <1>1 DEF IsMessage1
<1>9. sealed \subseteq sealed' /\ sealed' \ sealed = {} /\ hand'[x].index # 3
  BY <1>1, <1>5
<1>10. QED
  BY <1>1, <1>6, <1>7, <1>8, <1>9, StepKeeps

\* A responder takes the ephemeral key of message 1.
LEMMA ReadMessage1Step ==
  ASSUME NoiseAssumption, NoiseInv, NEW x \in Ends, NEW m \in Arriving, ReadMessage1(x, m)
  PROVE  NoiseInv'
<1> DEFINE t == hand[x]
           t1 == [t EXCEPT !.re = m.e, !.index = 1]
<1>1. /\ x \in Responders /\ t.index = 0 /\ x \notin Initiators /\ m.number = 1
      /\ hand' = [hand EXCEPT ![x] = MixHash(t1, Eph(m.e))]
      /\ written' = written /\ sealed' = sealed /\ failures' = failures
  BY DEF ReadMessage1, NoiseAssumption
<1>2. /\ Shape(t) /\ t.ck = << >> /\ t.h = << >> /\ t.split = FALSE
  <2>1. ResponderOK(x)
    BY <1>1 DEF NoiseInv
  <2>2. QED
    BY <1>1, <2>1 DEF ResponderOK
<1>3. m.e \in Callers
  BY <1>1, ArrivingParts
<1>4. /\ Shape(t1) /\ t1.index = 1 /\ t1.h = << >> /\ t1.ck = << >> /\ t1.split = FALSE
      /\ t1.re = m.e
  BY <1>2 DEF Shape, Fields
<1> HIDE DEF t1
<1>5. hand'[x] = MixHash(t1, Eph(m.e))
  BY <1>1 DEF NoiseInv
<1>6. /\ Shape(hand'[x]) /\ hand'[x].index = 1 /\ hand'[x].split = FALSE
      /\ hand'[x].ck = << >> /\ hand'[x].h = T1(m.e) /\ hand'[x].re = m.e
  BY <1>4, <1>5, MixHashDone DEF SameHead, T1
<1>7. StepOf(x)
  BY <1>1, <1>5 DEF StepOf, NoiseInv
<1>8. ResponderOK(x)'
  BY <1>3, <1>6 DEF ResponderOK
<1>9. /\ sealed \subseteq sealed' /\ sealed' \ sealed = {}
      /\ written' \ written = {} /\ ~(hand'[x].index >= 2)
  BY <1>1, <1>6
<1>10. QED
  BY <1>1, <1>7, <1>8, <1>9, StepKeeps

\* Message 2: a responder answers, and has the keys of T2 to P2.
LEMMA WriteMessage2Step ==
  ASSUME NoiseAssumption, NoiseInv, NEW y \in Ends, WriteMessage2(y)
  PROVE  NoiseInv'
<1> DEFINE t == hand[y]
           x == t.re
           t0 == [t EXCEPT !.e = TRUE]
           t1 == MixKey(MixHash(t0, Eph(y)), DH(Eph(y), Eph(x)))
           w == Sealing(y, t1, DH(Stat(Owner[y]), Eph(x)))
           v == [w.hand EXCEPT !.index = 2]
<1>1. /\ y \in Responders /\ t.index = 1 /\ y \notin Initiators
      /\ hand' = [hand EXCEPT ![y] = v]
      /\ written' = written \cup {[number |-> 2, e |-> y, s |-> w.s, p |-> w.p]}
      /\ sealed' = sealed \cup {<<y, w.s>>, <<y, w.p>>}
      /\ failures' = failures
  BY DEF WriteMessage2, NoiseAssumption
<1>2. Shape(t) /\ t.ck = << >> /\ t.h = T1(x) /\ t.split = FALSE /\ x \in Callers
  <2>1. ResponderOK(y)
    BY <1>1 DEF NoiseInv
  <2>2. QED
    BY <1>1, <2>1 DEF ResponderOK
<1>3. /\ Shape(t0) /\ t0.h = T1(x) /\ t0.ck = << >> /\ t0.split = FALSE /\ t0.re = x
  BY <1>2 DEF Shape, Fields
<1>4. /\ Shape(t1) /\ t1.h = T2(x, y) /\ t1.ck = K1(x, y) /\ t1.k = K1(x, y)
      /\ t1.n = 0 /\ t1.re = x /\ t1.split = FALSE
  <2> HIDE DEF t0
  <2>1. DH(Eph(y), Eph(x)) = DH(Eph(x), Eph(y))
    BY DEF DH
  <2> DEFINE u == MixHash(t0, Eph(y))
  <2>2. /\ Shape(u) /\ u.h = T2(x, y) /\ u.ck = << >> /\ u.re = x /\ u.split = FALSE
    BY <1>3, MixHashDone DEF SameHead, T2
  <2> HIDE DEF u
  <2>3. /\ Shape(MixKey(u, DH(Eph(x), Eph(y)))) /\ SameHead(MixKey(u, DH(Eph(x), Eph(y))), u)
        /\ MixKey(u, DH(Eph(x), Eph(y))).h = T2(x, y)
        /\ MixKey(u, DH(Eph(x), Eph(y))).ck = K1(x, y)
        /\ MixKey(u, DH(Eph(x), Eph(y))).k = K1(x, y)
        /\ MixKey(u, DH(Eph(x), Eph(y))).n = 0
    BY <2>2, MixKeyDone DEF K1
  <2>4. t1 = MixKey(u, DH(Eph(x), Eph(y)))
    BY <2>1 DEF u
  <2> HIDE DEF t1
  <2>5. QED
    BY <2>2, <2>3, <2>4 DEF SameHead
<1>5. /\ w.s = S2(x, y) /\ w.p = P2(x, y)
      /\ Shape(w.hand) /\ At(w.hand, K2(x, y), T4(x, y), 1)
      /\ w.hand.re = x /\ w.hand.split = FALSE
  <2> HIDE DEF t1
  <2>1. DH(Stat(Owner[y]), Eph(x)) = DH(Eph(x), Stat(Owner[y]))
    BY DEF DH
  <2> DEFINE d == DH(Eph(x), Stat(Owner[y]))
  <2>2. w = Sealing(y, t1, d)
    BY <2>1
  <2>3. StaticOf(Owner[y], t1) = S2(x, y)
    BY <1>4 DEF StaticOf, S2
  <2>4. Append(t1.ck, d) = K2(x, y) /\ Append(t1.h, StaticOf(Owner[y], t1)) = T3(x, y)
    BY <1>4, <2>3 DEF K2, T3
  <2>5. ProofOf(Owner[y], t1, d) = P2(x, y)
    BY <2>3, <2>4 DEF ProofOf, P2
  <2>6. /\ w.s = StaticOf(Owner[y], t1) /\ w.p = ProofOf(Owner[y], t1, d)
        /\ Shape(w.hand) /\ SameHead(w.hand, t1)
        /\ At(w.hand, Append(t1.ck, d),
              Append(Append(t1.h, StaticOf(Owner[y], t1)), ProofOf(Owner[y], t1, d)), 1)
    <3> HIDE DEF d
    <3>1. QED
      BY <1>4, <2>2, SealingDone
  <2> HIDE DEF w, d
  <2>7. QED
    BY <1>4, <2>3, <2>4, <2>5, <2>6 DEF SameHead, T4
<1> HIDE DEF t0, t1, w
<1>6. /\ Shape(v) /\ v.index = 2 /\ v.split = FALSE /\ v.re = x
      /\ At(v, K2(x, y), T4(x, y), 1)
  BY <1>5 DEF Shape, Fields, At
<1> HIDE DEF v
<1>7. hand'[y] = v
  BY <1>1 DEF NoiseInv
<1>8. StepOf(y)
  BY <1>1, <1>6, <1>7 DEF StepOf, NoiseInv
<1>9. ResponderOK(y)'
  <2>1. /\ Shape(hand'[y]) /\ hand'[y].index = 2 /\ hand'[y].split = FALSE
        /\ hand'[y].re \in Callers
        /\ At(hand'[y], K2(hand'[y].re, y), T4(hand'[y].re, y), 1)
    BY <1>2, <1>6, <1>7
  <2>2. QED
    BY <2>1 DEF ResponderOK
<1>10. \A a \in sealed' \ sealed : IsSealed(a)'
  BY <1>1, <1>5, <1>6, <1>7 DEF IsSealed
<1>11. \A m \in written' \ written : IsMessage2(m)'
  BY <1>1, <1>5, <1>6, <1>7 DEF IsMessage2
<1>12. sealed \subseteq sealed' /\ <<y, P2(hand'[y].re, y)>> \in sealed'
  BY <1>1, <1>5, <1>6, <1>7
<1>13. QED
  BY <1>1, <1>8, <1>9, <1>10, <1>11, <1>12, StepKeeps

\* Message 3: the initiator has the keys of T5 to P3, and is done.
LEMMA WriteMessage3Step ==
  ASSUME NoiseAssumption, NoiseInv, NEW x \in Ends, WriteMessage3(x)
  PROVE  NoiseInv'
<1> DEFINE t == hand[x]
           y == t.re
           w == Sealing(x, t, DH(Stat(Owner[x]), Eph(y)))
           v == [w.hand EXCEPT !.index = 3, !.split = TRUE]
<1>1. /\ x \in Initiators /\ t.index = 2 /\ x \notin Responders
      /\ hand' = [hand EXCEPT ![x] = v]
      /\ written' = written \cup {[number |-> 3, s |-> w.s, p |-> w.p]}
      /\ sealed' = sealed \cup {<<x, w.s>>, <<x, w.p>>}
      /\ failures' = failures
  BY DEF WriteMessage3, NoiseAssumption
<1>2. /\ Shape(t) /\ At(t, K2(x, y), T4(x, y), 1) /\ failures[x] = 0
      /\ Answered(y, x) /\ t.rs = Owner[y]
  <2>1. InitiatorOK(x)
    BY <1>1 DEF NoiseInv
  <2>2. QED
    BY <1>1, <2>1 DEF InitiatorOK
<1>3. /\ w.s = S3(x, y) /\ w.p = P3(x, y)
      /\ Shape(w.hand) /\ At(w.hand, K3(x, y), T6(x, y), 1)
      /\ w.hand.re = y /\ w.hand.rs = Owner[y]
  <2> DEFINE d == DH(Stat(Owner[x]), Eph(y))
  <2>1. StaticOf(Owner[x], t) = S3(x, y)
    BY <1>2 DEF StaticOf, S3, At
  <2>2. Append(t.ck, d) = K3(x, y) /\ Append(t.h, StaticOf(Owner[x], t)) = T5(x, y)
    BY <1>2, <2>1 DEF K3, T5, At
  <2>3. ProofOf(Owner[x], t, d) = P3(x, y)
    BY <2>1, <2>2 DEF ProofOf, P3
  <2>4. /\ w.s = StaticOf(Owner[x], t) /\ w.p = ProofOf(Owner[x], t, d)
        /\ Shape(w.hand) /\ SameHead(w.hand, t)
        /\ At(w.hand, Append(t.ck, d),
              Append(Append(t.h, StaticOf(Owner[x], t)), ProofOf(Owner[x], t, d)), 1)
    <3> HIDE DEF d
    <3>1. w = Sealing(x, t, d)
      BY DEF d
    <3>2. QED
      BY <1>2, <3>1, SealingDone
  <2> HIDE DEF w, d
  <2>5. QED
    BY <1>2, <2>1, <2>2, <2>3, <2>4 DEF SameHead, T6
<1> HIDE DEF w
<1>4. /\ Shape(v) /\ v.index = 3 /\ v.split = TRUE /\ v.re = y /\ v.rs = Owner[y]
      /\ At(v, K3(x, y), T6(x, y), 1)
  BY <1>3 DEF Shape, Fields, At
<1> HIDE DEF v
<1>5. hand'[x] = v
  BY <1>1 DEF NoiseInv
<1>6. StepOf(x)
  BY <1>1, <1>5 DEF StepOf, NoiseInv
<1>7. InitiatorOK(x)'
  <2>1. hand'[y].index >= 2 /\ hand'[y].re = x /\ y \in Responders
    <3>1. Answered(y, x)
      BY <1>2
    <3>2. hand'[y] = hand[y]
      BY <1>1, <3>1 DEF Answered, NoiseInv, Ends
    <3>3. QED
      BY <3>1, <3>2 DEF Answered
  <2>2. failures'[x] = 0
    BY <1>1, <1>2
  <2>3. /\ Shape(hand'[x]) /\ hand'[x].index = 3 /\ hand'[x].split = TRUE
        /\ hand'[x].re = y /\ hand'[x].rs = Owner[hand'[x].re]
        /\ At(hand'[x], K3(x, hand'[x].re), T6(x, hand'[x].re), 1)
    BY <1>4, <1>5
  <2>4. Answered(hand[x].re, x)'
    BY <2>1, <2>3 DEF Answered
  <2>5. QED
    BY <2>2, <2>3, <2>4 DEF InitiatorOK
<1>8. \A a \in sealed' \ sealed : IsSealed(a)'
  BY <1>1, <1>3, <1>4, <1>5 DEF IsSealed
<1>9. \A m \in written' \ written : IsMessage3(m)'
  BY <1>1, <1>3, <1>4, <1>5 DEF IsMessage3
<1>10. sealed \subseteq sealed' /\ <<x, P3(x, hand'[x].re)>> \in sealed'
  BY <1>1, <1>3, <1>4, <1>5
<1>11. QED
  BY <1>1, <1>6, <1>7, <1>8, <1>9, <1>10, StepKeeps

\* Message 3, at the responder.  Its key is that of one initiator, or the one
\* after it; only the first opens the static key.
LEMMA ReadMessage3Step ==
  ASSUME NoiseAssumption, NoiseInv, NEW y \in Ends, NEW m \in Arriving, ReadMessage3(y, m)
  PROVE  NoiseInv'
<1> DEFINE t == hand[y]
           x == t.re
           r == Opening(y, t, m)
           v == IF r.ok THEN [r.hand EXCEPT !.index = 3, !.split = TRUE] ELSE r.hand
<1>1. /\ y \in Responders /\ t.index = 2 /\ y \notin Initiators /\ m.number = 3
      /\ hand' = [hand EXCEPT ![y] = v]
      /\ failures' = IF r.ok THEN failures ELSE [failures EXCEPT ![y] = @ + 1]
      /\ written' = written /\ sealed' = sealed
  BY DEF ReadMessage3, Counts, NoiseAssumption
<1>2. /\ Shape(t) /\ x \in Callers /\ t.split = FALSE
      /\ At(t, K2(x, y), T4(x, y), 1) \/ t.k = K3(x, y)
  <2>1. ResponderOK(y)
    BY <1>1 DEF NoiseInv
  <2>2. QED
    BY <1>1, <2>1 DEF ResponderOK
<1>3. PICK x0 \in Initiators :
        /\ hand[x0].index = 3
        /\ m.s \in {S3(x0, hand[x0].re), Damaged}
        /\ m.p \in {P3(x0, hand[x0].re), Damaged}
  BY <1>1, ArrivingParts
<1>4. /\ Shape(v) /\ v.re = x
      /\ \/ /\ v.index = 2 /\ v.split = FALSE
            /\ At(v, K2(x, y), T4(x, y), 1) \/ v.k = K3(x, y)
         \/ /\ v.index = 3 /\ v.split = TRUE
            /\ x \in Initiators /\ v.rs = Owner[x]
            /\ hand[x].index = 3 /\ hand[x].re = y
            /\ At(v, K3(x, y), T6(x, y), 1)
  <2>1. CASE ~Opens(t, m.s)
    <3>1. v = t
      <4>1. r.hand = t /\ r.ok = FALSE
        BY <2>1, ShutOut
      <4>2. QED
        BY <4>1
    <3> HIDE DEF v
    <3>2. QED
      BY <1>1, <1>2, <3>1
  <2>2. CASE Opens(t, m.s)
    <3>1. PICK y0 : y0 = hand[x0].re
      OBVIOUS
    <3>2. y0 \in Responders
      <4>1. InitiatorOK(x0)
        BY DEF NoiseInv
      <4>2. QED
        BY <1>3, <3>1, <4>1 DEF InitiatorOK, Answered
    <3>3. m.s = S3(x0, y0) /\ m.s = Seal(t, m.s.text)
      BY <1>3, <2>2, <3>1 DEF Opens
    <3>4. t.k = K2(x0, y0) /\ m.s.text = Stat(Owner[x0])
      BY <3>3 DEF S3, Seal
    <3>5. At(t, K2(x, y), T4(x, y), 1)
      BY <1>2, <3>4, KeyLengths
    <3>6. x = x0 /\ y = y0
      <4>1. K2(x, y) = K2(x0, y0)
        BY <3>4, <3>5 DEF At
      <4>2. x0 \in Callers
        BY DEF Callers
      <4>3. QED
        BY <1>1, <1>2, <3>2, <4>1, <4>2, KeyNames
    <3>7. Append(t.ck, DH(Eph(y), Stat(Owner[x]))) = K3(x, y)
      <4>1. DH(Eph(y), Stat(Owner[x])) = DH(Stat(Owner[x]), Eph(y))
        BY DEF DH
      <4>2. QED
        BY <3>5, <4>1 DEF K3, At
    <3>8. m.s.text = Stat(Owner[x])
      BY <3>4, <3>6
    <3>9. /\ Shape(r.hand)
          /\ r.hand.re = x /\ r.hand.rs = Owner[x]
          /\ r.hand.index = 2 /\ r.hand.split = FALSE
          /\ r.hand.ck = K3(x, y) /\ r.hand.k = K3(x, y)
          /\ \/ r.ok = FALSE
             \/ /\ r.ok = TRUE /\ m.p # Damaged
                /\ r.hand.h = Append(Append(t.h, m.s), m.p) /\ r.hand.n = 1
      <4>1. PICK o : o = Owner[x]
        OBVIOUS
      <4>2. Opens(t, m.s) /\ m.s.text = Stat(o)
        BY <2>2, <3>8, <4>1
      <4>3. AfterOpening(r, t, m, o, Append(t.ck, DH(Eph(y), Stat(o))))
        BY <1>2, <4>2, OpeningDone
      <4> HIDE DEF r
      <4>4. QED
        BY <1>1, <1>2, <3>7, <4>1, <4>3 DEF AfterOpening
    <3> HIDE DEF r
    <3>10. CASE r.ok = TRUE
      <4>1. m.p = P3(x, y) /\ m.s = S3(x, y)
        BY <1>3, <3>1, <3>3, <3>6, <3>9, <3>10
      <4>2. r.hand.h = T6(x, y)
        BY <3>5, <3>9, <3>10, <4>1 DEF At, T5, T6
      <4>3. v = [r.hand EXCEPT !.index = 3, !.split = TRUE]
        BY <3>10
      <4> HIDE DEF v
      <4>4. /\ Shape(v) /\ v.re = x /\ v.index = 3 /\ v.split = TRUE /\ v.rs = Owner[x]
            /\ At(v, K3(x, y), T6(x, y), 1)
        BY <3>9, <3>10, <4>2, <4>3 DEF Shape, Fields, At
      <4>5. x \in Initiators /\ hand[x].index = 3 /\ hand[x].re = y
        BY <1>3, <3>1, <3>6
      <4>6. QED
        BY <4>4, <4>5
    <3>11. CASE r.ok = FALSE
      <4>1. v = r.hand
        BY <3>11
      <4> HIDE DEF v
      <4>2. QED
        BY <3>9, <4>1
    <3>12. QED
      BY <3>9, <3>10, <3>11
  <2>3. QED
    BY <2>1, <2>2
<1> HIDE DEF v
<1>5. hand'[y] = v
  BY <1>1 DEF NoiseInv
<1>6. StepOf(y)
  <2>1. failures' = [failures EXCEPT ![y] = failures'[y]]
    <3> HIDE DEF r
    <3>1. QED
      BY <1>1 DEF NoiseInv
  <2>2. v.index >= 2
    BY <1>4
  <2>3. QED
    BY <1>1, <1>4, <1>5, <2>1, <2>2 DEF StepOf
<1>7. ResponderOK(y)'
  <2>1. x \in Initiators => hand'[x] = hand[x]
    BY <1>1 DEF NoiseInv, Ends
  <2> DEFINE q == hand'[y]
  <2>2. /\ Shape(q) /\ q.re \in Callers
        /\ \/ /\ q.index = 2 /\ q.split = FALSE
              /\ At(q, K2(q.re, y), T4(q.re, y), 1) \/ q.k = K3(q.re, y)
           \/ /\ q.index = 3 /\ q.split = TRUE
              /\ q.re \in Initiators /\ q.rs = Owner[q.re]
              /\ hand'[q.re].index = 3 /\ hand'[q.re].re = y
              /\ At(q, K3(q.re, y), T6(q.re, y), 1)
    BY <1>2, <1>4, <1>5, <2>1
  <2>3. QED
    BY <2>2 DEF ResponderOK
<1>8. <<y, P2(hand'[y].re, y)>> \in sealed'
  BY <1>1, <1>4, <1>5 DEF NoiseInv, ProofsSealed
<1>9. /\ sealed \subseteq sealed' /\ sealed' \ sealed = {} /\ written' \ written = {}
  BY <1>1
<1>10. QED
  BY <1>1, <1>6, <1>7, <1>8, <1>9, StepKeeps

\* The secrets that go into the key of an initiator which failed.
LEMMA SecretsAre ==
  ASSUME NEW x \in Ends, NEW e \in Ends \cup {Damaged}, NEW y \in Ends
  PROVE  DH(Eph(x), Eph(e)) \in Secrets /\ DH(Eph(x), Stat(Owner[y])) \in Secrets
BY DEF DH, Secrets, Terms, Owners

\* Message 2, at the initiator.  The key it makes of its first such message is
\* the responder's if that one answered it; made of a later one it is longer.
LEMMA ReadMessage2Step ==
  ASSUME NoiseAssumption, NoiseInv, NEW x \in Ends, NEW m \in Arriving, ReadMessage2(x, m)
  PROVE  NoiseInv'
<1> DEFINE t == hand[x]
           e == m.e
           secret == DH(Eph(x), Eph(e))
           t0 == [t EXCEPT !.re = e]
           t1 == MixKey(MixHash(t0, Eph(e)), secret)
           r == Opening(x, t1, m)
           v == [r.hand EXCEPT !.index = IF r.ok THEN 2 ELSE 1]
<1>1. /\ x \in Initiators /\ t.index = 1 /\ x \notin Responders /\ m.number = 2
      /\ hand' = [hand EXCEPT ![x] = v]
      /\ failures' = IF r.ok THEN failures ELSE [failures EXCEPT ![x] = @ + 1]
      /\ written' = written /\ sealed' = sealed
  BY DEF ReadMessage2, Counts, NoiseAssumption
<1>2. /\ Shape(t) /\ t.split = FALSE /\ failures[x] \in Nat
      /\ IF failures[x] = 0 THEN t.ck = << >> /\ t.h = T1(x)
         ELSE t.ck \in Seq(Secrets) /\ Len(t.ck) >= 1
  <2>1. InitiatorOK(x)
    BY <1>1 DEF NoiseInv
  <2>2. QED
    BY <1>1, <2>1 DEF InitiatorOK
<1>3. PICK y \in Responders :
        /\ hand[y].index >= 2 /\ e \in {y, Damaged}
        /\ m.s \in {S2(hand[y].re, y), Damaged}
        /\ m.p \in {P2(hand[y].re, y), Damaged}
  BY <1>1, ArrivingParts
<1>4. y \in Ends /\ e \in Ends \cup {Damaged} /\ y # x
  BY <1>1, <1>3 DEF Ends
<1>5. secret \in Secrets /\ DH(Eph(x), Stat(Owner[y])) \in Secrets
  BY <1>4, SecretsAre
<1>6. /\ Shape(t1)
      /\ t1.h = Append(t.h, Eph(e)) /\ t1.n = 0
      /\ t1.ck = Append(t.ck, secret) /\ t1.k = Append(t.ck, secret)
      /\ t1.re = e /\ t1.index = 1 /\ t1.split = FALSE
  <2>1. /\ Shape(t0) /\ t0.h = t.h /\ t0.ck = t.ck /\ t0.re = e /\ t0.index = 1
        /\ t0.split = FALSE
    BY <1>1, <1>2 DEF Shape, Fields
  <2> DEFINE u == MixHash(t0, Eph(e))
  <2> HIDE DEF t0
  <2>2. /\ Shape(u) /\ SameHead(u, t0) /\ u.h = Append(t.h, Eph(e)) /\ u.ck = t.ck
    BY <2>1, MixHashDone
  <2> HIDE DEF u, secret
  <2>3. /\ Shape(MixKey(u, secret)) /\ SameHead(MixKey(u, secret), u)
        /\ MixKey(u, secret).h = u.h /\ MixKey(u, secret).n = 0
        /\ MixKey(u, secret).ck = Append(u.ck, secret)
        /\ MixKey(u, secret).k = Append(u.ck, secret)
    BY <2>2, MixKeyDone
  <2>4. t1 = MixKey(u, secret)
    BY DEF u
  <2> HIDE DEF t1
  <2>5. QED
    BY <2>1, <2>2, <2>3, <2>4 DEF SameHead
<1>7. /\ t1.ck \in Seq(Secrets) /\ Len(t1.ck) >= 1
      /\ failures[x] # 0 => Len(t1.ck) >= 2
  <2> HIDE DEF t1, secret
  <2>1. \A s \in Seq(Secrets), d \in Secrets :
          Append(s, d) \in Seq(Secrets) /\ Len(s) \in Nat /\ Len(Append(s, d)) = Len(s) + 1
    OBVIOUS
  <2>2. t.ck \in Seq(Secrets) /\ (failures[x] # 0 => Len(t.ck) >= 1)
    <3>1. << >> \in Seq(Secrets)
      OBVIOUS
    <3>2. QED
      BY <1>2, <3>1
  <2>3. /\ Append(t.ck, secret) \in Seq(Secrets) /\ Len(t.ck) \in Nat
        /\ Len(Append(t.ck, secret)) = Len(t.ck) + 1
    BY <1>5, <2>1, <2>2
  <2>4. QED
    BY <1>6, <2>2, <2>3
<1> HIDE DEF t0, t1, secret
\* What x is left with.
<1> DEFINE Failed(u) == /\ Shape(u) /\ u.index = 1 /\ u.split = FALSE
                        /\ u.ck \in Seq(Secrets) /\ Len(u.ck) >= 1
           Passed(u) == /\ Shape(u) /\ u.index = 2 /\ u.split = FALSE
                        /\ u.re = y /\ u.rs = Owner[y] /\ At(u, K2(x, y), T4(x, y), 1)
<1>8. \/ r.ok = FALSE /\ Failed(v)
      \/ r.ok = TRUE /\ Passed(v) /\ hand[y].re = x /\ failures[x] = 0
  <2>1. CASE ~Opens(t1, m.s)
    <3>1. r.hand = t1 /\ r.ok = FALSE
      BY <2>1, ShutOut
    <3> HIDE DEF r
    <3>2. v = [t1 EXCEPT !.index = 1]
      BY <3>1
    <3> HIDE DEF v
    <3>3. QED
      BY <1>6, <1>7, <3>1, <3>2 DEF Shape, Fields
  <2>2. CASE Opens(t1, m.s)
    <3>1. PICK z : z = hand[y].re
      OBVIOUS
    <3>2. z \in Callers
      <4>1. ResponderOK(y)
        BY DEF NoiseInv
      <4>2. QED
        BY <1>3, <3>1, <4>1 DEF ResponderOK
    <3>3. m.s = S2(z, y) /\ m.s = Seal(t1, m.s.text)
      BY <1>3, <2>2, <3>1 DEF Opens
    <3>4. t1.k = K1(z, y) /\ m.s.text = Stat(Owner[y]) /\ t1.ck = K1(z, y)
      BY <1>6, <3>3 DEF S2, Seal
    <3>5. failures[x] = 0
      <4>1. Len(t1.ck) = 1
        BY <3>4, KeysLaidOut
      <4>2. QED
        BY <1>7, <4>1
    <3>6. t.ck = << >> /\ t.h = T1(x)
      BY <1>2, <3>5
    <3>7. K1(x, e) = K1(z, y)
      BY <1>6, <3>4, <3>6 DEF K1, secret
    <3>8. e = y /\ z = x
      <4>1. DH(Eph(x), Eph(e)) = DH(Eph(z), Eph(y))
        <5>1. K1(x, e)[1] = DH(Eph(x), Eph(e)) /\ K1(z, y)[1] = DH(Eph(z), Eph(y))
          BY KeysLaidOut
        <5>2. QED
          BY <3>7, <5>1
      <4>2. Eph(y) \in {Eph(x), Eph(e)}
        BY <4>1 DEF DH
      <4>3. e = y
        BY <1>4, <4>2, KeysApart
      <4>4. x \in Callers
        BY <1>1 DEF Callers
      <4>5. QED
        BY <3>2, <3>7, <4>3, <4>4, KeyNames
    <3>9. t1.h = T2(x, y) /\ t1.ck = K1(x, y)
      BY <1>6, <3>4, <3>6, <3>8 DEF T2
    <3>10. Append(t1.ck, DH(Eph(x), Stat(Owner[y]))) = K2(x, y)
      BY <3>9 DEF K2
    <3>11. /\ Shape(r.hand) /\ r.hand.re = y /\ r.hand.rs = Owner[y]
           /\ r.hand.index = 1 /\ r.hand.split = FALSE
           /\ r.hand.ck = K2(x, y) /\ r.hand.k = K2(x, y)
           /\ \/ r.ok = FALSE
              \/ /\ r.ok = TRUE /\ m.p # Damaged
                 /\ r.hand.h = Append(Append(T2(x, y), m.s), m.p) /\ r.hand.n = 1
      <4>1. PICK o : o = Owner[y]
        OBVIOUS
      <4>2. Opens(t1, m.s) /\ m.s.text = Stat(o)
        BY <2>2, <3>4, <4>1
      <4>3. AfterOpening(r, t1, m, o, Append(t1.ck, DH(Eph(x), Stat(o))))
        BY <1>6, <4>2, OpeningDone
      <4> HIDE DEF r
      <4>4. QED
        BY <1>6, <3>8, <3>9, <3>10, <4>1, <4>3 DEF AfterOpening
    <3> HIDE DEF r
    <3>12. CASE r.ok = TRUE
      <4>1. m.p = P2(x, y) /\ m.s = S2(x, y)
        BY <1>3, <3>1, <3>3, <3>8, <3>11, <3>12
      <4>2. r.hand.h = T4(x, y)
        BY <3>11, <3>12, <4>1 DEF T3, T4
      <4>3. v = [r.hand EXCEPT !.index = 2]
        BY <3>12
      <4> HIDE DEF v
      <4>4. Passed(v)
        BY <3>11, <3>12, <4>2, <4>3 DEF Shape, Fields, At
      <4>5. QED
        BY <3>1, <3>5, <3>8, <3>12, <4>4
    <3>13. CASE r.ok = FALSE
      <4>1. v = [r.hand EXCEPT !.index = 1]
        BY <3>13
      <4>2. K2(x, y) \in Seq(Secrets) /\ Len(K2(x, y)) >= 1
        <5>1. \A s \in Seq(Secrets), d \in Secrets : Append(s, d) \in Seq(Secrets)
          OBVIOUS
        <5>2. Len(K2(x, y)) = 2
          BY KeysLaidOut
        <5>3. Append(t1.ck, DH(Eph(x), Stat(Owner[y]))) \in Seq(Secrets)
          BY <1>5, <1>7, <5>1
        <5>4. QED
          BY <3>10, <5>2, <5>3
      <4> HIDE DEF v
      <4>3. Failed(v)
        BY <3>11, <4>1, <4>2 DEF Shape, Fields
      <4>4. QED
        BY <3>13, <4>3
    <3>14. QED
      BY <3>11, <3>12, <3>13
  <2>3. QED
    BY <2>1, <2>2
<1>9. /\ r.ok = FALSE => failures' = [failures EXCEPT ![x] = @ + 1]
      /\ r.ok = TRUE => failures' = failures
  <2> HIDE DEF r, v
  <2>1. QED
    BY <1>1
<1> HIDE DEF r, v
<1>10. hand'[x] = v
  BY <1>1 DEF NoiseInv
<1>11. StepOf(x)
  <2>1. failures' = [failures EXCEPT ![x] = failures'[x]]
    BY <1>8, <1>9 DEF NoiseInv
  <2>2. hand' = [hand EXCEPT ![x] = v]
    BY <1>1
  <2>3. hand' = [hand EXCEPT ![x] = hand'[x]]
    BY <1>10, <2>2
  <2>4. x \notin Responders /\ hand[x].index # 3
    BY <1>1
  <2>5. QED
    BY <2>1, <2>3, <2>4 DEF StepOf
<1>12. InitiatorOK(x)'
  <2>1. CASE r.ok = FALSE /\ Failed(v)
    <3>1. failures'[x] \in Nat /\ failures'[x] # 0
      <4>1. failures'[x] = failures[x] + 1
        BY <1>9, <2>1 DEF NoiseInv
      <4>2. QED
        BY <1>2, <4>1
    <3>2. Failed(hand'[x])
      BY <1>10, <2>1
    <3>3. QED
      BY <3>1, <3>2 DEF InitiatorOK
  <2>2. CASE Passed(v) /\ hand[y].re = x /\ failures[x] = 0 /\ r.ok = TRUE
    <3>1. failures'[x] = 0
      BY <1>9, <2>2
    <3>2. hand'[y] = hand[y]
      BY <1>1, <1>4 DEF NoiseInv
    <3>3. Passed(hand'[x])
      BY <1>10, <2>2
    <3>4. Answered(hand[x].re, x)'
      BY <1>3, <2>2, <3>2, <3>3 DEF Answered
    <3>5. /\ Shape(hand'[x]) /\ hand'[x].index = 2 /\ hand'[x].split = FALSE
          /\ hand'[x].rs = Owner[hand'[x].re]
          /\ At(hand'[x], K2(x, hand'[x].re), T4(x, hand'[x].re), 1)
      BY <3>3
    <3>6. QED
      BY <3>1, <3>4, <3>5 DEF InitiatorOK
  <2>3. QED
    BY <1>8, <2>1, <2>2
<1>13. hand'[x].index # 3
  BY <1>8, <1>10
<1>14. sealed \subseteq sealed' /\ sealed' \ sealed = {} /\ written' \ written = {}
  BY <1>1
<1>15. QED
  BY <1>1, <1>11, <1>12, <1>13, <1>14, StepKeeps

-----------------------------------------------------------------------------
(* The invariant *)

\* At first nobody has written or read anything.
LEMMA InitNoise ==
  ASSUME NoiseAssumption, Init
  PROVE  NoiseInv
<1>1. /\ hand = [x \in Ends |-> NewHand] /\ failures = [x \in Ends |-> 0]
      /\ written = {} /\ sealed = {}
  BY DEF Init
<1>2. hand = [x \in Ends |-> hand[x]] /\ failures = [x \in Ends |-> failures[x]]
  BY <1>1
<1>3. \A x \in Ends : hand[x] = NewHand /\ failures[x] = 0
  BY <1>1
<1>4. /\ Shape(NewHand) /\ NewHand.index = 0 /\ NewHand.split = FALSE
      /\ NewHand.ck = << >> /\ NewHand.h = << >>
  BY DEF NewHand, Shape, Fields
<1>5. ASSUME NEW x \in Initiators PROVE InitiatorOK(x)
  <2>1. hand[x] = NewHand /\ failures[x] = 0
    BY <1>3 DEF Ends
  <2>2. QED
    BY <1>4, <2>1 DEF InitiatorOK
<1>6. ASSUME NEW y \in Responders PROVE ResponderOK(y)
  <2>1. hand[y] = NewHand
    BY <1>3 DEF Ends
  <2>2. QED
    BY <1>4, <2>1 DEF ResponderOK
<1>7. ProofsSealed
  BY <1>3, <1>4 DEF ProofsSealed, Ends
<1>8. QED
  BY <1>1, <1>2, <1>5, <1>6, <1>7 DEF NoiseInv

\* Every step keeps the invariant.
LEMMA StepNoise ==
  ASSUME NoiseAssumption, NoiseInv, [Next]_vars
  PROVE  NoiseInv'
<1>1. CASE UNCHANGED vars
  <2>1. hand' = hand /\ written' = written /\ sealed' = sealed /\ failures' = failures
    BY <1>1 DEF vars
  <2>2. \A x : InitiatorOK(x) => InitiatorOK(x)'
    BY <2>1 DEF InitiatorOK, Answered
  <2>3. \A y : ResponderOK(y) => ResponderOK(y)'
    BY <2>1 DEF ResponderOK
  <2>4. (\A a : IsSealed(a) => IsSealed(a)') /\ (ProofsSealed => ProofsSealed')
    BY <2>1 DEF IsSealed, ProofsSealed
  <2>5. \A m : /\ IsMessage1(m) => IsMessage1(m)'
               /\ IsMessage2(m) => IsMessage2(m)'
               /\ IsMessage3(m) => IsMessage3(m)'
    BY <2>1 DEF IsMessage1, IsMessage2, IsMessage3
  <2>6. QED
    BY <2>1, <2>2, <2>3, <2>4, <2>5 DEF NoiseInv
<1>2. CASE Next
  <2>1. PICK x \in Ends :
          \/ WriteMessage1(x)
          \/ WriteMessage2(x)
          \/ WriteMessage3(x)
          \/ \E m \in Arriving : ReadMessage1(x, m)
          \/ \E m \in Arriving : ReadMessage2(x, m)
          \/ \E m \in Arriving : ReadMessage3(x, m)
    BY <1>2 DEF Next
  <2>2. CASE WriteMessage1(x)
    BY <2>2, WriteMessage1Step
  <2>3. CASE WriteMessage2(x)
    BY <2>3, WriteMessage2Step
  <2>4. CASE WriteMessage3(x)
    BY <2>4, WriteMessage3Step
  <2>5. CASE \E m \in Arriving : ReadMessage1(x, m)
    BY <2>5, ReadMessage1Step
  <2>6. CASE \E m \in Arriving : ReadMessage2(x, m)
    BY <2>6, ReadMessage2Step
  <2>7. CASE \E m \in Arriving : ReadMessage3(x, m)
    BY <2>7, ReadMessage3Step
  <2>8. QED
    BY <2>1, <2>2, <2>3, <2>4, <2>5, <2>6, <2>7
<1>3. QED
  BY <1>1, <1>2

\* All an end has is determined by whom it talks with and how far they are.
LEMMA NoiseInvariant ==
  ASSUME NoiseAssumption
  PROVE  Spec => []NoiseInv
<1>1. Init => NoiseInv
  BY InitNoise
<1>2. NoiseInv /\ [Next]_vars => NoiseInv'
  BY StepNoise
<1>3. QED
  BY <1>1, <1>2, PTL DEF Spec

-----------------------------------------------------------------------------
(* What follows *)

\* What is encrypted under one key and nonce is one text of one end.
LEMMA SealedOnce ==
  ASSUME NoiseAssumption, NoiseInv, NEW a \in sealed, NEW b \in sealed,
         a[2].key = b[2].key, a[2].nonce = b[2].nonce
  PROVE  a = b
<1> DEFINE Sent2(c, y) == /\ y \in Responders /\ hand[y].re \in Callers
                          /\ \/ c = <<y, S2(hand[y].re, y)>>
                             \/ c = <<y, P2(hand[y].re, y)>>
           Sent3(c, x) == /\ x \in Initiators /\ Answered(hand[x].re, x)
                          /\ \/ c = <<x, S3(x, hand[x].re)>>
                             \/ c = <<x, P3(x, hand[x].re)>>
<1>1. \A y \in Responders : hand[y].index >= 2 => hand[y].re \in Callers
  <2>1. SUFFICES ASSUME NEW y \in Responders, hand[y].index >= 2
                 PROVE  hand[y].re \in Callers
    OBVIOUS
  <2>2. ResponderOK(y)
    BY DEF NoiseInv
  <2>3. QED
    BY <2>1, <2>2 DEF ResponderOK
<1>2. \A x \in Initiators : hand[x].index = 3 => Answered(hand[x].re, x)
  <2>1. SUFFICES ASSUME NEW x \in Initiators, hand[x].index = 3
                 PROVE  Answered(hand[x].re, x)
    OBVIOUS
  <2>2. InitiatorOK(x)
    BY DEF NoiseInv
  <2>3. QED
    BY <2>1, <2>2 DEF InitiatorOK
<1>3. \A c \in sealed : (\E y : Sent2(c, y)) \/ (\E x : Sent3(c, x))
  <2>1. \A c \in sealed : IsSealed(c)
    BY DEF NoiseInv
  <2>2. QED
    BY <1>1, <1>2, <2>1 DEF IsSealed
\* The ends of a handshake, and which of its four texts c is.
<1> DEFINE Text(c, x, y, i) ==
             /\ x \in Callers /\ y \in Responders
             /\ \/ i = 1 /\ c = <<y, S2(x, y)>>
                \/ i = 2 /\ c = <<y, P2(x, y)>>
                \/ i = 3 /\ c = <<x, S3(x, y)>>
                \/ i = 4 /\ c = <<x, P3(x, y)>>
<1>4. \A c \in sealed : \E x, y, i : Text(c, x, y, i)
  <2>1. SUFFICES ASSUME NEW c \in sealed PROVE \E x, y, i : Text(c, x, y, i)
    OBVIOUS
  <2>2. CASE \E y : Sent2(c, y)
    <3>1. PICK y : Sent2(c, y)
      BY <2>2
    <3>2. Text(c, hand[y].re, y, 1) \/ Text(c, hand[y].re, y, 2)
      BY <3>1
    <3>3. QED
      BY <3>2
  <2>3. CASE \E x : Sent3(c, x)
    <3>1. PICK x : Sent3(c, x)
      BY <2>3
    <3>2. Text(c, x, hand[x].re, 3) \/ Text(c, x, hand[x].re, 4)
      BY <3>1 DEF Answered, Callers
    <3>3. QED
      BY <3>2
  <2>4. QED
    BY <1>3, <2>2, <2>3
<1> HIDE DEF Sent2, Sent3
<1>5. PICK x, y, i : Text(a, x, y, i)
  BY <1>4
<1>6. PICK x1, y1, j : Text(b, x1, y1, j)
  BY <1>4
\* The key and the nonce of each text.
<1> DEFINE Keyed(c, u, v, k) ==
             \/ k = 1 /\ c[2].key = K1(u, v) /\ c[2].nonce = 0
             \/ k = 2 /\ c[2].key = K2(u, v) /\ c[2].nonce = 0
             \/ k = 3 /\ c[2].key = K2(u, v) /\ c[2].nonce = 1
             \/ k = 4 /\ c[2].key = K3(u, v) /\ c[2].nonce = 0
<1>7. Keyed(a, x, y, i) /\ Keyed(b, x1, y1, j)
  BY <1>5, <1>6 DEF S2, P2, S3, P3
<1>8. i = j /\ (K1(x, y) = K1(x1, y1) \/ K2(x, y) = K2(x1, y1) \/ K3(x, y) = K3(x1, y1))
  <2>1. \A u, v, u1, v1 : /\ K1(u, v) # K2(u1, v1) /\ K1(u, v) # K3(u1, v1)
                          /\ K2(u, v) # K3(u1, v1)
    BY KeyLengths
  <2>2. QED
    BY <1>7, <2>1
<1>9. x = x1 /\ y = y1
  BY <1>5, <1>6, <1>8, KeyNames
<1>10. QED
  BY <1>5, <1>6, <1>8, <1>9

\* No key of a handshake encrypts twice under one nonce, whatever the ends of
\* any number of handshakes are given and however often their reads fail
\* (CipherState).
THEOREM NoncesOnce ==
  ASSUME NoiseAssumption
  PROVE  Spec => []NonceOnce
<1>1. NoiseInv => NonceOnce
  BY SealedOnce DEF NonceOnce
<1>2. QED
  BY <1>1, NoiseInvariant, PTL

\* A responder is complete only with one initiator that is complete with it:
\* the same chaining key and transcript, each with the other's keys
\* (read_message_3, chaining_key).
THEOREM CompleteTogether ==
  ASSUME NoiseAssumption
  PROVE  Spec => []CompleteAgree
<1>1. ASSUME NoiseInv PROVE CompleteAgree
  <2>1. SUFFICES ASSUME NEW y \in Responders, hand[y].split
                 PROVE  \E x \in Initiators :
                          /\ hand[x].split
                          /\ hand[x].ck = hand[y].ck /\ hand[x].h = hand[y].h
                          /\ hand[x].re = y /\ hand[y].re = x
                          /\ hand[x].rs = Owner[y] /\ hand[y].rs = Owner[x]
    BY DEF CompleteAgree
  <2>2. ResponderOK(y)
    BY <1>1 DEF NoiseInv
  <2>3. hand[y].index = 3
    BY <2>1, <2>2 DEF ResponderOK
  <2>4. PICK x : x = hand[y].re
    OBVIOUS
  <2>5. /\ x \in Initiators /\ hand[y].rs = Owner[x]
        /\ hand[x].index = 3 /\ hand[x].re = y
        /\ At(hand[y], K3(x, y), T6(x, y), 1)
    BY <2>2, <2>3, <2>4 DEF ResponderOK
  <2>6. InitiatorOK(x)
    BY <1>1, <2>5 DEF NoiseInv
  <2>7. /\ hand[x].split = TRUE /\ hand[x].rs = Owner[y]
        /\ At(hand[x], K3(x, y), T6(x, y), 1)
    BY <2>5, <2>6 DEF InitiatorOK
  <2>8. QED
    BY <2>4, <2>5, <2>7 DEF At
<1>2. QED
  BY <1>1, NoiseInvariant, PTL

\* Two ends of one role never come to the same chaining key, also when one
\* message 1 is answered by many: the run and the answer name the transcript.
THEOREM TranscriptsApart ==
  ASSUME NoiseAssumption
  PROVE  Spec => []OneTranscript
<1>1. ASSUME NoiseInv PROVE OneTranscript
  <2>1. SUFFICES ASSUME NEW x \in Ends, NEW y \in Ends, hand[x].split, hand[y].split,
                        hand[x].ck = hand[y].ck, x # y
                 PROVE  (x \in Initiators) # (y \in Initiators)
    BY DEF OneTranscript
  <2>2. \A z \in Initiators :
          hand[z].split => \E u \in Responders : hand[z].ck = K3(z, u)
    <3>1. SUFFICES ASSUME NEW z \in Initiators, hand[z].split
                   PROVE  \E u \in Responders : hand[z].ck = K3(z, u)
      OBVIOUS
    <3>2. InitiatorOK(z)
      BY <1>1 DEF NoiseInv
    <3>3. QED
      BY <3>1, <3>2 DEF InitiatorOK, Answered, At
  <2>3. \A z \in Responders :
          hand[z].split => \E u \in Initiators : hand[z].ck = K3(u, z)
    <3>1. SUFFICES ASSUME NEW z \in Responders, hand[z].split
                   PROVE  \E u \in Initiators : hand[z].ck = K3(u, z)
      OBVIOUS
    <3>2. ResponderOK(z)
      BY <1>1 DEF NoiseInv
    <3>3. QED
      BY <3>1, <3>2 DEF ResponderOK, At
  <2>4. CASE x \in Initiators /\ y \in Initiators
    <3>1. PICK u \in Responders, v \in Responders : K3(x, u) = K3(y, v)
      BY <2>1, <2>2, <2>4
    <3>2. x = y
      BY <2>4, <3>1, KeyNames DEF Callers
    <3>3. QED
      BY <2>1, <3>2
  <2>5. CASE x \in Responders /\ y \in Responders
    <3>1. PICK u \in Initiators, v \in Initiators : K3(u, x) = K3(v, y)
      BY <2>1, <2>3, <2>5
    <3>2. x = y
      BY <2>5, <3>1, KeyNames DEF Callers
    <3>3. QED
      BY <2>1, <3>2
  <2>6. QED
    BY <2>4, <2>5 DEF Ends
<1>2. QED
  BY <1>1, NoiseInvariant, PTL

\* Where the proofs stand in the transcripts.
LEMMA ProofsPlace ==
  ASSUME NEW x, NEW y
  PROVE  /\ \E i \in DOMAIN T4(x, y) : T4(x, y)[i] = P2(x, y)
         /\ \E i \in DOMAIN T6(x, y) : T6(x, y)[i] = P2(x, y)
         /\ \E i \in DOMAIN T6(x, y) : T6(x, y)[i] = P3(x, y)
<1> DEFINE S == {Eph(x), Eph(y), S2(x, y), P2(x, y), S3(x, y), P3(x, y)}
\* p stands somewhere in s.
           In(p, s) == \E i \in DOMAIN s : s[i] = p
<1>1. /\ Eph(x) \in S /\ Eph(y) \in S /\ S2(x, y) \in S /\ P2(x, y) \in S
      /\ S3(x, y) \in S /\ P3(x, y) \in S
  OBVIOUS
<1> HIDE DEF S
<1>2. ASSUME NEW s \in Seq(S), NEW e \in S
      PROVE  /\ Append(s, e) \in Seq(S) /\ In(e, Append(s, e))
             /\ \A p : In(p, s) => In(p, Append(s, e))
  <2>1. /\ Append(s, e) \in Seq(S) /\ DOMAIN s = 1 .. Len(s) /\ Len(s) \in Nat
        /\ DOMAIN Append(s, e) = 1 .. Len(s) + 1 /\ Append(s, e)[Len(s) + 1] = e
        /\ \A i \in 1 .. Len(s) : Append(s, e)[i] = s[i]
    OBVIOUS
  <2>2. Len(s) + 1 \in DOMAIN Append(s, e) /\ \A i \in DOMAIN s : i \in DOMAIN Append(s, e)
    BY <2>1
  <2>3. QED
    BY <2>1, <2>2
<1> HIDE DEF In
<1>3. << >> \in Seq(S)
  OBVIOUS
<1>4. T1(x) \in Seq(S)
  BY <1>1, <1>2, <1>3 DEF T1
<1>5. T2(x, y) \in Seq(S)
  BY <1>1, <1>2, <1>4 DEF T2
<1>6. T3(x, y) \in Seq(S)
  BY <1>1, <1>2, <1>5 DEF T3
<1>7. T4(x, y) \in Seq(S) /\ In(P2(x, y), T4(x, y))
  BY <1>1, <1>2, <1>6 DEF T4
<1>8. T5(x, y) \in Seq(S) /\ In(P2(x, y), T5(x, y))
  BY <1>1, <1>2, <1>7 DEF T5
<1>9. T6(x, y) \in Seq(S) /\ In(P2(x, y), T6(x, y)) /\ In(P3(x, y), T6(x, y))
  BY <1>1, <1>2, <1>8 DEF T6
<1>10. QED
  BY <1>7, <1>9 DEF In

\* What an end takes for the signed transcript is what its peer signed: the
\* identity in the payload is the owner of the static key that came with it
\* (signed_h, verify_transcript).
THEOREM SignedByPeer ==
  ASSUME NoiseAssumption
  PROVE  Spec => []SignedHere
<1>1. ASSUME NoiseInv PROVE SignedHere
  <2>1. SUFFICES ASSUME NEW x \in Ends,
                        hand[x].index = 3 \/ (x \in Initiators /\ hand[x].index = 2)
                 PROVE  \E a \in sealed :
                          /\ a[2].text = [by |-> hand[x].rs, signed |-> a[2].ad]
                          /\ \E i \in DOMAIN hand[x].h : hand[x].h[i] = a[2]
    BY DEF SignedHere
  <2>2. CASE x \in Initiators
    <3>1. InitiatorOK(x)
      BY <1>1, <2>2 DEF NoiseInv
    <3>2. PICK y : y = hand[x].re
      OBVIOUS
    <3>3. /\ Answered(y, x) /\ hand[x].rs = Owner[y]
          /\ hand[x].h = T4(x, y) \/ hand[x].h = T6(x, y)
      BY <2>1, <3>1, <3>2 DEF InitiatorOK, At
    <3>4. <<y, P2(x, y)>> \in sealed
      BY <1>1, <3>3 DEF NoiseInv, ProofsSealed, Answered
    <3>5. \E i \in DOMAIN hand[x].h : hand[x].h[i] = P2(x, y)
      BY <3>3, ProofsPlace
    <3>6. P2(x, y).text = [by |-> hand[x].rs, signed |-> P2(x, y).ad]
      BY <3>3 DEF P2
    <3>7. QED
      BY <3>4, <3>5, <3>6
  <2>3. CASE x \in Responders
    <3>1. ResponderOK(x)
      BY <1>1, <2>3 DEF NoiseInv
    <3>2. PICK u : u = hand[x].re
      OBVIOUS
    <3>3. hand[x].index = 3
      BY <2>1, <2>3 DEF NoiseAssumption
    <3>4. /\ u \in Initiators /\ hand[x].rs = Owner[u] /\ hand[x].h = T6(u, x)
          /\ hand[u].index = 3 /\ hand[u].re = x
      BY <3>1, <3>2, <3>3 DEF ResponderOK, At
    <3>5. <<u, P3(u, x)>> \in sealed
      BY <1>1, <3>4 DEF NoiseInv, ProofsSealed
    <3>6. \E i \in DOMAIN hand[x].h : hand[x].h[i] = P3(u, x)
      BY <3>4, ProofsPlace
    <3>7. P3(u, x).text = [by |-> hand[x].rs, signed |-> P3(u, x).ad]
      BY <3>4 DEF P3
    <3>8. QED
      BY <3>5, <3>6, <3>7
  <2>4. QED
    BY <2>2, <2>3 DEF Ends
<1>2. QED
  BY <1>1, NoiseInvariant, PTL

\* An initiator whose read failed never completes, not even with the right
\* message afterwards: its chaining key has a secret too many.
THEOREM FailedIsOver ==
  ASSUME NoiseAssumption
  PROVE  Spec => []FailedNeverCompletes
<1>1. ASSUME NoiseInv PROVE FailedNeverCompletes
  <2>1. SUFFICES ASSUME NEW x \in Initiators, failures[x] > 0 PROVE ~hand[x].split
    BY DEF FailedNeverCompletes
  <2>2. InitiatorOK(x)
    BY <1>1 DEF NoiseInv
  <2>3. failures[x] # 0
    BY <2>1, <2>2 DEF InitiatorOK
  <2>4. hand[x].split = FALSE
    BY <2>2, <2>3 DEF InitiatorOK
  <2>5. QED
    BY <2>4
<1>2. QED
  BY <1>1, NoiseInvariant, PTL
=============================================================================
