-------------------------------- MODULE Noise --------------------------------
(***************************************************************************)
(* The Noise XX handshake (crypto/noise.py): cipher states, the symmetric  *)
(* state and the three messages, with the identity payloads session.py     *)
(* puts in and checks.  Several handshakes run at once; a message reaches  *)
(* any end, any number of times, whole or with a damaged part, and an end  *)
(* whose read failed is given more.                                        *)
(*                                                                         *)
(* Cryptography is symbolic: an end's ephemeral key is named by the end, a *)
(* static key by its owner, a Diffie-Hellman result by the two keys, a     *)
(* hash or a derived key by the sequence of what went into it.             *)
(***************************************************************************)
EXTENDS Naturals, Sequences

CONSTANTS
  Initiators, Responders,  \* the HandshakeState objects, by role
  Owner,                   \* Owner[x]: the node an object belongs to
  MaxFailures,             \* bound on the reads that fail at an end
  None,                    \* no key, nothing read         (a model value)
  Damaged                  \* bytes that nobody wrote      (a model value)

Ends == Initiators \cup Responders
Owners == {Owner[x] : x \in Ends}

NoiseAssumption ==
  /\ Initiators \cap Responders = {}
  /\ {None, Damaged} \cap Ends = {}
  /\ MaxFailures \in Nat

VARIABLES
  hand,     \* the HandshakeState of each end
  written,  \* the messages written; each can come any number of times
  sealed,   \* everything encrypted, with the end that did it    (history)
  failures  \* how many reads failed at an end                   (history)

vars == <<hand, written, sealed, failures>>

\* x: its ephemeral key is drawn (e), the other's keys (re, rs), the symmetric
\* state (ck, h) with its cipher state (k, n), _msg_index and _split.
NewHand == [e |-> FALSE, re |-> None, rs |-> None, ck |-> << >>, h |-> << >>,
            k |-> None, n |-> 0, index |-> 0, split |-> FALSE]

\* The fields of the objects have their types; the terms are built by the
\* actions.
TypeOK ==
  /\ DOMAIN hand = Ends
  /\ \A x \in Ends :
       /\ hand[x].e \in BOOLEAN /\ hand[x].split \in BOOLEAN
       /\ hand[x].re \in Ends \cup {None, Damaged}
       /\ hand[x].rs \in Owners \cup {None}
       /\ hand[x].n \in 0 .. 2 /\ hand[x].index \in 0 .. 3
       /\ hand[x].k = None <=> hand[x].ck = << >>
  /\ failures \in [Ends -> 0 .. MaxFailures]

-----------------------------------------------------------------------------
(* SymmetricState and CipherState *)

MixHash(t, item) == [t EXCEPT !.h = Append(@, item)]

\* dh, of an ephemeral or static key with another.
Eph(x) == [eph |-> x]
Stat(o) == [stat |-> o]
DH(a, b) == {a, b}

\* mix_key: a new chaining key, and a new key whose nonces start at 0.
MixKey(t, secret) ==
  [t EXCEPT !.ck = Append(@, secret), !.k = Append(t.ck, secret), !.n = 0]

Seal(t, text) == [key |-> t.k, nonce |-> t.n, ad |-> t.h, text |-> text]

\* encrypt_and_hash: what t becomes.
Sealed(t, text) == MixHash([t EXCEPT !.n = @ + 1], Seal(t, text))

\* aead_decrypt succeeds: the same key, nonce and associated data.
Opens(t, c) == c # Damaged /\ c = Seal(t, c.text)

\* Variant: reading does not count.
OpenedUncounted(t, c) == MixHash(t, c)

\* decrypt_and_hash, when it succeeds.
Opened(t, c) == MixHash([t EXCEPT !.n = @ + 1], c)

-----------------------------------------------------------------------------
(* The messages *)

\* Variant: the transcript before the static key went into it.
IdentityEarly(x, t) ==
  [by |-> Owner[x], signed |-> SubSeq(t.h, 1, Len(t.h) - 1)]

\* What the payload of x says: who it is, and the transcript it signed
\* (_encode_identity_payload).
Identity(x, t) == [by |-> Owner[x], signed |-> t.h]

WriteMessage1(x) ==
  LET t == hand[x]
  IN  /\ x \in Initiators /\ t.index = 0
      /\ hand' = [hand EXCEPT ![x] =
                    MixHash([t EXCEPT !.e = TRUE, !.index = 1], Eph(x))]
      /\ written' = written \cup {[number |-> 1, e |-> x]}
      /\ UNCHANGED <<sealed, failures>>

ReadMessage1(x, m) ==
  LET t == hand[x]
  IN  /\ x \in Responders /\ t.index = 0
      /\ m.number = 1
      /\ hand' = [hand EXCEPT ![x] =
                    MixHash([t EXCEPT !.re = m.e, !.index = 1], Eph(m.e))]
      /\ UNCHANGED <<written, sealed, failures>>

\* The two encryptions of a message: the static key, and after another
\* Diffie-Hellman the payload.
Sealing(x, t, secret) ==
  LET own == Stat(Owner[x])
      t2 == MixKey(Sealed(t, own), secret)
      proof == Identity(x, t2)
  IN  [s |-> Seal(t, own), p |-> Seal(t2, proof), hand |-> Sealed(t2, proof)]

WriteMessage2(x) ==
  LET t == hand[x]
      t1 == MixKey(MixHash([t EXCEPT !.e = TRUE], Eph(x)), DH(Eph(x), Eph(t.re)))
      w == Sealing(x, t1, DH(Stat(Owner[x]), Eph(t.re)))
  IN  /\ x \in Responders /\ t.index = 1
      /\ hand' = [hand EXCEPT ![x] = [w.hand EXCEPT !.index = 2]]
      /\ written' = written \cup {[number |-> 2, e |-> x, s |-> w.s, p |-> w.p]}
      /\ sealed' = sealed \cup {<<x, w.s>>, <<x, w.p>>}
      /\ UNCHANGED failures

\* The two decryptions of a message, at x.  A read that fails leaves what it had
\* done to the state.
Opening(x, t, m) ==
  LET t2 == MixKey([Opened(t, m.s) EXCEPT !.rs = m.s.text.stat],
                   DH(Eph(x), m.s.text))
  IN  IF ~Opens(t, m.s) THEN [ok |-> FALSE, hand |-> t]
      ELSE IF ~Opens(t2, m.p) THEN [ok |-> FALSE, hand |-> t2]
      ELSE [ok |-> TRUE, hand |-> Opened(t2, m.p)]

Counts(x, ok) ==
  /\ ok \/ failures[x] < MaxFailures
  /\ failures' = IF ok THEN failures ELSE [failures EXCEPT ![x] = @ + 1]

ReadMessage2(x, m) ==
  LET t == hand[x]
      t1 == MixKey(MixHash([t EXCEPT !.re = m.e], Eph(m.e)), DH(Eph(x), Eph(m.e)))
      r == Opening(x, t1, m)
  IN  /\ x \in Initiators /\ t.index = 1
      /\ m.number = 2
      /\ hand' = [hand EXCEPT ![x] = [r.hand EXCEPT !.index = IF r.ok THEN 2 ELSE 1]]
      /\ Counts(x, r.ok)
      /\ UNCHANGED <<written, sealed>>

WriteMessage3(x) ==
  LET t == hand[x]
      w == Sealing(x, t, DH(Stat(Owner[x]), Eph(t.re)))
  IN  /\ x \in Initiators /\ t.index = 2
      /\ hand' = [hand EXCEPT ![x] = [w.hand EXCEPT !.index = 3, !.split = TRUE]]
      /\ written' = written \cup {[number |-> 3, s |-> w.s, p |-> w.p]}
      /\ sealed' = sealed \cup {<<x, w.s>>, <<x, w.p>>}
      /\ UNCHANGED failures

ReadMessage3(x, m) ==
  LET r == Opening(x, hand[x], m)
  IN  /\ x \in Responders /\ hand[x].index = 2
      /\ m.number = 3
      /\ hand' = [hand EXCEPT ![x] =
                    IF r.ok THEN [r.hand EXCEPT !.index = 3, !.split = TRUE]
                    ELSE r.hand]
      /\ Counts(x, r.ok)
      /\ UNCHANGED <<written, sealed>>

\* What of the written may arrive: a message, or one with a damaged part.
Arriving ==
  written \cup UNION {{[m EXCEPT ![part] = Damaged] : part \in DOMAIN m \ {"number"}} :
                        m \in written}

Init ==
  /\ hand = [x \in Ends |-> NewHand]
  /\ written = {} /\ sealed = {}
  /\ failures = [x \in Ends |-> 0]

Next ==
  \E x \in Ends :
    \/ WriteMessage1(x)
    \/ WriteMessage2(x)
    \/ WriteMessage3(x)
    \/ \E m \in Arriving : ReadMessage1(x, m)
    \/ \E m \in Arriving : ReadMessage2(x, m)
    \/ \E m \in Arriving : ReadMessage3(x, m)

Spec == Init /\ [][Next]_vars

-----------------------------------------------------------------------------
(* Properties *)

\* No key encrypts twice under one nonce, although the two ends share keys and
\* each counts for itself (CipherState).
NonceOnce ==
  \A a, b \in sealed :
    a[2].key = b[2].key /\ a[2].nonce = b[2].nonce => a = b

\* A responder is complete only with one initiator: the same chaining key and
\* transcript, each with the other's keys (read_message_3, chaining_key).
CompleteAgree ==
  \A y \in Responders :
    hand[y].split =>
      \E x \in Initiators :
        /\ hand[x].split
        /\ hand[x].ck = hand[y].ck /\ hand[x].h = hand[y].h
        /\ hand[x].re = y /\ hand[y].re = x
        /\ hand[x].rs = Owner[y] /\ hand[y].rs = Owner[x]

\* Two ends of one role never come to the same chaining key, also when one
\* message 1 is answered twice: the run and the answer name the transcript.
OneTranscript ==
  \A x, y \in Ends :
    /\ hand[x].split /\ hand[y].split /\ hand[x].ck = hand[y].ck /\ x # y
    => (x \in Initiators) # (y \in Initiators)

\* What an end takes for the signed transcript is what its peer signed: the
\* identity in the payload is the owner of the static key that came with it
\* (signed_h, verify_transcript).
SignedHere ==
  \A x \in Ends :
    hand[x].index = 3 \/ (x \in Initiators /\ hand[x].index = 2)
      => \E a \in sealed :
           /\ a[2].text = [by |-> hand[x].rs, signed |-> a[2].ad]
           /\ \E i \in DOMAIN hand[x].h : hand[x].h[i] = a[2]

\* A read that failed leaves h and ck changed, and that end never completes, not
\* even with the right message afterwards: a handshake must be thrown away on
\* an error, as the session manager does.
FailedNeverCompletes ==
  \A x \in Initiators : failures[x] > 0 => ~hand[x].split
=============================================================================
