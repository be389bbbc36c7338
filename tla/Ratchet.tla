------------------------------ MODULE Ratchet ------------------------------
(***************************************************************************)
(* The double ratchet of one session (crypto/ratchet.py), as the two ends  *)
(* run it, over a mesh that loses, repeats and reorders what it carries.   *)
(*                                                                         *)
(* Keys are symbolic.  A ratchet public key is the pair of its owner and   *)
(* the number of the pair among those the owner drew.  A root key is the   *)
(* sequence of the Diffie-Hellman results folded into it, and a result is  *)
(* the set of the two public keys; a chain key is the root it started from *)
(* and the number of steps made, and the message key drawn from a chain    *)
(* key is named by it.  Two ends have a key in common exactly if they      *)
(* computed it from the same inputs.                                       *)
(***************************************************************************)
EXTENDS Integers, Sequences, FiniteSets

CONSTANTS Initiator, Responder,
          MaxSkip,         \* MAX_SKIP
          MaxSkippedKeys,  \* MAX_SKIPPED_KEYS
          OddHeaders,      \* headers that may stand before a text of another
          NoPub, NoChain,  \* None, for dhr_pub and for a chain key
          MaxSent          \* bounds: messages of each end

ASSUME RatchetAssumption ==
  /\ Initiator # Responder
  /\ MaxSkip \in Nat /\ MaxSkippedKeys \in Nat
  /\ MaxSent \in [{Initiator, Responder} -> Nat]

VARIABLES end,       \* the DoubleRatchet of each end
          air,       \* every message ever sent; the mesh may deliver it
                     \* any number of times, in any order, or never
          sent,      \* Session.messages_sent
          received,  \* Session.messages_received
          delivered  \* history: numbers of an end's messages that were opened

vars == <<end, air, sent, received, delivered>>

Peers == {Initiator, Responder}
Other(p) == IF p = Initiator THEN Responder ELSE Initiator

Pub == Peers \X Nat
Header == [pub : Pub, pn : Nat, n : Nat]
RootKey == Seq(SUBSET Pub)
ChainKey == [root : RootKey, step : Nat]
Message == [from : Peers, number : Nat, hdr : Header, key : ChainKey]
Skipped == [pub : Pub, n : Nat, key : ChainKey]

ASSUME NoValueAssumption == NoPub \notin Pub /\ NoChain \notin ChainKey

DoubleRatchet ==
  [dhs : Nat, dhr : Pub \cup {NoPub}, rk : RootKey,
   cks : ChainKey \cup {NoChain}, ckr : ChainKey \cup {NoChain},
   ns : Nat, nr : Nat, pn : Nat,
   skipped : Seq(Skipped), evicted : SUBSET Skipped]

DH(a, b) == {a, b}

\* _kdf_rk: the new root key; the chain that starts from it is FirstKey.
KdfRoot(rk, out) == Append(rk, out)
FirstKey(rk) == [root |-> rk, step |-> 0]

\* _kdf_ck, k times.
Stepped(ck, k) == [ck EXCEPT !.step = @ + k]

InitSender ==
  LET rk == KdfRoot(<< >>, DH(<<Initiator, 0>>, <<Responder, 0>>))
  IN  [dhs |-> 0, dhr |-> <<Responder, 0>>, rk |-> rk,
       cks |-> FirstKey(rk), ckr |-> NoChain,
       ns |-> 0, nr |-> 0, pn |-> 0, skipped |-> << >>, evicted |-> {}]

InitReceiver ==
  [dhs |-> 0, dhr |-> NoPub, rk |-> << >>, cks |-> NoChain, ckr |-> NoChain,
   ns |-> 0, nr |-> 0, pn |-> 0, skipped |-> << >>, evicted |-> {}]

-----------------------------------------------------------------------------
\* Sending.

\* The header under which the end p with the ratchet r sends now.
HeaderNow(p, r) == [pub |-> <<p, r.dhs>>, pn |-> r.pn, n |-> r.ns]

\* Variant: the chain key is not advanced.
EncryptedStill(r) == [r EXCEPT !.ns = @ + 1]

\* The sender after one more message.
Encrypted(r) == [r EXCEPT !.cks = Stepped(@, 1), !.ns = @ + 1]

Encrypt(p) ==
  LET r == end[p]
      m == [from |-> p, number |-> sent[p] + 1,
            hdr |-> HeaderNow(p, r), key |-> r.cks]
  IN  /\ r.cks # NoChain
      /\ sent[p] < MaxSent[p]
      /\ air' = air \cup {m}
      /\ end' = [end EXCEPT ![p] = Encrypted(@)]
      /\ sent' = [sent EXCEPT ![p] = @ + 1]
      /\ UNCHANGED <<received, delivered>>

-----------------------------------------------------------------------------
\* Receiving.

\* aead_decrypt: text and header of m under the key mk.
Opens(mk, h, m) == mk = m.key /\ h = m.hdr

\* The last k elements of a sequence.
Newest(s, k) == IF Len(s) <= k THEN s ELSE SubSeq(s, Len(s) - k + 1, Len(s))

\* _skip_message_keys raises SkippedKeyLimit.
TooFar(r, until) ==
  IF r.ckr = NoChain THEN until > 0 ELSE until - r.nr > MaxSkip

\* Variant: a header that lies behind winds the chain back.
SkipBack(r, until) ==
  IF r.ckr = NoChain THEN r
  ELSE LET new == [i \in 1 .. until - r.nr |->
                     [pub |-> r.dhr, n |-> r.nr + i - 1,
                      key |-> Stepped(r.ckr, i - 1)]]
       IN  [r EXCEPT !.skipped = Newest(@ \o new, MaxSkippedKeys),
                     !.ckr = Stepped(@, until - r.nr), !.nr = until]

\* _skip_message_keys: keep the keys from nr to until, and evict the oldest.
\* evicted is history.
Skip(r, until) ==
  IF r.ckr = NoChain \/ until <= r.nr THEN r
  ELSE LET new == [i \in 1 .. until - r.nr |->
                     [pub |-> r.dhr, n |-> r.nr + i - 1,
                      key |-> Stepped(r.ckr, i - 1)]]
           all == r.skipped \o new
           kept == Newest(all, MaxSkippedKeys)
       IN  [r EXCEPT !.skipped = kept,
                     !.evicted = @ \cup {all[i] : i \in 1 .. Len(all) - Len(kept)},
                     !.ckr = Stepped(@, until - r.nr),
                     !.nr = until]

\* Variant: the second root key is not kept.
DhRatchetHalf(p, r, pub) ==
  LET receiving == KdfRoot(r.rk, DH(<<p, r.dhs>>, pub))
      sending == KdfRoot(receiving, DH(<<p, r.dhs + 1>>, pub))
  IN  [r EXCEPT !.pn = r.ns, !.ns = 0, !.nr = 0, !.dhr = pub,
                !.dhs = @ + 1, !.rk = receiving,
                !.ckr = FirstKey(receiving), !.cks = FirstKey(sending)]

\* _dh_ratchet at the end p.
DhRatchet(p, r, pub) ==
  LET receiving == KdfRoot(r.rk, DH(<<p, r.dhs>>, pub))
      sending == KdfRoot(receiving, DH(<<p, r.dhs + 1>>, pub))
  IN  [r EXCEPT !.pn = r.ns, !.ns = 0, !.nr = 0, !.dhr = pub,
                !.dhs = @ + 1, !.rk = sending,
                !.ckr = FirstKey(receiving), !.cks = FirstKey(sending)]

\* The copy after the steps that a header of a new chain asks for ...
OnChain(p, r, h) ==
  IF h.pub = r.dhr THEN r ELSE DhRatchet(p, Skip(r, h.pn), h.pub)

\* ... and at the message itself.
AtMessage(p, r, h) == Skip(OnChain(p, r, h), h.n)

\* The work on the copy, but for _decrypt_current, raises.
OutOfReach(p, r, h) ==
  \/ h.pub # r.dhr /\ TooFar(r, h.pn)
  \/ TooFar(OnChain(p, r, h), h.n)
  \/ AtMessage(p, r, h).ckr = NoChain

\* _decrypt_current, when the text opens.
Read(t) == [t EXCEPT !.ckr = Stepped(@, 1), !.nr = @ + 1]

\* Variant: the work is done in place.
SettledAlways(r, t, opened) == IF opened THEN Read(t) ELSE t

\* What is left of the copy: it is adopted only if the text opened.
Settled(r, t, opened) == IF opened THEN Read(t) ELSE r

\* Positions in skipped of the key that a header asks for.
Found(r, h) ==
  {i \in DOMAIN r.skipped : r.skipped[i].pub = h.pub /\ r.skipped[i].n = h.n}

\* Variant: the key is not deleted.
WithoutNothing(s, i) == s

Without(s, i) == SubSeq(s, 1, i - 1) \o SubSeq(s, i + 1, Len(s))

Deliver(p, m) ==
  /\ received' = [received EXCEPT ![p] = @ + 1]
  /\ delivered' = [delivered EXCEPT ![m.from] = @ \cup {m.number}]

\* _try_skipped finds a key.
DecryptSkipped(p, h, m) ==
  \E i \in Found(end[p], h) :
    /\ IF Opens(end[p].skipped[i].key, h, m)
       THEN /\ end' = [end EXCEPT ![p].skipped = Without(@, i)]
            /\ Deliver(p, m)
       ELSE UNCHANGED <<end, received, delivered>>
    /\ UNCHANGED <<air, sent>>

\* The trial and the commit.
DecryptNext(p, h, m) ==
  LET t == AtMessage(p, end[p], h)
      opened == ~OutOfReach(p, end[p], h) /\ Opens(t.ckr, h, m)
  IN  /\ Found(end[p], h) = {}
      /\ end' = [end EXCEPT ![p] = Settled(@, t, opened)]
      /\ IF opened THEN Deliver(p, m) ELSE UNCHANGED <<received, delivered>>
      /\ UNCHANGED <<air, sent>>

Decrypt(p, h, m) == DecryptSkipped(p, h, m) \/ DecryptNext(p, h, m)

-----------------------------------------------------------------------------
Init ==
  /\ end = [p \in Peers |-> IF p = Initiator THEN InitSender ELSE InitReceiver]
  /\ air = {}
  /\ sent = [p \in Peers |-> 0]
  /\ received = [p \in Peers |-> 0]
  /\ delivered = [p \in Peers |-> {}]

\* Frames that reach p under its tag: what the other end wrote, or a text of
\* the other end behind a header that is not its own.
Next ==
  \E p \in Peers :
    \/ Encrypt(p)
    \/ \E m \in air :
         /\ m.from = Other(p)
         /\ \/ Decrypt(p, m.hdr, m)
            \/ \E h \in OddHeaders : Decrypt(p, h, m)

Spec == Init /\ [][Next]_vars

-----------------------------------------------------------------------------
(***************************************************************************)
(* Properties                                                              *)
(***************************************************************************)

\* Every field of the two ends and of the messages has its type.
TypeOK ==
  /\ end \in [Peers -> DoubleRatchet]
  /\ air \in SUBSET Message
  /\ sent \in [Peers -> Nat]
  /\ received \in [Peers -> Nat]
  /\ delivered \in [Peers -> SUBSET Nat]

\* What the layer above sees is a channel that delivers a message that was
\* sent, and at most once, whatever the mesh repeats and whatever headers
\* arrive (DoubleRatchet.decrypt, Session.decrypt).
AtMostOnce == INSTANCE Channel WITH sent <- sent, delivered <- delivered,
                                   received <- received
ImplementsChannel == AtMostOnce!Spec

\* The ends take turns in one sequence of Diffie-Hellman steps: one root key
\* is the other with one step more, so neither end is ever more than a step
\* ahead (_dh_ratchet), whatever was lost between them.
Lockstep ==
  \E p \in Peers : /\ end[p].rk # << >>
                   /\ end[Other(p)].rk =
                        SubSeq(end[p].rk, 1, Len(end[p].rk) - 1)

\* No two messages of a session, in whatever direction, have one key
\* (_kdf_ck, _dh_ratchet): the nonce is derived from the key.
OneKeyOneMessage == \A m1, m2 \in air : m1.key = m2.key => m1 = m2

\* From the chain key ck the message key mk can be derived.
Yields(ck, mk) == ck # NoChain /\ ck.root = mk.root /\ ck.step <= mk.step

\* Forward secrecy: once a message was opened, neither end holds a key that
\* opens it, and its sender never did from the moment it was sent.
UsedKeysGone ==
  \A m \in air :
    LET s == end[m.from]
        r == end[Other(m.from)]
    IN  /\ ~Yields(s.cks, m.key)
        /\ m.number \in delivered[m.from] =>
             /\ ~Yields(r.ckr, m.key)
             /\ \A i \in DOMAIN r.skipped : r.skipped[i].key # m.key

\* decrypt() would open m now.
CanOpen(p, m) ==
  LET r == end[p]
  IN  \/ \E i \in Found(r, m.hdr) : Opens(r.skipped[i].key, m.hdr, m)
      \/ /\ Found(r, m.hdr) = {}
         /\ ~OutOfReach(p, r, m.hdr)
         /\ Opens(AtMessage(p, r, m.hdr).ckr, m.hdr, m)

\* More than MAX_SKIP messages in a row of a chain, up to m or to the end of the
\* chain before, have not arrived.
BehindGap(r, m) ==
  LET newer == r.dhr = NoPub \/ m.hdr.pub[2] > r.dhr[2]
  IN  \/ newer /\ (m.hdr.pn - r.nr > MaxSkip \/ m.hdr.n > MaxSkip)
      \/ m.hdr.pub = r.dhr /\ m.hdr.n - r.nr > MaxSkip

\* A message that was not opened yet can be opened, whatever has arrived so far
\* and in which order, unless it lies behind too long a gap or its key was
\* evicted (decrypt: nothing that fails to authenticate advances the state).
StillOpens ==
  \A m \in air :
    LET r == end[Other(m.from)]
    IN  m.number \notin delivered[m.from] =>
          \/ CanOpen(Other(m.from), m)
          \/ BehindGap(r, m)
          \/ \E e \in r.evicted : e.key = m.key

\* The key a is of an older message than the key b.
Older(a, b) ==
  \/ Len(a.key.root) < Len(b.key.root)
  \/ a.key.root = b.key.root /\ a.n < b.n

\* Skipped keys are kept within MAX_SKIPPED_KEYS, and an evicted one is older
\* than every one that is kept, also across chains ("Oldest are evicted first").
EvictsOldest ==
  \A p \in Peers :
    /\ Len(end[p].skipped) <= MaxSkippedKeys
    /\ \A a \in end[p].evicted : \A i \in DOMAIN end[p].skipped :
         Older(a, end[p].skipped[i])

\* A key that was used is gone for good, and what MAX_SKIPPED_KEYS throws away
\* is the key that was kept the longest (_try_skipped, _skip_message_keys).
KeysKept == TypeOK /\ UsedKeysGone /\ EvictsOldest

\* At most MAX_SKIP of the keys that an end keeps are of one chain
\* (_skip_message_keys).
CappedPerChain ==
  \A p \in Peers : \A i \in DOMAIN end[p].skipped :
    Cardinality({j \in DOMAIN end[p].skipped :
                   end[p].skipped[j].pub = end[p].skipped[i].pub}) <= MaxSkip
=============================================================================
