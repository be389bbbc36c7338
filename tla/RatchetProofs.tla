--------------------------- MODULE RatchetProofs ---------------------------
(***************************************************************************)
(* What holds of the double ratchet for every MAX_SKIP, every number of    *)
(* skipped keys that are kept, every number of messages and whatever       *)
(* headers arrive.  The two ends walk along one list of chains: chain      *)
(* number c starts from the root key Root(c), the odd ones are the         *)
(* initiator's and the even ones the responder's.                          *)
(***************************************************************************)
EXTENDS Ratchet, SequenceTheorems, TLAPS

-----------------------------------------------------------------------------
(* Sequences *)

\* Newest keeps the end of a sequence.
LEMMA NewestEnd ==
  ASSUME NEW S, NEW s \in Seq(S), NEW k \in Nat
  PROVE  /\ Newest(s, k) \in Seq(S)
         /\ Len(Newest(s, k)) <= k /\ Len(Newest(s, k)) <= Len(s)
         /\ \A i \in 1 .. Len(Newest(s, k)) :
              Newest(s, k)[i] = s[i + (Len(s) - Len(Newest(s, k)))]
<1>1. CASE Len(s) <= k
  BY <1>1 DEF Newest
<1>2. CASE ~(Len(s) <= k)
  <2> DEFINE t == SubSeq(s, Len(s) - k + 1, Len(s))
  <2>1. t \in Seq(S) /\ Len(t) = k /\ \A i \in 1 .. k : t[i] = s[i + (Len(s) - k)]
    BY <1>2
  <2>. QED
    BY <1>2, <2>1 DEF Newest
<1>. QED
  BY <1>1, <1>2

\* Without takes one element out and keeps the order of the others.
LEMMA WithoutOne ==
  ASSUME NEW S, NEW s \in Seq(S), NEW i \in 1 .. Len(s)
  PROVE  /\ Without(s, i) \in Seq(S)
         /\ Len(Without(s, i)) = Len(s) - 1
         /\ \A j \in 1 .. Len(s) - 1 :
              Without(s, i)[j] = IF j < i THEN s[j] ELSE s[j + 1]
<1> DEFINE a == SubSeq(s, 1, i - 1)
           b == SubSeq(s, i + 1, Len(s))
<1>1. /\ a \in Seq(S) /\ Len(a) = i - 1
      /\ \A j \in 1 .. i - 1 : a[j] = s[j]
  OBVIOUS
<1>2. /\ b \in Seq(S) /\ Len(b) = Len(s) - i
      /\ \A j \in 1 .. Len(s) - i : b[j] = s[i + j]
  OBVIOUS
<1>3. Without(s, i) = a \o b
  BY DEF Without
<1> HIDE DEF a, b
<1>4. /\ a \o b \in Seq(S) /\ Len(a \o b) = Len(s) - 1
      /\ \A j \in 1 .. Len(s) - 1 :
           (a \o b)[j] = IF j <= i - 1 THEN a[j] ELSE b[j - (i - 1)]
  <2>1. /\ a \o b \in Seq(S) /\ Len(a \o b) = Len(a) + Len(b)
        /\ \A j \in 1 .. Len(a) + Len(b) :
             (a \o b)[j] = IF j <= Len(a) THEN a[j] ELSE b[j - Len(a)]
    BY <1>1, <1>2, ConcatProperties
  <2>2. Len(a) + Len(b) = Len(s) - 1
    BY <1>1, <1>2
  <2>. QED
    BY <1>1, <2>1, <2>2
<1>5. \A j \in 1 .. Len(s) - 1 : ~(j <= i - 1) =>
        j - (i - 1) \in 1 .. Len(s) - i /\ i + (j - (i - 1)) = j + 1
  OBVIOUS
<1>6. \A j \in 1 .. Len(s) - 1 :
        (a \o b)[j] = IF j < i THEN s[j] ELSE s[j + 1]
  <2> TAKE j \in 1 .. Len(s) - 1
  <2>1. CASE j <= i - 1
    BY <1>1, <1>4, <2>1
  <2>2. CASE ~(j <= i - 1)
    <3>1. (a \o b)[j] = b[j - (i - 1)]
      BY <1>4, <2>2
    <3>2. b[j - (i - 1)] = s[i + (j - (i - 1))]
      BY <1>2, <1>5, <2>2
    <3>. QED
      BY <1>5, <2>2, <3>1, <3>2
  <2>. QED
    BY <2>1, <2>2
<1>. QED
  BY <1>3, <1>4, <1>6

-----------------------------------------------------------------------------
(* The list of chains *)

\* The number of the chain that p sends on with its k-th key pair.
ChainOf(p, k) == IF p = Initiator THEN 2 * k + 1 ELSE 2 * k

\* The Diffie-Hellman result that leads to chain c.
Turn(c) == DH(<<Initiator, (c - 1) \div 2>>, <<Responder, c \div 2>>)

Root(c) == [j \in 1 .. c |-> Turn(j)]

\* The key of chain c after n steps.
Chain(c, n) == [root |-> Root(c), step |-> n]

\* There are two peers.
LEMMA OtherPeer ==
  ASSUME RatchetAssumption, NEW p \in Peers
  PROVE  /\ Other(p) \in Peers /\ Other(p) # p /\ Other(Other(p)) = p
         /\ \A q \in Peers : q # p => q = Other(p)
  BY DEF RatchetAssumption, Peers, Other

\* The chains of a peer are two apart.
LEMMA ChainOfNumbers ==
  ASSUME NEW p \in Peers, NEW k \in Nat
  PROVE  /\ ChainOf(p, k) \in Nat
         /\ ChainOf(p, k + 1) = ChainOf(p, k) + 2
         /\ \A l \in Nat : /\ ChainOf(p, k) = ChainOf(p, l) => k = l
                           /\ k <= l => ChainOf(p, k) <= ChainOf(p, l)
                           /\ k < l => ChainOf(p, k) + 2 <= ChainOf(p, l)
  BY DEF ChainOf

\* The root keys are a list: each is the one before with one step more.
LEMMA RootSteps ==
  ASSUME NEW c \in Nat
  PROVE  /\ Root(c) \in RootKey /\ Len(Root(c)) = c
         /\ KdfRoot(Root(c), Turn(c + 1)) = Root(c + 1)
         /\ \A d \in Nat : Root(c) = Root(d) => c = d
         /\ c > 0 => SubSeq(Root(c), 1, c - 1) = Root(c - 1)
<1>1. \A j \in 1 .. c : Turn(j) \in SUBSET Pub
  BY DEF Turn, DH, Pub, Peers
<1>2. Root(c) \in RootKey /\ Len(Root(c)) = c
  BY <1>1 DEF Root, RootKey
<1>3. \A d \in Nat : Len(Root(d)) = d
  BY DEF Root
<1>4. KdfRoot(Root(c), Turn(c + 1)) = Root(c + 1)
  BY DEF KdfRoot, Root
<1>5. c > 0 => SubSeq(Root(c), 1, c - 1) = Root(c - 1)
  BY DEF Root
<1>. QED
  BY <1>2, <1>3, <1>4, <1>5

\* A chain begins with its first key.
LEMMA ChainType ==
  ASSUME NEW c \in Nat, NEW n \in Nat
  PROVE  /\ Chain(c, n) \in ChainKey /\ FirstKey(Root(c)) = Chain(c, 0)
         /\ Chain(c, n).root = Root(c) /\ Chain(c, n).step = n
  BY RootSteps DEF Chain, ChainKey, FirstKey

\* A chain key steps along its chain.
LEMMA ChainStep ==
  ASSUME NEW c \in Nat, NEW n \in Nat, NEW k \in Nat
  PROVE  Stepped(Chain(c, n), k) = Chain(c, n + k)
  BY DEF Stepped, Chain

\* No two places in the chains have the same key.
LEMMA ChainSame ==
  ASSUME NEW c \in Nat, NEW n \in Nat, NEW d \in Nat, NEW m \in Nat,
         Chain(c, n) = Chain(d, m)
  PROVE  c = d /\ n = m
<1>1. Root(c) = Root(d) /\ n = m
  BY DEF Chain
<1>. QED
  BY <1>1, RootSteps

\* The two results of a turn of the ratchet are the next two of the list.
LEMMA Turns ==
  ASSUME RatchetAssumption, NEW p \in Peers, NEW d \in Nat, NEW k \in Nat,
         ChainOf(Other(p), k) = ChainOf(p, d) + 1
  PROVE  /\ DH(<<p, d>>, <<Other(p), k>>) = Turn(ChainOf(p, d) + 1)
         /\ DH(<<p, d + 1>>, <<Other(p), k>>) = Turn(ChainOf(p, d) + 2)
<1>1. CASE p = Initiator
  <2>1. k = d + 1 /\ Other(p) = Responder /\ ChainOf(p, d) = 2 * d + 1
    BY <1>1 DEF ChainOf, Other, RatchetAssumption
  <2>2. (2 * d + 1) \div 2 = d /\ (2 * d + 2) \div 2 = d + 1
        /\ (2 * d + 3) \div 2 = d + 1
    OBVIOUS
  <2>. QED
    BY <1>1, <2>1, <2>2 DEF Turn, DH
<1>2. CASE p = Responder
  <2>1. k = d /\ Other(p) = Initiator /\ ChainOf(p, d) = 2 * d
    BY <1>2 DEF ChainOf, Other, RatchetAssumption
  <2>2. (2 * d) \div 2 = d /\ (2 * d + 1) \div 2 = d /\ (2 * d + 2) \div 2 = d + 1
    OBVIOUS
  <2>. QED
    BY <1>2, <2>1, <2>2 DEF Turn, DH
<1>. QED
  BY <1>1, <1>2 DEF Peers

-----------------------------------------------------------------------------
(* Skipped keys *)

\* The entry e keeps the key of a message of q, of a chain before c or of chain c
\* before its n-th message.
Behind(q, e, c, n) ==
  /\ e.pub[1] = q
  /\ e.key = Chain(ChainOf(q, e.pub[2]), e.n)
  /\ \/ ChainOf(q, e.pub[2]) < c
     \/ ChainOf(q, e.pub[2]) = c /\ e.n < n

\* What the ratchet r, which receives on chain c of q, keeps and threw away: keys
\* it has passed, in the order of their messages, the oldest thrown away.
Kept(q, r, c) ==
  /\ \A i \in DOMAIN r.skipped : Behind(q, r.skipped[i], c, r.nr)
  /\ \A e \in r.evicted : Behind(q, e, c, r.nr)
  /\ \A i, j \in DOMAIN r.skipped : i < j => Older(r.skipped[i], r.skipped[j])
  /\ \A e \in r.evicted : \A i \in DOMAIN r.skipped : Older(e, r.skipped[i])
  /\ Len(r.skipped) <= MaxSkippedKeys

Holds(r, key) == \E i \in DOMAIN r.skipped : r.skipped[i].key = key
Lost(r, key) == \E e \in r.evicted : e.key = key

\* Nothing but its receiving chain and its skipped keys tells t from r.
SameElse(r, t) ==
  /\ t.dhs = r.dhs /\ t.dhr = r.dhr /\ t.rk = r.rk /\ t.cks = r.cks
  /\ t.ns = r.ns /\ t.pn = r.pn

\* A key of an earlier message of q is older.
LEMMA BehindOlder ==
  ASSUME NEW q \in Peers, NEW c \in Nat, NEW n \in Nat,
         NEW a \in Skipped, NEW b \in Skipped, Behind(q, a, c, n),
         b.key = Chain(c, b.n), n <= b.n
  PROVE  Older(a, b)
<1>1. a.pub[2] \in Nat /\ a.n \in Nat /\ b.n \in Nat
  BY DEF Skipped, Pub
<1>2. ChainOf(q, a.pub[2]) \in Nat
  BY <1>1, ChainOfNumbers
<1>3. a.key.root = Root(ChainOf(q, a.pub[2])) /\ b.key.root = Root(c)
  BY DEF Behind, Chain
<1>4. Len(a.key.root) = ChainOf(q, a.pub[2]) /\ Len(b.key.root) = c
  BY <1>2, <1>3, RootSteps
<1>5. CASE ChainOf(q, a.pub[2]) < c
  BY <1>4, <1>5 DEF Older
<1>6. CASE ChainOf(q, a.pub[2]) = c /\ a.n < n
  BY <1>1, <1>3, <1>6 DEF Older
<1>. QED
  BY <1>5, <1>6 DEF Behind

\* What was behind a place is behind every later one.
LEMMA BehindLater ==
  ASSUME NEW q \in Peers, NEW c \in Nat, NEW n \in Nat, NEW l \in Nat,
         n <= l, NEW e \in Skipped, Behind(q, e, c, n)
  PROVE  Behind(q, e, c, l)
  BY DEF Behind, Skipped

\* A sequence that grows at its end and is cut to k from its beginning.
LEMMA Cut ==
  ASSUME NEW S, NEW s \in Seq(S), NEW u \in Seq(S), NEW k \in Nat
  PROVE  LET a == s \o u
             z == Newest(a, k)
             g == Len(a) - Len(z)
         IN  /\ a \in Seq(S) /\ z \in Seq(S)
             /\ Len(a) = Len(s) + Len(u)
             /\ Len(z) <= k /\ g \in Nat
             /\ \A i \in 1 .. Len(s) : a[i] = s[i]
             /\ \A i \in 1 .. Len(u) : a[Len(s) + i] = u[i]
             /\ \A i \in 1 .. Len(z) : z[i] = a[i + g]
             /\ \A j \in 1 .. g : j \in 1 .. Len(a)
<1> DEFINE a == s \o u
           z == Newest(a, k)
           g == Len(a) - Len(z)
<1>1. /\ a \in Seq(S) /\ Len(a) = Len(s) + Len(u)
      /\ \A i \in 1 .. Len(s) + Len(u) :
           a[i] = IF i <= Len(s) THEN s[i] ELSE u[i - Len(s)]
  BY ConcatProperties
<1>2. /\ z \in Seq(S) /\ Len(z) <= k /\ Len(z) <= Len(a)
      /\ \A i \in 1 .. Len(z) : z[i] = a[i + g]
  BY <1>1, NewestEnd
<1> HIDE DEF a, z
<1>3. Len(s) \in Nat /\ Len(u) \in Nat /\ Len(z) \in Nat /\ g \in Nat
  BY <1>1, <1>2
<1> HIDE DEF g
<1>4. \A i \in 1 .. Len(s) : a[i] = s[i]
  BY <1>1, <1>3
<1>5. ASSUME NEW i \in 1 .. Len(u)
      PROVE  a[Len(s) + i] = u[i]
  <2>1. Len(s) + i \in 1 .. Len(s) + Len(u) /\ ~(Len(s) + i <= Len(s))
        /\ (Len(s) + i) - Len(s) = i
    BY <1>3
  <2>. QED
    BY <1>1, <2>1
<1>6. \A j \in 1 .. g : j \in 1 .. Len(a)
  BY <1>1, <1>2, <1>3 DEF g
<1>. QED
  BY <1>1, <1>2, <1>3, <1>4, <1>5, <1>6 DEF a, z, g

\* The keys of chain c from nr to until are put behind those that r kept, and the
\* oldest of all are thrown away.
Pushed(r, t, c, until) ==
  \E all \in Seq(Skipped), gone \in Nat :
    /\ gone + Len(t.skipped) = Len(all)
    /\ Len(all) = Len(r.skipped) + (until - r.nr)
    /\ \A i \in 1 .. Len(t.skipped) : t.skipped[i] = all[i + gone]
    /\ t.evicted = r.evicted \cup {all[i] : i \in 1 .. gone}
    /\ \A i \in 1 .. Len(r.skipped) : all[i] = r.skipped[i]
    /\ \A i \in 1 .. until - r.nr :
         /\ all[Len(r.skipped) + i].pub = r.dhr
         /\ all[Len(r.skipped) + i].n = r.nr + i - 1
         /\ all[Len(r.skipped) + i].key = Chain(c, r.nr + i - 1)

\* What _skip_message_keys does.
LEMMA Skipping ==
  ASSUME RatchetAssumption, NEW r \in DoubleRatchet,
         NEW c \in Nat, NEW until \in Nat, r.nr < until,
         r.ckr = Chain(c, r.nr), r.ckr # NoChain, r.dhr \in Pub
  PROVE  LET t == Skip(r, until)
         IN  /\ t \in DoubleRatchet /\ SameElse(r, t)
             /\ t.nr = until /\ t.ckr = Chain(c, until)
             /\ Len(t.skipped) <= MaxSkippedKeys
             /\ Pushed(r, t, c, until)
<1> DEFINE t == Skip(r, until)
           new == [i \in 1 .. until - r.nr |->
                     [pub |-> r.dhr, n |-> r.nr + i - 1,
                      key |-> Stepped(r.ckr, i - 1)]]
           all == r.skipped \o new
           kept == Newest(all, MaxSkippedKeys)
           gone == Len(all) - Len(kept)
           thrown == {all[i] : i \in 1 .. gone}
           ck == Stepped(r.ckr, until - r.nr)
<1>1. /\ r.nr \in Nat /\ MaxSkippedKeys \in Nat
      /\ r.skipped \in Seq(Skipped) /\ r.evicted \in SUBSET Skipped
  BY DEF DoubleRatchet, RatchetAssumption
<1>2. /\ new \in Seq(Skipped) /\ Len(new) = until - r.nr
      /\ \A i \in 1 .. until - r.nr :
           /\ new[i].pub = r.dhr /\ new[i].n = r.nr + i - 1
           /\ new[i].key = Chain(c, r.nr + i - 1)
  <2>1. ASSUME NEW i \in 1 .. until - r.nr
        PROVE  /\ r.nr + i - 1 \in Nat
               /\ Stepped(r.ckr, i - 1) = Chain(c, r.nr + i - 1)
               /\ Chain(c, r.nr + i - 1) \in ChainKey
    <3>1. i - 1 \in Nat /\ r.nr + i - 1 \in Nat /\ r.nr + (i - 1) = r.nr + i - 1
      BY <1>1
    <3>2. Stepped(Chain(c, r.nr), i - 1) = Chain(c, r.nr + (i - 1))
      <4>1. \A a, b \in Nat : Stepped(Chain(c, a), b) = Chain(c, a + b)
        BY ChainStep
      <4>. QED
        BY <1>1, <3>1, <4>1
    <3>3. Chain(c, r.nr + i - 1) \in ChainKey
      BY <3>1, ChainType
    <3>. QED
      BY <3>1, <3>2, <3>3
  <2>2. until - r.nr \in Nat
    BY <1>1
  <2>3. \A i \in 1 .. until - r.nr :
          /\ new[i].pub = r.dhr /\ new[i].n = r.nr + i - 1
          /\ new[i].key = Chain(c, r.nr + i - 1) /\ new[i] \in Skipped
    BY <1>1, <2>1 DEF Skipped
  <2>. QED
    <3> HIDE DEF new
    <3>1. \A i \in 1 .. until - r.nr : new[i] \in Skipped
      BY <2>3
    <3>2. DOMAIN new = 1 .. until - r.nr /\ new = [i \in DOMAIN new |-> new[i]]
      BY DEF new
    <3>3. new \in [1 .. until - r.nr -> Skipped]
      BY <3>1, <3>2
    <3>4. ASSUME NEW N \in Nat, NEW f \in [1 .. N -> Skipped]
          PROVE  f \in Seq(Skipped) /\ Len(f) = N
      OBVIOUS
    <3>5. new \in Seq(Skipped) /\ Len(new) = until - r.nr
      BY <2>2, <3>3, <3>4
    <3>. QED
      BY <2>3, <3>5
<1>3. t = [r EXCEPT !.skipped = kept, !.evicted = @ \cup thrown,
                    !.ckr = Stepped(@, until - r.nr), !.nr = until]
  <2>1. ~(r.ckr = NoChain \/ until <= r.nr)
    BY <1>1
  <2>. QED
    BY <2>1, Zenon DEF Skip
<1>4. ck = Chain(c, until) /\ ck \in ChainKey
  <2>1. r.nr + (until - r.nr) = until /\ until - r.nr \in Nat
    BY <1>1
  <2>2. Stepped(Chain(c, r.nr), until - r.nr) = Chain(c, r.nr + (until - r.nr))
    <3>1. \A i, j \in Nat : Stepped(Chain(c, i), j) = Chain(c, i + j)
      BY ChainStep
    <3>2. r.nr \in Nat
      BY <1>1
    <3>. QED
      BY <2>1, <3>1, <3>2
  <2>3. ck = Chain(c, until)
    BY <2>1, <2>2, Zenon
  <2>. QED
    BY <2>3, ChainType
<1> HIDE DEF new
<1>5. /\ all \in Seq(Skipped) /\ kept \in Seq(Skipped)
      /\ Len(all) = Len(r.skipped) + Len(new)
      /\ Len(kept) <= MaxSkippedKeys /\ gone \in Nat
      /\ \A i \in 1 .. Len(r.skipped) : all[i] = r.skipped[i]
      /\ \A i \in 1 .. Len(new) : all[Len(r.skipped) + i] = new[i]
      /\ \A i \in 1 .. Len(kept) : kept[i] = all[i + gone]
      /\ \A j \in 1 .. gone : j \in 1 .. Len(all)
  BY <1>1, <1>2, Cut, Zenon
<1> HIDE DEF all
<1>6. thrown \in SUBSET Skipped
  BY <1>5
<1> HIDE DEF kept
<1>7. gone + Len(kept) = Len(all)
  BY <1>5
<1> HIDE DEF gone
<1> HIDE DEF thrown
<1>8. /\ t.skipped = kept /\ t.evicted = r.evicted \cup thrown
      /\ t.ckr = ck /\ t.nr = until /\ SameElse(r, t)
      /\ t \in DoubleRatchet
  <2> HIDE DEF t, ck
  <2>1. t = [r EXCEPT !.skipped = kept, !.evicted = r.evicted \cup thrown,
                      !.ckr = ck, !.nr = until]
    <3>1. r = [r EXCEPT !.ckr = r.ckr]
      BY DEF DoubleRatchet
    <3>. QED
      BY <1>3 DEF ck, DoubleRatchet
  <2>2. r.evicted \cup thrown \in SUBSET Skipped
    BY <1>1, <1>6
  <2>. QED
    BY <1>4, <1>5, <2>1, <2>2 DEF DoubleRatchet, SameElse
<1>9. /\ gone + Len(t.skipped) = Len(all)
      /\ Len(all) = Len(r.skipped) + (until - r.nr)
      /\ \A i \in 1 .. Len(t.skipped) : t.skipped[i] = all[i + gone]
      /\ t.evicted = r.evicted \cup {all[i] : i \in 1 .. gone}
      /\ \A i \in 1 .. Len(r.skipped) : all[i] = r.skipped[i]
      /\ \A i \in 1 .. until - r.nr :
           /\ all[Len(r.skipped) + i].pub = r.dhr
           /\ all[Len(r.skipped) + i].n = r.nr + i - 1
           /\ all[Len(r.skipped) + i].key = Chain(c, r.nr + i - 1)
  <2> HIDE DEF t
  <2>1. /\ gone + Len(t.skipped) = Len(all)
        /\ Len(all) = Len(r.skipped) + (until - r.nr)
    BY <1>2, <1>5, <1>7, <1>8
  <2>2. \A i \in 1 .. Len(t.skipped) : t.skipped[i] = all[i + gone]
    BY <1>5, <1>8
  <2>3. t.evicted = r.evicted \cup {all[i] : i \in 1 .. gone}
    BY <1>8 DEF thrown
  <2>4. ASSUME NEW i \in 1 .. until - r.nr
        PROVE  /\ all[Len(r.skipped) + i].pub = r.dhr
               /\ all[Len(r.skipped) + i].n = r.nr + i - 1
               /\ all[Len(r.skipped) + i].key = Chain(c, r.nr + i - 1)
    <3>1. i \in 1 .. Len(new) /\ all[Len(r.skipped) + i] = new[i]
      BY <1>2, <1>5
    <3>. QED
      BY <1>2, <3>1
  <2>. QED
    BY <1>5, <2>1, <2>2, <2>3, <2>4
<1>. QED
  <2> HIDE DEF t
  <2>1. Len(t.skipped) <= MaxSkippedKeys /\ t.ckr = Chain(c, until)
    BY <1>4, <1>5, <1>8
  <2>2. Pushed(r, t, c, until)
    BY <1>5, <1>9 DEF Pushed
  <2>. QED
    BY <1>8, <2>1, <2>2 DEF t

\* _skip_message_keys: the keys from nr to until join the ones that are kept,
\* and too many push out the oldest.
LEMMA SkipForward ==
  ASSUME RatchetAssumption, NEW q \in Peers, NEW r \in DoubleRatchet,
         NEW c \in Nat, NEW until \in Nat, r.nr < until,
         r.ckr = Chain(c, r.nr), r.ckr # NoChain, r.dhr \in Pub, r.dhr[1] = q,
         ChainOf(q, r.dhr[2]) = c, Kept(q, r, c)
  PROVE  LET t == Skip(r, until)
         IN  /\ t \in DoubleRatchet /\ SameElse(r, t)
             /\ t.nr = until /\ t.ckr = Chain(c, until)
             /\ Kept(q, t, c)
             /\ \A key : Holds(r, key) => Holds(t, key) \/ Lost(t, key)
             /\ \A key : Lost(r, key) => Lost(t, key)
             /\ \A n \in r.nr .. until - 1 :
                  Holds(t, Chain(c, n)) \/ Lost(t, Chain(c, n))
             /\ \A key : Holds(t, key) =>
                  Holds(r, key) \/ \E n \in r.nr .. until - 1 : key = Chain(c, n)
<1> DEFINE t == Skip(r, until)
           old == Len(r.skipped)
           N == until - r.nr
<1>1. /\ t \in DoubleRatchet /\ SameElse(r, t)
      /\ t.nr = until /\ t.ckr = Chain(c, until)
      /\ Len(t.skipped) <= MaxSkippedKeys
  BY Skipping
<1>2. PICK all \in Seq(Skipped), gone \in Nat :
        /\ gone + Len(t.skipped) = Len(all)
        /\ Len(all) = old + N
        /\ \A i \in 1 .. Len(t.skipped) : t.skipped[i] = all[i + gone]
        /\ t.evicted = r.evicted \cup {all[i] : i \in 1 .. gone}
        /\ \A i \in 1 .. old : all[i] = r.skipped[i]
        /\ \A i \in 1 .. N :
             /\ all[old + i].pub = r.dhr
             /\ all[old + i].n = r.nr + i - 1
             /\ all[old + i].key = Chain(c, r.nr + i - 1)
  <2>1. Pushed(r, t, c, until)
    BY Skipping
  <2>. QED
    BY <2>1 DEF Pushed
<1> HIDE DEF t
<1>3. /\ r.nr \in Nat /\ N \in Nat /\ old \in Nat /\ DOMAIN r.skipped = 1 .. old
      /\ r.evicted \in SUBSET Skipped
      /\ Len(t.skipped) \in Nat /\ DOMAIN t.skipped = 1 .. Len(t.skipped)
  <2>1. r.nr \in Nat /\ r.skipped \in Seq(Skipped) /\ r.evicted \in SUBSET Skipped
    BY DEF DoubleRatchet
  <2>2. N \in Nat
    BY <2>1
  <2>3. \A u \in Seq(Skipped) : DOMAIN u = 1 .. Len(u) /\ Len(u) \in Nat
    OBVIOUS
  <2>4. t.skipped \in Seq(Skipped)
    BY <1>1 DEF DoubleRatchet
  <2> HIDE DEF N
  <2>. QED
    BY <2>1, <2>2, <2>3, <2>4
<1>4. ASSUME NEW i \in 1 .. N
      PROVE  r.nr + i - 1 \in r.nr .. until - 1 /\ r.nr + i - 1 \in Nat
  <2>1. r.nr \in Nat /\ i \in 1 .. until - r.nr
    BY <1>3 DEF N
  <2>. QED
    BY <2>1
<1> DEFINE size == Len(t.skipped)
<1> HIDE DEF old, N, size
<1>5. \A i \in 1 .. old : i \in 1 .. Len(all)
  BY <1>2, <1>3
<1>6. \A i \in 1 .. N : old + i \in 1 .. Len(all)
  BY <1>2, <1>3
<1>7. ASSUME NEW i \in 1 .. Len(all)
      PROVE  i \in 1 .. old \/ \E k \in 1 .. N : i = old + k
  <2>1. i \notin 1 .. old => i - old \in 1 .. N /\ i = old + (i - old)
    BY <1>2, <1>3
  <2>. QED
    BY <2>1
<1>8. \A i \in 1 .. gone : i \in 1 .. Len(all)
  BY <1>2, <1>3 DEF size
<1>9. \A i \in 1 .. size : i + gone \in 1 .. Len(all)
  BY <1>2, <1>3 DEF size
<1>10. ASSUME NEW i \in 1 .. Len(all)
       PROVE  i \in 1 .. gone \/ \E k \in 1 .. size : i = k + gone
  <2>1. i \notin 1 .. gone => i - gone \in 1 .. size /\ i = (i - gone) + gone
    BY <1>2, <1>3 DEF size
  <2>. QED
    BY <2>1
<1>11. \A i \in 1 .. Len(all) : all[i] \in Skipped
  BY <1>2
<1>12. ASSUME NEW i \in 1 .. N
       PROVE  /\ all[old + i] \in Skipped /\ all[old + i].pub = r.dhr
              /\ all[old + i].n = r.nr + i - 1
              /\ all[old + i].key = Chain(c, all[old + i].n)
              /\ all[old + i].n \in r.nr .. until - 1
              /\ r.nr <= all[old + i].n /\ all[old + i].n < until
  <2>1. r.nr + i - 1 \in r.nr .. until - 1
    BY <1>4
  <2>2. r.nr <= r.nr + i - 1 /\ r.nr + i - 1 < until
    BY <1>3, <2>1
  <2>. QED
    BY <1>2, <1>6, <1>11, <2>1, <2>2
<1>13. \A i \in 1 .. Len(all) : Behind(q, all[i], c, until)
  <2>1. ASSUME NEW i \in 1 .. old PROVE Behind(q, all[i], c, until)
    <3>1. all[i] = r.skipped[i] /\ all[i] \in Skipped /\ i \in DOMAIN r.skipped
      BY <1>2, <1>3, <1>5, <1>11
    <3>2. Behind(q, all[i], c, r.nr)
      BY <3>1 DEF Kept
    <3>. QED
      BY <1>3, <3>1, <3>2, BehindLater
  <2>2. ASSUME NEW i \in 1 .. N PROVE Behind(q, all[old + i], c, until)
    BY <1>12 DEF Behind
  <2>. QED
    BY <1>7, <2>1, <2>2
<1>14. ASSUME NEW e \in Skipped, Behind(q, e, c, r.nr), NEW i \in 1 .. N
       PROVE  Older(e, all[old + i])
  BY <1>3, <1>12, <1>14, BehindOlder
<1>15. ASSUME NEW e \in r.evicted, NEW i \in 1 .. Len(all)
       PROVE  Older(e, all[i])
  <2>1. e \in Skipped /\ Behind(q, e, c, r.nr)
    BY <1>3 DEF Kept
  <2>2. CASE i \in 1 .. old
    BY <1>2, <1>3, <2>2 DEF Kept
  <2>3. CASE \E k \in 1 .. N : i = old + k
    BY <1>14, <2>1, <2>3
  <2>. QED
    BY <1>7, <2>2, <2>3
<1>16. ASSUME NEW i \in 1 .. Len(all), NEW j \in 1 .. Len(all), i < j
       PROVE  Older(all[i], all[j])
  <2>1. CASE i \in 1 .. old /\ j \in 1 .. old
    BY <1>2, <1>3, <1>16, <2>1 DEF Kept
  <2>2. CASE i \in 1 .. old /\ \E k \in 1 .. N : j = old + k
    <3>1. all[i] \in Skipped /\ Behind(q, all[i], c, r.nr)
      BY <1>2, <1>3, <1>11, <2>2 DEF Kept
    <3>. QED
      BY <1>14, <2>2, <3>1
  <2>3. CASE (\E k \in 1 .. N : i = old + k) /\ (\E k \in 1 .. N : j = old + k)
    <3>1. PICK k \in 1 .. N : i = old + k
      BY <2>3
    <3>2. PICK l \in 1 .. N : j = old + l
      BY <2>3
    <3>3. all[i].n = r.nr + k - 1 /\ all[j].n = r.nr + l - 1 /\ k < l
      BY <1>2, <1>3, <1>16, <3>1, <3>2
    <3>4. all[i].n < all[j].n
      BY <1>3, <3>3
    <3>5. all[i].key.root = Root(c) /\ all[j].key.root = Root(c)
      <4>1. all[i].key = Chain(c, all[i].n) /\ all[j].key = Chain(c, all[j].n)
        BY <1>12, <3>1, <3>2
      <4>. QED
        BY <4>1 DEF Chain
    <3>. QED
      BY <3>4, <3>5 DEF Older
  <2>4. ~(j \in 1 .. old /\ \E k \in 1 .. N : i = old + k)
    BY <1>3, <1>16
  <2>. QED
    BY <1>7, <2>1, <2>2, <2>3, <2>4
<1>17. Kept(q, t, c)
  <2>1. \A i \in DOMAIN t.skipped : Behind(q, t.skipped[i], c, t.nr)
    BY <1>1, <1>2, <1>3, <1>9, <1>13 DEF size
  <2>2. \A e \in t.evicted : Behind(q, e, c, t.nr)
    <3>1. \A e \in r.evicted : Behind(q, e, c, until)
      BY <1>3, BehindLater DEF Kept
    <3>. QED
      BY <1>1, <1>2, <1>8, <1>13, <3>1
  <2>3. ASSUME NEW i \in DOMAIN t.skipped, NEW j \in DOMAIN t.skipped, i < j
        PROVE  Older(t.skipped[i], t.skipped[j])
    <3>1. i \in 1 .. size /\ j \in 1 .. size /\ i + gone < j + gone
      BY <1>3, <2>3 DEF size
    <3>. QED
      BY <1>2, <1>9, <1>16, <3>1 DEF size
  <2>4. ASSUME NEW e \in t.evicted, NEW i \in DOMAIN t.skipped
        PROVE  Older(e, t.skipped[i])
    <3>1. i \in 1 .. size /\ t.skipped[i] = all[i + gone] /\ i + gone \in 1 .. Len(all)
      BY <1>2, <1>3, <1>9 DEF size
    <3>2. CASE e \in r.evicted
      BY <1>15, <3>1, <3>2
    <3>3. CASE \E k \in 1 .. gone : e = all[k]
      <4>1. PICK k \in 1 .. gone : e = all[k]
        BY <3>3
      <4>2. k \in 1 .. Len(all) /\ k < i + gone
        BY <1>3, <1>8, <3>1 DEF size
      <4>. QED
        BY <1>16, <3>1, <4>1, <4>2
    <3>. QED
      BY <1>2, <3>2, <3>3
  <2>. QED
    BY <1>1, <2>1, <2>2, <2>3, <2>4 DEF Kept
<1>18. ASSUME NEW i \in 1 .. Len(all)
       PROVE  Holds(t, all[i].key) \/ Lost(t, all[i].key)
  <2>1. CASE i \in 1 .. gone
    <3>1. all[i] \in t.evicted
      BY <1>2, <2>1
    <3>. QED
      BY <3>1 DEF Lost
  <2>2. CASE \E k \in 1 .. size : i = k + gone
    <3>1. PICK k \in 1 .. size : i = k + gone
      BY <2>2
    <3>2. k \in DOMAIN t.skipped /\ t.skipped[k] = all[i]
      BY <1>2, <1>3, <3>1 DEF size
    <3>. QED
      BY <3>2 DEF Holds
  <2>. QED
    BY <1>10, <2>1, <2>2
<1>19. ASSUME NEW key, Holds(r, key) PROVE Holds(t, key) \/ Lost(t, key)
  <2>1. PICK i \in 1 .. old : r.skipped[i].key = key
    BY <1>3, <1>19 DEF Holds
  <2>2. i \in 1 .. Len(all) /\ all[i].key = key
    BY <1>2, <1>5, <2>1
  <2>. QED
    BY <1>18, <2>2
<1>20. ASSUME NEW key, Lost(r, key) PROVE Lost(t, key)
  BY <1>2, <1>20 DEF Lost
<1>21. ASSUME NEW n \in r.nr .. until - 1
       PROVE  Holds(t, Chain(c, n)) \/ Lost(t, Chain(c, n))
  <2> DEFINE k == n - r.nr + 1
  <2>1. k \in 1 .. N /\ r.nr + k - 1 = n
    <3>1. \A a, b \in Nat : \A i \in a .. b - 1 :
            i - a + 1 \in 1 .. b - a /\ a + (i - a + 1) - 1 = i
      OBVIOUS
    <3>. QED
      BY <1>3, <3>1 DEF N
  <2>2. all[old + k].key = Chain(c, n) /\ old + k \in 1 .. Len(all)
    BY <1>2, <1>6, <2>1
  <2>. QED
    BY <1>18, <2>2
<1>22. ASSUME NEW key, Holds(t, key)
       PROVE  Holds(r, key) \/ \E n \in r.nr .. until - 1 : key = Chain(c, n)
  <2>1. PICK i \in 1 .. size : t.skipped[i].key = key
    BY <1>3, <1>22 DEF Holds, size
  <2>2. i + gone \in 1 .. Len(all) /\ all[i + gone].key = key
    BY <1>2, <1>9, <2>1 DEF size
  <2>3. CASE i + gone \in 1 .. old
    <3>1. r.skipped[i + gone].key = key /\ i + gone \in DOMAIN r.skipped
      BY <1>2, <1>3, <2>2, <2>3
    <3>. QED
      BY <3>1 DEF Holds
  <2>4. CASE \E k \in 1 .. N : i + gone = old + k
    BY <1>12, <2>2, <2>4
  <2>. QED
    BY <1>7, <2>2, <2>3, <2>4
<1>. QED
  BY <1>1, <1>17, <1>19, <1>20, <1>21, <1>22 DEF t

-----------------------------------------------------------------------------
(* One end *)

\* The number of the last chain of the end p with the ratchet r: the one it
\* sends on.
LastOf(p, r) == ChainOf(p, r.dhs)

\* r sends on chain l.
Sending(r, l) ==
  /\ r.rk = Root(l)
  /\ r.cks = IF l = 0 THEN NoChain ELSE Chain(l, r.ns)
  /\ l = 0 => r.ns = 0
  /\ l <= 2 => r.pn = 0

\* r receives on the chain before l, which is of q.
Receiving(q, r, l) ==
  /\ IF l = 0 THEN r.dhr = NoPub
     ELSE r.dhr \in Pub /\ r.dhr[1] = q /\ ChainOf(q, r.dhr[2]) = l - 1
  /\ r.ckr = IF l <= 1 THEN NoChain ELSE Chain(l - 1, r.nr)
  /\ l <= 1 => r.nr = 0

EndOK(p, r) ==
  /\ Sending(r, LastOf(p, r))
  /\ Receiving(Other(p), r, LastOf(p, r))
  /\ Kept(Other(p), r, LastOf(p, r) - 1)

\* t went on from r along chain c: what r kept is kept or thrown away, and so is
\* every key between; nothing else is kept.
WentOn(r, t, c) ==
  /\ \A key : Holds(r, key) => Holds(t, key) \/ Lost(t, key)
  /\ \A key : Lost(r, key) => Lost(t, key)
  /\ \A n \in r.nr .. t.nr - 1 : Holds(t, Chain(c, n)) \/ Lost(t, Chain(c, n))
  /\ \A key : Holds(t, key) =>
       Holds(r, key) \/ \E n \in r.nr .. t.nr - 1 : key = Chain(c, n)

\* Encrypt: the sender goes a step along its chain.
LEMMA EncryptStep ==
  ASSUME RatchetAssumption, NoValueAssumption, NEW p \in Peers,
         NEW r \in DoubleRatchet, EndOK(p, r), r.cks # NoChain
  PROVE  LET t == Encrypted(r)
         IN  /\ t \in DoubleRatchet /\ EndOK(p, t) /\ LastOf(p, r) >= 1
             /\ t.dhs = r.dhs /\ t.ns = r.ns + 1 /\ t.pn = r.pn /\ t.nr = r.nr
             /\ t.skipped = r.skipped /\ t.evicted = r.evicted
             /\ t.dhr = r.dhr /\ t.ckr = r.ckr
<1> DEFINE t == Encrypted(r)
           l == LastOf(p, r)
<1>1. r.dhs \in Nat /\ r.ns \in Nat /\ l \in Nat
  BY ChainOfNumbers DEF DoubleRatchet, LastOf
<1>2. l # 0 /\ r.cks = Chain(l, r.ns)
  BY DEF EndOK, Sending
<1>3. Stepped(r.cks, 1) = Chain(l, r.ns + 1) /\ Chain(l, r.ns + 1) \in ChainKey
  <2> HIDE DEF l
  <2>1. Stepped(Chain(l, r.ns), 1) = Chain(l, r.ns + 1)
    BY <1>1 DEF Stepped, Chain
  <2>. QED
    BY <1>1, <1>2, <2>1, ChainType
<1> HIDE DEF l
<1>4. t = [r EXCEPT !.cks = Chain(l, r.ns + 1), !.ns = r.ns + 1]
  BY <1>3 DEF Encrypted
<1> HIDE DEF t
<1>5. /\ t \in DoubleRatchet /\ t.cks = Chain(l, r.ns + 1) /\ t.ns = r.ns + 1
      /\ t.dhs = r.dhs /\ t.pn = r.pn /\ t.nr = r.nr /\ t.rk = r.rk
      /\ t.skipped = r.skipped /\ t.evicted = r.evicted
      /\ t.dhr = r.dhr /\ t.ckr = r.ckr
  <2> DEFINE ck == Chain(l, r.ns + 1)
             k == r.ns + 1
  <2>1. ck \in ChainKey /\ k \in Nat /\ t = [r EXCEPT !.cks = ck, !.ns = k]
    BY <1>1, <1>3, <1>4
  <2> HIDE DEF ck, k
  <2>2. t \in DoubleRatchet
    BY <2>1 DEF DoubleRatchet
  <2>3. /\ t.cks = ck /\ t.ns = k
        /\ t.dhs = r.dhs /\ t.pn = r.pn /\ t.nr = r.nr /\ t.rk = r.rk
        /\ t.skipped = r.skipped /\ t.evicted = r.evicted
        /\ t.dhr = r.dhr /\ t.ckr = r.ckr
    BY <2>1 DEF DoubleRatchet
  <2>. QED
    BY <2>2, <2>3 DEF ck, k
<1>6. LastOf(p, t) = l
  BY <1>5 DEF LastOf, l
<1>7. EndOK(p, r) <=> Sending(r, l) /\ Receiving(Other(p), r, l) /\ Kept(Other(p), r, l - 1)
  BY DEF EndOK, l
<1>8. Sending(t, l)
  BY <1>2, <1>5, <1>7 DEF Sending
<1>9. Receiving(Other(p), t, l)
  BY <1>5, <1>7 DEF Receiving
<1>10. Kept(Other(p), t, l - 1)
  BY <1>5, <1>7 DEF Kept
<1>. QED
  BY <1>1, <1>2, <1>5, <1>6, <1>8, <1>9, <1>10 DEF EndOK, t, l

\* What _skip_message_keys leaves, whatever the header asks for.
AfterSkip(p, r, until, t) ==
  /\ t \in DoubleRatchet /\ EndOK(p, t) /\ SameElse(r, t)
  /\ r.ckr = NoChain \/ until <= r.nr => t.nr = r.nr
  /\ r.ckr # NoChain /\ r.nr < until => t.nr = until
  /\ WentOn(r, t, LastOf(p, r) - 1)

\* _skip_message_keys keeps what is true of an end.
LEMMA SkipStep ==
  ASSUME RatchetAssumption, NoValueAssumption, NEW p \in Peers,
         NEW r \in DoubleRatchet, EndOK(p, r), NEW until \in Nat
  PROVE  AfterSkip(p, r, until, Skip(r, until))
<1> DEFINE t == Skip(r, until)
           l == LastOf(p, r)
           q == Other(p)
<1>1. r.dhs \in Nat /\ r.nr \in Nat /\ l \in Nat /\ q \in Peers
  BY ChainOfNumbers, OtherPeer DEF DoubleRatchet, LastOf
<1>2. CASE r.ckr = NoChain \/ until <= r.nr
  <2>1. t = r
    BY <1>2 DEF Skip
  <2>2. r.nr .. r.nr - 1 = {}
    BY <1>1
  <2>3. WentOn(r, r, LastOf(p, r) - 1)
    BY <2>2 DEF WentOn
  <2>. QED
    BY <1>1, <1>2, <2>1, <2>3 DEF SameElse, AfterSkip
<1>3. CASE ~(r.ckr = NoChain \/ until <= r.nr)
  <2>1. l > 1 /\ r.ckr = Chain(l - 1, r.nr) /\ l - 1 \in Nat
    BY <1>1, <1>3 DEF EndOK, Receiving
  <2>2. r.dhr \in Pub /\ r.dhr[1] = q /\ ChainOf(q, r.dhr[2]) = l - 1
    BY <1>1, <2>1 DEF EndOK, Receiving
  <2>3. Kept(q, r, l - 1) /\ Sending(r, l) /\ r.nr < until
    BY <1>1, <1>3 DEF EndOK
  <2> HIDE DEF l, q
  <2>4. /\ t \in DoubleRatchet /\ SameElse(r, t)
        /\ t.nr = until /\ t.ckr = Chain(l - 1, until)
        /\ Kept(q, t, l - 1)
        /\ \A key : Holds(r, key) => Holds(t, key) \/ Lost(t, key)
        /\ \A key : Lost(r, key) => Lost(t, key)
        /\ \A n \in r.nr .. until - 1 :
             Holds(t, Chain(l - 1, n)) \/ Lost(t, Chain(l - 1, n))
        /\ \A key : Holds(t, key) =>
             Holds(r, key) \/ \E n \in r.nr .. until - 1 : key = Chain(l - 1, n)
    BY <1>1, <1>3, <2>1, <2>2, <2>3, SkipForward
  <2> HIDE DEF t
  <2>5. WentOn(r, t, l - 1)
    BY <2>4 DEF WentOn
  <2>6. LastOf(p, t) = l
    BY <2>4 DEF LastOf, l, SameElse
  <2>7. Sending(t, l) /\ Receiving(q, t, l)
    BY <1>1, <2>1, <2>2, <2>3, <2>4 DEF Sending, Receiving, SameElse
  <2>8. EndOK(p, t)
    BY <2>4, <2>6, <2>7 DEF EndOK, q
  <2>. QED
    BY <1>1, <1>3, <2>4, <2>5, <2>8 DEF t, l, AfterSkip
<1>. QED
  BY <1>2, <1>3

\* _dh_ratchet, for the key of the next chain of the other end.
LEMMA TurnStep ==
  ASSUME RatchetAssumption, NoValueAssumption, NEW p \in Peers,
         NEW r \in DoubleRatchet, EndOK(p, r), NEW pub \in Pub,
         pub[1] = Other(p), ChainOf(Other(p), pub[2]) = LastOf(p, r) + 1
  PROVE  LET t == DhRatchet(p, r, pub)
         IN  /\ t \in DoubleRatchet /\ EndOK(p, t)
             /\ LastOf(p, t) = LastOf(p, r) + 2
             /\ t.dhs = r.dhs + 1 /\ t.ns = 0 /\ t.nr = 0 /\ t.pn = r.ns
             /\ t.dhr = pub /\ t.ckr # NoChain
             /\ t.skipped = r.skipped /\ t.evicted = r.evicted
<1> DEFINE t == DhRatchet(p, r, pub)
           l == LastOf(p, r)
           q == Other(p)
<1>1. /\ r.dhs \in Nat /\ r.ns \in Nat /\ r.nr \in Nat /\ l \in Nat /\ q \in Peers
      /\ pub[2] \in Nat /\ pub = <<q, pub[2]>>
  BY ChainOfNumbers, OtherPeer DEF DoubleRatchet, LastOf, Pub
<1>2. DH(<<p, r.dhs>>, pub) = Turn(l + 1) /\ DH(<<p, r.dhs + 1>>, pub) = Turn(l + 2)
  BY <1>1, Turns DEF LastOf
<1>3. /\ KdfRoot(r.rk, Turn(l + 1)) = Root(l + 1)
      /\ KdfRoot(Root(l + 1), Turn(l + 2)) = Root(l + 2)
      /\ Root(l + 2) \in RootKey
  <2>1. l + 1 \in Nat /\ l + 2 \in Nat /\ (l + 1) + 1 = l + 2 /\ r.rk = Root(l)
    BY <1>1 DEF EndOK, Sending
  <2>. QED
    BY <1>1, <2>1, RootSteps
<1>4. /\ FirstKey(Root(l + 1)) = Chain(l + 1, 0) /\ Chain(l + 1, 0) \in ChainKey
      /\ FirstKey(Root(l + 2)) = Chain(l + 2, 0) /\ Chain(l + 2, 0) \in ChainKey
  <2>1. l + 1 \in Nat /\ l + 2 \in Nat /\ 0 \in Nat
    BY <1>1
  <2> HIDE DEF l
  <2>. QED
    BY <2>1, ChainType
<1>5. t = [r EXCEPT !.pn = r.ns, !.ns = 0, !.nr = 0, !.dhr = pub,
                    !.dhs = r.dhs + 1, !.rk = Root(l + 2),
                    !.ckr = Chain(l + 1, 0), !.cks = Chain(l + 2, 0)]
  BY <1>2, <1>3, <1>4, Zenon DEF DhRatchet
<1> HIDE DEF t
<1>6. /\ t \in DoubleRatchet
      /\ t.pn = r.ns /\ t.ns = 0 /\ t.nr = 0 /\ t.dhr = pub
      /\ t.dhs = r.dhs + 1 /\ t.rk = Root(l + 2)
      /\ t.ckr = Chain(l + 1, 0) /\ t.cks = Chain(l + 2, 0)
      /\ t.skipped = r.skipped /\ t.evicted = r.evicted
  <2> DEFINE ck1 == Chain(l + 1, 0)
             ck2 == Chain(l + 2, 0)
             rk == Root(l + 2)
             k == r.dhs + 1
  <2>1. /\ ck1 \in ChainKey /\ ck2 \in ChainKey /\ rk \in RootKey /\ k \in Nat
        /\ r.ns \in Nat /\ 0 \in Nat
        /\ t = [r EXCEPT !.pn = r.ns, !.ns = 0, !.nr = 0, !.dhr = pub,
                         !.dhs = k, !.rk = rk, !.ckr = ck1, !.cks = ck2]
    BY <1>1, <1>3, <1>4, <1>5
  <2> HIDE DEF ck1, ck2, rk, k
  <2>2. t \in DoubleRatchet
    BY <2>1 DEF DoubleRatchet
  <2>3. /\ t.pn = r.ns /\ t.ns = 0 /\ t.nr = 0 /\ t.dhr = pub
        /\ t.dhs = k /\ t.rk = rk /\ t.ckr = ck1 /\ t.cks = ck2
        /\ t.skipped = r.skipped /\ t.evicted = r.evicted
    BY <2>1 DEF DoubleRatchet
  <2>. QED
    BY <2>2, <2>3 DEF ck1, ck2, rk, k
<1>7. LastOf(p, t) = l + 2
  <2>1. ChainOf(p, r.dhs + 1) = ChainOf(p, r.dhs) + 2
    BY <1>1, ChainOfNumbers
  <2>. QED
    BY <1>6, <2>1 DEF LastOf
<1>8. /\ r.skipped \in Seq(Skipped) /\ r.evicted \in SUBSET Skipped
      /\ DOMAIN r.skipped = 1 .. Len(r.skipped)
      /\ Kept(q, r, l - 1)
      /\ l = 0 => r.ns = 0
      /\ ChainOf(q, pub[2]) = l + 1
  BY DEF DoubleRatchet, EndOK, Sending
<1> HIDE DEF l, q
<1>9. Sending(t, l + 2)
  BY <1>1, <1>6, <1>8 DEF Sending
<1>10. Receiving(q, t, l + 2)
  BY <1>1, <1>6, <1>8 DEF Receiving, q
<1>11. ASSUME NEW e \in Skipped, Behind(q, e, l - 1, r.nr)
       PROVE  Behind(q, e, l + 1, 0)
  <2>1. ChainOf(q, e.pub[2]) \in Nat
    BY <1>1, ChainOfNumbers DEF Skipped, Pub
  <2>. QED
    BY <1>1, <1>11, <2>1 DEF Behind
<1>12. Kept(q, t, l + 1)
  <2>1. \A i \in DOMAIN r.skipped : r.skipped[i] \in Skipped
    BY <1>8
  <2>. QED
    BY <1>6, <1>8, <1>11, <2>1 DEF Kept
<1>13. t.ckr # NoChain
  BY <1>4, <1>6 DEF NoValueAssumption
<1>14. (l + 2) - 1 = l + 1
  BY <1>1
<1>. QED
  BY <1>6, <1>7, <1>9, <1>10, <1>12, <1>13, <1>14 DEF EndOK, t, l, q

\* _decrypt_current: the receiver goes a step along its chain.
LEMMA ReadStep ==
  ASSUME RatchetAssumption, NoValueAssumption, NEW p \in Peers,
         NEW r \in DoubleRatchet, EndOK(p, r), r.ckr # NoChain
  PROVE  LET t == Read(r)
         IN  /\ t \in DoubleRatchet /\ EndOK(p, t)
             /\ t.nr = r.nr + 1 /\ t.dhs = r.dhs /\ t.ns = r.ns /\ t.pn = r.pn
             /\ t.dhr = r.dhr /\ t.cks = r.cks
             /\ t.skipped = r.skipped /\ t.evicted = r.evicted
<1> DEFINE t == Read(r)
           l == LastOf(p, r)
           q == Other(p)
<1>1. /\ r.dhs \in Nat /\ r.nr \in Nat /\ l \in Nat /\ q \in Peers
      /\ r.skipped \in Seq(Skipped) /\ r.evicted \in SUBSET Skipped
      /\ DOMAIN r.skipped = 1 .. Len(r.skipped)
  <2>1. r.dhs \in Nat /\ r.nr \in Nat /\ r.skipped \in Seq(Skipped)
        /\ r.evicted \in SUBSET Skipped
    BY DEF DoubleRatchet
  <2>2. ChainOf(p, r.dhs) \in Nat /\ Other(p) \in Peers
    BY <2>1, ChainOfNumbers, OtherPeer
  <2>. QED
    BY <2>1, <2>2 DEF LastOf
<1>2. l > 1 /\ r.ckr = Chain(l - 1, r.nr) /\ l - 1 \in Nat
  BY <1>1 DEF EndOK, Receiving
<1>3. Stepped(r.ckr, 1) = Chain(l - 1, r.nr + 1) /\ Chain(l - 1, r.nr + 1) \in ChainKey
  <2> HIDE DEF l
  <2>1. Stepped(Chain(l - 1, r.nr), 1) = Chain(l - 1, r.nr + 1)
    BY <1>1 DEF Stepped, Chain
  <2>. QED
    BY <1>1, <1>2, <2>1, ChainType
<1> HIDE DEF l, q
<1>4. t = [r EXCEPT !.ckr = Chain(l - 1, r.nr + 1), !.nr = r.nr + 1]
  BY <1>3 DEF Read
<1> HIDE DEF t
<1>5. /\ t \in DoubleRatchet /\ t.ckr = Chain(l - 1, r.nr + 1) /\ t.nr = r.nr + 1
      /\ t.dhs = r.dhs /\ t.pn = r.pn /\ t.ns = r.ns /\ t.rk = r.rk
      /\ t.skipped = r.skipped /\ t.evicted = r.evicted
      /\ t.dhr = r.dhr /\ t.cks = r.cks
  <2> DEFINE ck == Chain(l - 1, r.nr + 1)
             k == r.nr + 1
  <2>1. ck \in ChainKey /\ k \in Nat /\ t = [r EXCEPT !.ckr = ck, !.nr = k]
    BY <1>1, <1>3, <1>4
  <2> HIDE DEF ck, k
  <2>2. t \in DoubleRatchet
    BY <2>1 DEF DoubleRatchet
  <2>3. /\ t.ckr = ck /\ t.nr = k
        /\ t.dhs = r.dhs /\ t.pn = r.pn /\ t.ns = r.ns /\ t.rk = r.rk
        /\ t.skipped = r.skipped /\ t.evicted = r.evicted
        /\ t.dhr = r.dhr /\ t.cks = r.cks
    BY <2>1 DEF DoubleRatchet
  <2>. QED
    BY <2>2, <2>3 DEF ck, k
<1>6. LastOf(p, t) = l
  BY <1>5 DEF LastOf, l
<1>7. Sending(r, l) /\ Receiving(q, r, l) /\ Kept(q, r, l - 1)
  BY DEF EndOK, l, q
<1>8. Sending(t, l)
  BY <1>5, <1>7 DEF Sending
<1>9. Receiving(q, t, l)
  BY <1>1, <1>2, <1>5, <1>7 DEF Receiving
<1>10. ASSUME NEW e \in Skipped, Behind(q, e, l - 1, r.nr)
       PROVE  Behind(q, e, l - 1, r.nr + 1)
  <2>1. e.n \in Nat
    BY DEF Skipped
  <2>. QED
    BY <1>1, <1>10, <2>1 DEF Behind
<1>11. Kept(q, t, l - 1)
  <2>1. \A i \in DOMAIN r.skipped : r.skipped[i] \in Skipped
    BY <1>1
  <2>. QED
    BY <1>1, <1>5, <1>7, <1>10, <2>1 DEF Kept
<1>. QED
  BY <1>5, <1>6, <1>8, <1>9, <1>11 DEF EndOK, t, l, q

-----------------------------------------------------------------------------
(* A message opens *)

\* The number of the chain of a message.
On(m) == ChainOf(m.from, m.hdr.pub[2])

\* m is what its sender wrote under its own header.
Keyed(m) ==
  m.hdr.pub[1] = m.from /\ On(m) >= 1 /\ m.key = Chain(On(m), m.hdr.n)

\* The end p with the ratchet r has come past the n-th message of chain c.
Past(p, r, c, n) ==
  \/ c < LastOf(p, r) - 1
  \/ c = LastOf(p, r) - 1 /\ n < r.nr

\* What is kept or was thrown away lies behind.
LEMMA KeptPast ==
  ASSUME RatchetAssumption, NEW p \in Peers, NEW r \in DoubleRatchet, EndOK(p, r),
         NEW c \in Nat, NEW n \in Nat,
         Holds(r, Chain(c, n)) \/ Lost(r, Chain(c, n))
  PROVE  Past(p, r, c, n)
<1>1. ASSUME NEW e \in Skipped, Behind(Other(p), e, LastOf(p, r) - 1, r.nr),
             e.key = Chain(c, n)
      PROVE  Past(p, r, c, n)
  <2>1. ChainOf(Other(p), e.pub[2]) \in Nat /\ e.n \in Nat
    BY OtherPeer, ChainOfNumbers DEF Skipped, Pub
  <2>2. c = ChainOf(Other(p), e.pub[2]) /\ n = e.n
    <3>1. Chain(c, n) = Chain(ChainOf(Other(p), e.pub[2]), e.n)
      BY <1>1 DEF Behind
    <3>. QED
      BY <2>1, <3>1, ChainSame
  <2>. QED
    BY <1>1, <2>2 DEF Behind, Past
<1>2. /\ \A i \in DOMAIN r.skipped : r.skipped[i] \in Skipped
      /\ r.evicted \in SUBSET Skipped
  BY DEF DoubleRatchet
<1>3. Kept(Other(p), r, LastOf(p, r) - 1)
  BY DEF EndOK
<1>. QED
  BY <1>1, <1>2, <1>3 DEF Kept, Holds, Lost

\* Steps along a chain do not leave it.
LEMMA SkipRoot ==
  ASSUME NEW r \in DoubleRatchet, r.ckr \in ChainKey, NEW until \in Nat
  PROVE  Skip(r, until).ckr.root = r.ckr.root
<1>1. CASE r.ckr = NoChain \/ until <= r.nr
  BY <1>1 DEF Skip
<1>2. CASE ~(r.ckr = NoChain \/ until <= r.nr)
  <2>1. Skip(r, until).ckr = Stepped(r.ckr, until - r.nr)
    BY <1>2 DEF Skip, DoubleRatchet
  <2>. QED
    BY <2>1 DEF Stepped, ChainKey
<1>. QED
  BY <1>1, <1>2

\* A turn starts the receiving chain from one more result.
LEMMA TurnRoot ==
  ASSUME NEW p \in Peers, NEW r \in DoubleRatchet, NEW pub \in Pub
  PROVE  LET t == DhRatchet(p, r, pub)
         IN  /\ t \in DoubleRatchet /\ t.ckr \in ChainKey
             /\ Len(t.ckr.root) = Len(r.rk) + 1
<1> DEFINE receiving == KdfRoot(r.rk, DH(<<p, r.dhs>>, pub))
           sending == KdfRoot(receiving, DH(<<p, r.dhs + 1>>, pub))
           t == DhRatchet(p, r, pub)
<1>1. /\ r.rk \in Seq(SUBSET Pub) /\ r.dhs \in Nat /\ r.dhs + 1 \in Nat
      /\ r.ns \in Nat
  BY DEF DoubleRatchet, RootKey
<1>2. DH(<<p, r.dhs>>, pub) \in SUBSET Pub /\ DH(<<p, r.dhs + 1>>, pub) \in SUBSET Pub
  BY <1>1 DEF DH, Pub
<1>3. receiving \in Seq(SUBSET Pub) /\ Len(receiving) = Len(r.rk) + 1
  BY <1>1, <1>2 DEF KdfRoot
<1>4. sending \in Seq(SUBSET Pub)
  BY <1>2, <1>3 DEF KdfRoot
<1>5. FirstKey(receiving) \in ChainKey /\ FirstKey(sending) \in ChainKey
      /\ FirstKey(receiving).root = receiving
  BY <1>3, <1>4 DEF FirstKey, ChainKey, RootKey
<1>6. t = [r EXCEPT !.pn = r.ns, !.ns = 0, !.nr = 0, !.dhr = pub,
                    !.dhs = r.dhs + 1, !.rk = sending,
                    !.ckr = FirstKey(receiving), !.cks = FirstKey(sending)]
  BY Zenon DEF DhRatchet
<1> HIDE DEF receiving, sending, t
<1>7. t \in DoubleRatchet /\ t.ckr = FirstKey(receiving)
  BY <1>1, <1>4, <1>5, <1>6 DEF DoubleRatchet, RootKey
<1>. QED
  BY <1>3, <1>5, <1>7 DEF t

\* What opens a message m, from r to t: m is passed and its key is gone, what
\* was passed stays passed, and what lies between is kept or thrown away.
Opened(p, r, m, t) ==
  /\ t \in DoubleRatchet /\ EndOK(p, t)
  /\ Past(p, t, On(m), m.hdr.n) /\ ~Holds(t, m.key)
  /\ \/ t.dhs = r.dhs /\ t.ns = r.ns /\ t.pn = r.pn
     \/ /\ On(m) = LastOf(p, r) + 1
        /\ t.dhs = r.dhs + 1 /\ t.ns = 0 /\ t.pn = r.ns
  /\ \/ t.nr = r.nr /\ t.dhs = r.dhs
     \/ t.nr = m.hdr.n + 1 /\ On(m) = LastOf(p, t) - 1
  /\ \A key : Holds(r, key) => Holds(t, key) \/ Lost(t, key) \/ key = m.key
  /\ \A key : Lost(r, key) => Lost(t, key)
  /\ \A c, n \in Nat : Past(p, r, c, n) => Past(p, t, c, n)
  /\ \A c, n \in Nat : Holds(t, Chain(c, n)) =>
       Holds(r, Chain(c, n)) \/ ~Past(p, r, c, n)
  /\ \A c, n \in Nat :
       /\ c >= 1 /\ c # LastOf(p, r)
       /\ Past(p, t, c, n) /\ ~Past(p, r, c, n) /\ Chain(c, n) # m.key
       /\ On(m) = LastOf(p, r) + 1 /\ c = LastOf(p, r) - 1 => n < m.hdr.pn
       => Holds(t, Chain(c, n)) \/ Lost(t, Chain(c, n))

\* The message is of the chain that is being received.
LEMMA OpenSameChain ==
  ASSUME RatchetAssumption, NoValueAssumption, NEW p \in Peers,
         NEW r \in DoubleRatchet, EndOK(p, r), NEW m \in Message,
         m.from = Other(p), Keyed(m), m.hdr.pub = r.dhr,
         ~OutOfReach(p, r, m.hdr), AtMessage(p, r, m.hdr).ckr = m.key
  PROVE  /\ ~Past(p, r, On(m), m.hdr.n)
         /\ Opened(p, r, m, Read(AtMessage(p, r, m.hdr)))
<1> DEFINE n == m.hdr.n
           c == On(m)
           l == LastOf(p, r)
           a == AtMessage(p, r, m.hdr)
           t == Read(a)
<1>1. /\ n \in Nat /\ m.hdr.pub \in Pub /\ m.hdr.pub[2] \in Nat /\ c \in Nat
      /\ r.nr \in Nat /\ r.dhs \in Nat /\ l \in Nat
  BY OtherPeer, ChainOfNumbers DEF Message, Header, Pub, DoubleRatchet, LastOf, On
<1>2. a = Skip(r, n) /\ a.ckr # NoChain
  BY Zenon DEF AtMessage, OnChain, OutOfReach
<1> HIDE DEF a, t, c, l
<1>3. /\ a \in DoubleRatchet /\ EndOK(p, a) /\ SameElse(r, a)
      /\ r.ckr = NoChain \/ n <= r.nr => a.nr = r.nr
      /\ r.ckr # NoChain /\ r.nr < n => a.nr = n
      /\ WentOn(r, a, l - 1)
  <2>1. AfterSkip(p, r, n, a)
    <3>1. AfterSkip(p, r, n, Skip(r, n))
      BY <1>1, SkipStep
    <3>. QED
      BY <1>2, <3>1
  <2>. QED
    BY <2>1 DEF AfterSkip, l
<1>4. LastOf(p, a) = l
  BY <1>3 DEF LastOf, SameElse, l
<1>5. l > 1 /\ a.ckr = Chain(l - 1, a.nr) /\ l - 1 \in Nat /\ a.nr \in Nat
  <2>1. Receiving(Other(p), a, l) /\ a.nr \in Nat
    BY <1>3, <1>4 DEF EndOK, DoubleRatchet
  <2>2. ~(l <= 1)
    BY <1>2, <2>1 DEF Receiving
  <2>. QED
    BY <1>1, <2>1, <2>2 DEF Receiving
<1> USE DEF c, l, t
<1>6. c = l - 1 /\ n = a.nr
  <2>1. Chain(l - 1, a.nr) = Chain(c, n)
    BY <1>5 DEF Keyed, a
  <2>. QED
    BY <1>1, <1>5, <2>1, ChainSame
<1>7. r.nr <= n
  BY <1>1, <1>3, <1>6
<1>8. /\ t \in DoubleRatchet /\ EndOK(p, t)
      /\ t.nr = n + 1 /\ t.dhs = r.dhs /\ t.ns = r.ns /\ t.pn = r.pn
      /\ t.skipped = a.skipped /\ t.evicted = a.evicted
  BY <1>2, <1>3, <1>6, ReadStep DEF SameElse
<1> HIDE DEF t
<1>9. LastOf(p, t) = l
  BY <1>8 DEF LastOf
<1>10. \A key : (Holds(t, key) <=> Holds(a, key)) /\ (Lost(t, key) <=> Lost(a, key))
  BY <1>8 DEF Holds, Lost
<1>11. m.key = Chain(c, n)
  BY DEF Keyed
<1> HIDE DEF n, c, l
<1>12. ~Past(p, r, c, n) /\ Past(p, t, c, n)
  BY <1>1, <1>6, <1>7, <1>8, <1>9 DEF Past, l
<1>13. ~Holds(t, m.key)
  <2>1. ~Past(p, a, c, n)
    BY <1>1, <1>4, <1>6 DEF Past
  <2>. QED
    BY <1>1, <1>3, <1>10, <1>11, <2>1, KeptPast
<1>14. \A key : Holds(r, key) => Holds(t, key) \/ Lost(t, key)
  BY <1>3, <1>10 DEF WentOn
<1>15. \A key : Lost(r, key) => Lost(t, key)
  BY <1>3, <1>10 DEF WentOn
<1>16. ASSUME NEW c1 \in Nat, NEW n1 \in Nat, Holds(t, Chain(c1, n1)),
              ~Holds(r, Chain(c1, n1))
       PROVE  ~Past(p, r, c1, n1)
  <2>1. PICK k \in r.nr .. a.nr - 1 : Chain(c1, n1) = Chain(l - 1, k)
    BY <1>3, <1>10, <1>16 DEF WentOn
  <2>2. k \in Nat /\ r.nr <= k
    BY <1>1, <1>5, <2>1
  <2>3. c1 = l - 1 /\ n1 = k
    BY <1>5, <2>1, <2>2, ChainSame
  <2>. QED
    BY <1>1, <2>2, <2>3 DEF Past, l
<1>17. ASSUME NEW c1 \in Nat, NEW n1 \in Nat, Past(p, t, c1, n1),
              ~Past(p, r, c1, n1), Chain(c1, n1) # m.key
       PROVE  Holds(t, Chain(c1, n1)) \/ Lost(t, Chain(c1, n1))
  <2>1. c1 = l - 1 /\ r.nr <= n1 /\ n1 < n + 1
    BY <1>1, <1>8, <1>9, <1>17 DEF Past, l
  <2>2. n1 # n
    BY <1>6, <1>11, <1>17, <2>1
  <2>3. n1 \in r.nr .. a.nr - 1
    BY <1>1, <1>6, <2>1, <2>2
  <2>. QED
    BY <1>3, <1>10, <2>1, <2>3 DEF WentOn
<1>18. \A c1, n1 \in Nat : Past(p, r, c1, n1) => Past(p, t, c1, n1)
  BY <1>1, <1>7, <1>8, <1>9 DEF Past, l
<1>. QED
  BY <1>6, <1>8, <1>9, <1>12, <1>13, <1>14, <1>15, <1>16, <1>17, <1>18
  DEF Opened, n, c, l, t, a

\* The message is the first of the next chain that comes through.
LEMMA OpenNextChain ==
  ASSUME RatchetAssumption, NoValueAssumption, NEW p \in Peers,
         NEW r \in DoubleRatchet, EndOK(p, r), NEW m \in Message,
         m.from = Other(p), Keyed(m), m.hdr.pub # r.dhr,
         ~OutOfReach(p, r, m.hdr), AtMessage(p, r, m.hdr).ckr = m.key
  PROVE  /\ ~Past(p, r, On(m), m.hdr.n)
         /\ Opened(p, r, m, Read(AtMessage(p, r, m.hdr)))
<1> DEFINE n == m.hdr.n
           c == On(m)
           l == LastOf(p, r)
           pub == m.hdr.pub
           b == Skip(r, m.hdr.pn)
           d == DhRatchet(p, b, pub)
           a == AtMessage(p, r, m.hdr)
           t == Read(a)
<1>1. /\ n \in Nat /\ m.hdr.pn \in Nat /\ pub \in Pub /\ pub[2] \in Nat /\ c \in Nat
      /\ r.nr \in Nat /\ r.dhs \in Nat /\ r.ns \in Nat /\ l \in Nat
  BY OtherPeer, ChainOfNumbers DEF Message, Header, Pub, DoubleRatchet, LastOf, On
<1>2. a = Skip(d, n) /\ a.ckr # NoChain
  BY Zenon DEF AtMessage, OnChain, OutOfReach
<1>3. /\ b \in DoubleRatchet /\ EndOK(p, b) /\ SameElse(r, b)
      /\ r.ckr = NoChain \/ m.hdr.pn <= r.nr => b.nr = r.nr
      /\ r.ckr # NoChain /\ r.nr < m.hdr.pn => b.nr = m.hdr.pn
      /\ WentOn(r, b, l - 1)
  <2>1. AfterSkip(p, r, m.hdr.pn, b)
    BY <1>1, SkipStep
  <2> HIDE DEF b
  <2>. QED
    BY <2>1 DEF AfterSkip
<1> HIDE DEF a, b
<1>4. LastOf(p, b) = l /\ b.rk = Root(l) /\ b.nr \in Nat
  BY <1>1, <1>3 DEF LastOf, SameElse, EndOK, Sending, DoubleRatchet
<1>5. d \in DoubleRatchet /\ d.ckr \in ChainKey /\ Len(d.ckr.root) = l + 1
  <2>1. Len(Root(l)) = l
    BY <1>1, RootSteps
  <2>. QED
    BY <1>1, <1>3, <1>4, <2>1, TurnRoot
<1>6. c = l + 1
  <2>1. a.ckr.root = d.ckr.root
    BY <1>1, <1>2, <1>5, SkipRoot
  <2>2. m.key.root = Root(c)
    BY DEF Keyed, Chain
  <2>. QED
    BY <1>1, <1>5, <2>1, <2>2, RootSteps DEF a
<1>7. /\ EndOK(p, d) /\ LastOf(p, d) = l + 2
      /\ d.dhs = r.dhs + 1 /\ d.ns = 0 /\ d.nr = 0 /\ d.pn = r.ns
      /\ d.ckr # NoChain
      /\ d.skipped = b.skipped /\ d.evicted = b.evicted
  <2>1. pub[1] = Other(p) /\ ChainOf(Other(p), pub[2]) = LastOf(p, b) + 1
    BY <1>4, <1>6 DEF Keyed, On
  <2>. QED
    BY <1>1, <1>3, <1>4, <2>1, TurnStep DEF SameElse
<1> HIDE DEF d
<1>8. /\ a \in DoubleRatchet /\ EndOK(p, a) /\ SameElse(d, a)
      /\ a.nr = n /\ WentOn(d, a, l + 1)
  <2> HIDE DEF l, n, t, c, pub
  <2>1. /\ (l + 2) - 1 = l + 1 /\ (n <= 0 => n = 0) /\ n \in Nat
        /\ (~(n <= 0) => 0 < n)
    BY <1>1 DEF l, n
  <2>2. AfterSkip(p, d, n, a)
    <3>1. AfterSkip(p, d, n, Skip(d, n))
      BY <1>5, <1>7, <2>1, SkipStep
    <3>. QED
      BY <1>2, <3>1 DEF n
  <2>3. WentOn(d, a, LastOf(p, d) - 1) /\ LastOf(p, d) = l + 2
    BY <1>7, <2>2 DEF AfterSkip, l
  <2>4. a.nr = n
    BY <1>7, <2>1, <2>2 DEF AfterSkip
  <2>. QED
    BY <2>1, <2>2, <2>3, <2>4 DEF AfterSkip
<1>9. LastOf(p, a) = l + 2
  BY <1>7, <1>8 DEF LastOf, SameElse
<1>10. /\ t \in DoubleRatchet /\ EndOK(p, t)
       /\ t.nr = n + 1 /\ t.dhs = r.dhs + 1 /\ t.ns = 0 /\ t.pn = r.ns
       /\ t.skipped = a.skipped /\ t.evicted = a.evicted
  BY <1>2, <1>7, <1>8, ReadStep DEF SameElse
<1> HIDE DEF t
<1>11. LastOf(p, t) = l + 2
  BY <1>9, <1>8, <1>7, <1>10 DEF LastOf, SameElse
<1>12. \A key : (Holds(t, key) <=> Holds(a, key)) /\ (Lost(t, key) <=> Lost(a, key))
  BY <1>10 DEF Holds, Lost
<1>13. \A key : (Holds(d, key) <=> Holds(b, key)) /\ (Lost(d, key) <=> Lost(b, key))
  BY <1>7 DEF Holds, Lost
<1>14. m.key = Chain(c, n)
  BY DEF Keyed
<1> HIDE DEF n, c, l, pub
<1>15. ~Past(p, r, c, n) /\ Past(p, t, c, n)
  BY <1>1, <1>6, <1>10, <1>11 DEF Past, l
<1>16. ~Holds(t, m.key)
  <2>1. ~Past(p, a, c, n)
    BY <1>1, <1>6, <1>8, <1>9 DEF Past
  <2>. QED
    BY <1>1, <1>8, <1>12, <1>14, <2>1, KeptPast
<1>17. \A key : Holds(r, key) => Holds(t, key) \/ Lost(t, key)
  BY <1>3, <1>8, <1>12, <1>13 DEF WentOn
<1>18. \A key : Lost(r, key) => Lost(t, key)
  BY <1>3, <1>8, <1>12, <1>13 DEF WentOn
<1>19. ASSUME NEW c1 \in Nat, NEW n1 \in Nat, Holds(t, Chain(c1, n1)),
              ~Holds(r, Chain(c1, n1))
       PROVE  ~Past(p, r, c1, n1)
  <2>1. CASE Holds(d, Chain(c1, n1))
    <3>1. Holds(b, Chain(c1, n1))
      BY <1>13, <2>1
    <3>2. PICK k \in r.nr .. b.nr - 1 : Chain(c1, n1) = Chain(l - 1, k)
      BY <1>3, <1>19, <3>1 DEF WentOn
    <3>3. k \in Nat /\ r.nr <= k /\ r.ckr # NoChain
      BY <1>1, <1>3, <1>4, <3>2
    <3>4. l - 1 \in Nat
      BY <1>1, <3>3 DEF EndOK, Receiving, l
    <3>5. c1 = l - 1 /\ n1 = k
      BY <3>2, <3>3, <3>4, ChainSame
    <3>. QED
      BY <1>1, <3>3, <3>5 DEF Past, l
  <2>2. CASE ~Holds(d, Chain(c1, n1))
    <3>1. PICK k \in d.nr .. a.nr - 1 : Chain(c1, n1) = Chain(l + 1, k)
      BY <1>8, <1>12, <1>19, <2>2 DEF WentOn
    <3>2. k \in Nat /\ l + 1 \in Nat
      BY <1>1, <1>7, <1>8, <3>1
    <3>3. c1 = l + 1
      BY <3>1, <3>2, ChainSame
    <3>. QED
      BY <1>1, <3>3 DEF Past, l
  <2>. QED
    BY <2>1, <2>2
<1>20. ASSUME NEW c1 \in Nat, NEW n1 \in Nat, c1 >= 1, c1 # l, Past(p, t, c1, n1),
              ~Past(p, r, c1, n1), Chain(c1, n1) # m.key,
              c1 = l - 1 => n1 < m.hdr.pn
       PROVE  Holds(t, Chain(c1, n1)) \/ Lost(t, Chain(c1, n1))
  <2>1. \/ c1 = l - 1 /\ r.nr <= n1 /\ n1 < m.hdr.pn
        \/ c1 = l + 1 /\ n1 < n
    <3>1. c1 <= l + 1
      BY <1>1, <1>11, <1>20 DEF Past
    <3>2. c1 >= l - 1
      BY <1>1, <1>20 DEF Past, l
    <3>3. CASE c1 = l - 1
      BY <1>1, <1>20, <3>3 DEF Past, l
    <3>4. CASE c1 = l + 1
      <4>1. n1 < n + 1
        BY <1>1, <1>10, <1>11, <1>20, <3>4 DEF Past
      <4>2. n1 # n
        BY <1>6, <1>14, <1>20, <3>4
      <4>. QED
        BY <1>1, <3>4, <4>1, <4>2
    <3>. QED
      BY <1>1, <1>20, <3>1, <3>2, <3>3, <3>4
  <2>2. CASE c1 = l - 1 /\ r.nr <= n1 /\ n1 < m.hdr.pn
    <3>1. r.ckr # NoChain
      <4>1. l > 1
        BY <1>1, <1>20, <2>2
      <4>2. r.ckr = Chain(l - 1, r.nr) /\ l - 1 \in Nat
        BY <1>1, <4>1 DEF EndOK, Receiving, l
      <4>3. Chain(l - 1, r.nr) \in ChainKey
        BY <1>1, <4>2, ChainType
      <4>. QED
        BY <4>2, <4>3 DEF NoValueAssumption
    <3>2. n1 \in r.nr .. b.nr - 1
      BY <1>1, <1>3, <2>2, <3>1
    <3>3. Holds(b, Chain(l - 1, n1)) \/ Lost(b, Chain(l - 1, n1))
      BY <1>3, <3>2 DEF WentOn
    <3>. QED
      BY <1>8, <1>12, <1>13, <2>2, <3>3 DEF WentOn
  <2>3. CASE c1 = l + 1 /\ n1 < n
    <3>1. n1 \in d.nr .. a.nr - 1
      BY <1>1, <1>7, <1>8, <2>3
    <3>. QED
      BY <1>8, <1>12, <2>3, <3>1 DEF WentOn
  <2>. QED
    BY <2>1, <2>2, <2>3
<1>21. \A c1, n1 \in Nat : Past(p, r, c1, n1) => Past(p, t, c1, n1)
  BY <1>1, <1>11 DEF Past, l
<1>22. c = LastOf(p, t) - 1
  BY <1>1, <1>6, <1>11
<1>. QED
  BY <1>6, <1>10, <1>15, <1>16, <1>17, <1>18, <1>19, <1>20, <1>21, <1>22
  DEF Opened, n, c, l, t, a

\* The key was kept.
LEMMA OpenSkipped ==
  ASSUME RatchetAssumption, NoValueAssumption, NEW p \in Peers,
         NEW r \in DoubleRatchet, EndOK(p, r), NEW i \in DOMAIN r.skipped,
         NEW t, t = [r EXCEPT !.skipped = Without(r.skipped, i)]
  PROVE  /\ t \in DoubleRatchet /\ EndOK(p, t)
         /\ SameElse(r, t) /\ t.nr = r.nr /\ t.ckr = r.ckr
         /\ t.evicted = r.evicted
         /\ ~Holds(t, r.skipped[i].key)
         /\ \A key : Holds(t, key) => Holds(r, key)
         /\ \A key : Holds(r, key) => Holds(t, key) \/ key = r.skipped[i].key
<1> DEFINE s == r.skipped
           w == Without(s, i)
           l == LastOf(p, r)
           q == Other(p)
<1>1. /\ s \in Seq(Skipped) /\ DOMAIN s = 1 .. Len(s) /\ Len(s) \in Nat
      /\ MaxSkippedKeys \in Nat
  BY DEF DoubleRatchet, RatchetAssumption
<1>2. i \in 1 .. Len(s)
  BY <1>1
<1>3. /\ w \in Seq(Skipped) /\ Len(w) = Len(s) - 1
      /\ \A j \in 1 .. Len(s) - 1 : w[j] = IF j < i THEN s[j] ELSE s[j + 1]
  BY <1>1, <1>2, WithoutOne
<1> HIDE DEF w
<1>4. /\ t \in DoubleRatchet /\ t.skipped = w
      /\ SameElse(r, t) /\ t.nr = r.nr /\ t.ckr = r.ckr /\ t.evicted = r.evicted
  BY <1>3 DEF DoubleRatchet, SameElse, w
<1>5. DOMAIN w = 1 .. Len(s) - 1
  BY <1>1, <1>3
<1>6. Sending(r, l) /\ Receiving(q, r, l) /\ Kept(q, r, l - 1)
  BY DEF EndOK
<1> HIDE DEF s, l, q
<1>7. \A j \in 1 .. Len(s) - 1 : \E k \in 1 .. Len(s) : k # i /\ w[j] = s[k]
  <2> TAKE j \in 1 .. Len(s) - 1
  <2>1. j \in 1 .. Len(s) /\ j + 1 \in 1 .. Len(s)
    BY <1>1
  <2>2. CASE j < i
    BY <1>2, <1>3, <2>1, <2>2
  <2>3. CASE ~(j < i)
    <3>1. j + 1 # i
      BY <1>1, <1>2, <2>1, <2>3
    <3>. QED
      BY <1>3, <2>1, <2>3, <3>1
  <2>. QED
    BY <2>2, <2>3
<1>8. ASSUME NEW k \in 1 .. Len(s), k # i
      PROVE  \E j \in 1 .. Len(s) - 1 : w[j] = s[k]
  <2>1. CASE k < i
    <3>1. k \in 1 .. Len(s) - 1
      BY <1>1, <1>2, <2>1
    <3>. QED
      BY <1>3, <2>1, <3>1
  <2>2. CASE ~(k < i)
    <3>1. k - 1 \in 1 .. Len(s) - 1 /\ ~(k - 1 < i) /\ (k - 1) + 1 = k
      BY <1>1, <1>2, <1>8, <2>2
    <3>. QED
      BY <1>3, <3>1
  <2>. QED
    BY <2>1, <2>2
<1>9. \A j, k \in 1 .. Len(s) - 1 : j < k => Older(w[j], w[k])
  <2> TAKE j, k \in 1 .. Len(s) - 1
  <2> HAVE j < k
  <2>1. /\ j \in 1 .. Len(s) /\ j + 1 \in 1 .. Len(s) /\ k \in 1 .. Len(s)
        /\ k + 1 \in 1 .. Len(s) /\ j < k + 1 /\ j + 1 < k + 1
    BY <1>1
  <2>2. \A x, y \in 1 .. Len(s) : x < y => Older(s[x], s[y])
    BY <1>1, <1>6 DEF Kept, s
  <2>3. k < i => j < i
    BY <1>2
  <2>4. \/ w[j] = s[j] /\ w[k] = s[k]
        \/ w[j] = s[j] /\ w[k] = s[k + 1]
        \/ w[j] = s[j + 1] /\ w[k] = s[k + 1]
    BY <1>3, <2>3
  <2>5. Older(s[j], s[k]) /\ Older(s[j], s[k + 1]) /\ Older(s[j + 1], s[k + 1])
    BY <2>1, <2>2
  <2>. QED
    BY <2>4, <2>5
<1>10. Kept(q, t, l - 1)
  <2>1. \A j \in DOMAIN w : Behind(q, w[j], l - 1, t.nr)
    BY <1>1, <1>4, <1>5, <1>6, <1>7 DEF Kept, s
  <2>2. \A e \in t.evicted : Behind(q, e, l - 1, t.nr)
    BY <1>4, <1>6 DEF Kept
  <2>3. \A e \in t.evicted : \A j \in DOMAIN w : Older(e, w[j])
    BY <1>1, <1>4, <1>5, <1>6, <1>7 DEF Kept, s
  <2>4. Len(w) <= MaxSkippedKeys
    BY <1>1, <1>3, <1>6 DEF Kept, s
  <2>. QED
    BY <1>4, <1>5, <1>9, <2>1, <2>2, <2>3, <2>4 DEF Kept
<1>11. EndOK(p, t)
  <2>1. LastOf(p, t) = l
    BY <1>4 DEF LastOf, l, SameElse
  <2>2. Sending(t, l) /\ Receiving(q, t, l)
    BY <1>4, <1>6 DEF Sending, Receiving, SameElse
  <2>. QED
    BY <1>10, <2>1, <2>2 DEF EndOK, q
<1>12. ASSUME NEW k \in 1 .. Len(s), k # i
       PROVE  s[k].key # s[i].key
  <2>1. Older(s[k], s[i]) \/ Older(s[i], s[k])
    BY <1>1, <1>2, <1>6, <1>12 DEF Kept, s
  <2>2. /\ s[k] \in Skipped /\ s[i] \in Skipped
        /\ Behind(q, s[k], l - 1, r.nr) /\ Behind(q, s[i], l - 1, r.nr)
    BY <1>1, <1>2, <1>6 DEF Kept, s
  <2>3. s[k].n \in Nat /\ s[i].n \in Nat /\ s[k].key.step = s[k].n
        /\ s[i].key.step = s[i].n
    BY <2>2 DEF Skipped, Behind, Chain
  <2>4. ASSUME NEW a \in Skipped, NEW b \in Skipped, Older(a, b),
               a.key.step = a.n, b.key.step = b.n, a.key = b.key
        PROVE  FALSE
    <3>1. a.n \in Nat /\ b.n \in Nat /\ a.n = b.n
      BY <2>4 DEF Skipped
    <3>2. Len(a.key.root) \in Nat /\ Len(a.key.root) = Len(b.key.root)
      <4>1. a.key.root \in Seq(SUBSET Pub)
        BY DEF Skipped, ChainKey, RootKey
      <4>. QED
        BY <2>4, <4>1
    <3>. QED
      BY <2>4, <3>1, <3>2 DEF Older
  <2>. QED
    BY <2>1, <2>2, <2>3, <2>4
<1>13. ~Holds(t, s[i].key)
  BY <1>4, <1>5, <1>7, <1>12 DEF Holds
<1>14. ASSUME NEW key, Holds(t, key) PROVE Holds(r, key)
  <2>1. PICK j \in 1 .. Len(s) - 1 : w[j].key = key
    BY <1>4, <1>5, <1>14 DEF Holds
  <2>2. PICK k \in 1 .. Len(s) : w[j] = s[k]
    BY <1>7
  <2>3. k \in DOMAIN s /\ s[k].key = key
    BY <1>1, <2>1, <2>2
  <2>. QED
    BY <2>3 DEF Holds, s
<1>15. ASSUME NEW key, Holds(r, key) PROVE Holds(t, key) \/ key = s[i].key
  <2>1. PICK k \in 1 .. Len(s) : s[k].key = key
    BY <1>1, <1>15 DEF Holds, s
  <2>2. k # i => \E j \in DOMAIN t.skipped : t.skipped[j] = s[k]
    BY <1>4, <1>5, <1>8
  <2>. QED
    BY <2>1, <2>2 DEF Holds
<1>. QED
  BY <1>4, <1>11, <1>13, <1>14, <1>15 DEF s

-----------------------------------------------------------------------------
(* The two ends and what is in the air *)

\* The end with the ratchet r, which numbered its messages up to k, wrote m.
Wrote(r, k, m) ==
  /\ Keyed(m)
  /\ m.number \in 1 .. k
  /\ \/ m.hdr.pub[2] < r.dhs
     \/ m.hdr.pub[2] = r.dhs /\ m.hdr.n < r.ns
  /\ m.hdr.pub[2] + 1 = r.dhs => m.hdr.n < r.pn
  /\ On(m) <= 2 => m.hdr.pn = 0

\* pn counts the chain before.
Counts(m1, m2) ==
  m1.from = m2.from /\ m1.hdr.pub[2] + 1 = m2.hdr.pub[2] => m1.hdr.n < m2.hdr.pn

SameMessage(m1, m2) ==
  \/ m1.key = m2.key
  \/ m1.from = m2.from /\ m1.number = m2.number

\* Where the end p with the ratchet r stands with m, when opened are the numbers
\* of the messages of the other end that it opened.
Heard(p, r, opened, m) ==
  /\ m.number \in opened => Past(p, r, On(m), m.hdr.n) /\ ~Holds(r, m.key)
  /\ Past(p, r, On(m), m.hdr.n) =>
       m.number \in opened \/ Holds(r, m.key) \/ Lost(r, m.key)

\* One end is a step ahead and has read no more than the other one wrote.
InTurn(p, r, s) ==
  LastOf(p, r) = LastOf(Other(p), s) + 1 /\ r.nr <= s.ns

EndsInv == \A p \in Peers : EndOK(p, end[p])

TurnInv == \E p \in Peers : InTurn(p, end[p], end[Other(p)])

AirInv ==
  /\ \A m \in air : Wrote(end[m.from], sent[m.from], m)
  /\ \A m1, m2 \in air : Counts(m1, m2) /\ (SameMessage(m1, m2) => m1 = m2)

HeardInv ==
  /\ \A m \in air : Heard(Other(m.from), end[Other(m.from)], delivered[m.from], m)
  /\ \A p \in Peers : delivered[p] \subseteq 1 .. sent[p]

RatchetInv == TypeOK /\ EndsInv /\ TurnInv /\ AirInv /\ HeardInv

\* p opens m.
Hears(p, m) ==
  /\ m \in air /\ m.from = Other(p) /\ m.number \notin delivered[m.from]
  /\ \E t : Opened(p, end[p], m, t) /\ end' = [end EXCEPT ![p] = t]
  /\ Deliver(p, m)
  /\ UNCHANGED <<air, sent>>

\* Whatever header stands before a text, it opens as its sender wrote it or
\* changes nothing.
LEMMA DecryptHears ==
  ASSUME RatchetAssumption, NoValueAssumption, RatchetInv,
         NEW p \in Peers, NEW m \in air, m.from = Other(p),
         NEW h, Decrypt(p, h, m)
  PROVE  Hears(p, m) \/ UNCHANGED vars
<1> DEFINE r == end[p]
           c == On(m)
           n == m.hdr.n
<1>1. /\ r \in DoubleRatchet /\ EndOK(p, r) /\ m \in Message
      /\ end \in [Peers -> DoubleRatchet]
      /\ received \in [Peers -> Nat] /\ delivered \in [Peers -> SUBSET Nat]
  BY DEF RatchetInv, TypeOK, EndsInv
<1>2. /\ Keyed(m) /\ Heard(p, r, delivered[m.from], m)
      /\ c \in Nat /\ n \in Nat /\ m.key = Chain(c, n)
  <2>1. p = Other(m.from) /\ m.from \in Peers
    BY OtherPeer
  <2>2. Keyed(m) /\ Heard(p, r, delivered[m.from], m)
    BY <2>1 DEF RatchetInv, AirInv, HeardInv, Wrote
  <2>3. m.hdr.pub[2] \in Nat /\ n \in Nat
    BY <1>1 DEF Message, Header, Pub
  <2>. QED
    BY <2>1, <2>2, <2>3, ChainOfNumbers DEF Keyed, On
<1>3. end = [end EXCEPT ![p] = r]
  BY <1>1
<1> HIDE DEF r, c, n
<1>4. CASE DecryptSkipped(p, h, m)
  <2>1. PICK i \in Found(r, h) :
          /\ IF Opens(r.skipped[i].key, h, m)
             THEN /\ end' = [end EXCEPT ![p].skipped = Without(@, i)]
                  /\ Deliver(p, m)
             ELSE UNCHANGED <<end, received, delivered>>
          /\ UNCHANGED <<air, sent>>
    BY <1>4 DEF DecryptSkipped, r
  <2>2. CASE ~Opens(r.skipped[i].key, h, m)
    BY <2>1, <2>2 DEF vars
  <2>3. CASE Opens(r.skipped[i].key, h, m)
    <3> DEFINE t == [r EXCEPT !.skipped = Without(r.skipped, i)]
    <3>1. end' = [end EXCEPT ![p] = t]
      BY <1>1, <2>1, <2>3 DEF r
    <3>2. i \in DOMAIN r.skipped /\ r.skipped[i].key = m.key
      BY <2>3 DEF Found, Opens
    <3>3. /\ t \in DoubleRatchet /\ EndOK(p, t)
          /\ SameElse(r, t) /\ t.nr = r.nr /\ t.ckr = r.ckr
          /\ t.evicted = r.evicted
          /\ ~Holds(t, m.key)
          /\ \A key : Holds(t, key) => Holds(r, key)
          /\ \A key : Holds(r, key) => Holds(t, key) \/ key = m.key
      BY <1>1, <3>2, OpenSkipped
    <3> HIDE DEF t
    <3>4. Holds(r, m.key)
      BY <3>2 DEF Holds
    <3>5. Past(p, r, c, n)
      BY <1>1, <1>2, <3>4, KeptPast
    <3>6. \A c1, n1 \in Nat : Past(p, t, c1, n1) <=> Past(p, r, c1, n1)
      BY <3>3 DEF Past, LastOf, SameElse
    <3>7. \A key : Lost(t, key) <=> Lost(r, key)
      BY <3>3 DEF Lost
    <3>8. Opened(p, r, m, t)
      BY <1>2, <3>3, <3>5, <3>6, <3>7 DEF Opened, SameElse, c, n
    <3>9. m.number \notin delivered[m.from]
      BY <1>2, <3>4 DEF Heard
    <3>. QED
      BY <2>1, <2>3, <3>1, <3>8, <3>9 DEF Hears, r
  <2>. QED
    BY <2>2, <2>3
<1>5. CASE DecryptNext(p, h, m)
  <2> DEFINE a == AtMessage(p, r, h)
  <2>1. CASE ~OutOfReach(p, r, h) /\ Opens(a.ckr, h, m)
    <3>1. h = m.hdr /\ a.ckr = m.key
      BY <2>1 DEF Opens
    <3>2. /\ end' = [end EXCEPT ![p] = Read(a)]
          /\ Deliver(p, m) /\ UNCHANGED <<air, sent>>
      BY <1>1, <1>5, <2>1 DEF DecryptNext, Settled, r
    <3>3. ~Past(p, r, c, n) /\ Opened(p, r, m, Read(a))
      BY <1>1, <1>2, <2>1, <3>1, OpenSameChain, OpenNextChain DEF c, n
    <3>4. m.number \notin delivered[m.from]
      BY <1>2, <3>3 DEF Heard, c, n
    <3>. QED
      BY <3>2, <3>3, <3>4 DEF Hears, r
  <2>2. CASE ~(~OutOfReach(p, r, h) /\ Opens(a.ckr, h, m))
    <3>1. /\ end' = [end EXCEPT ![p] = r]
          /\ UNCHANGED <<received, delivered, air, sent>>
      BY <1>1, <1>5, <2>2 DEF DecryptNext, Settled, r
    <3>. QED
      BY <1>3, <3>1 DEF vars
  <2>. QED
    BY <2>1, <2>2
<1>. QED
  BY <1>4, <1>5 DEF Decrypt

\* Every step is a message that is written, one that opens, or nothing.
LEMMA RatchetSteps ==
  ASSUME RatchetAssumption, NoValueAssumption, RatchetInv, [Next]_vars
  PROVE  \/ \E p \in Peers : Encrypt(p)
         \/ \E p \in Peers, m \in air : Hears(p, m)
         \/ UNCHANGED vars
  BY DecryptHears DEF Next

\* Two messages of different ends, or of one end under different keys of its own,
\* are of different chains.
LEMMA OnNumbers ==
  ASSUME RatchetAssumption, NEW m1 \in Message, NEW m2 \in Message
  PROVE  /\ On(m1) \in Nat /\ m1.hdr.n \in Nat /\ m1.hdr.pub[2] \in Nat
         /\ m1.hdr.pn \in Nat /\ m1.number \in Nat
         /\ Keyed(m1) => m1.key = Chain(On(m1), m1.hdr.n)
         /\ On(m1) = On(m2) => m1.from = m2.from /\ m1.hdr.pub[2] = m2.hdr.pub[2]
         /\ Keyed(m1) /\ Keyed(m2) /\ m1.key = m2.key =>
              m1.from = m2.from /\ m1.hdr.pub[2] = m2.hdr.pub[2] /\ m1.hdr.n = m2.hdr.n
<1>1. /\ m1.hdr.n \in Nat /\ m1.hdr.pub[2] \in Nat /\ m2.hdr.n \in Nat
      /\ m2.hdr.pub[2] \in Nat /\ m1.from \in Peers /\ m2.from \in Peers
      /\ m1.hdr.pn \in Nat /\ m1.number \in Nat
  BY DEF Message, Header, Pub
<1>2. On(m1) \in Nat /\ On(m2) \in Nat
  BY <1>1, ChainOfNumbers DEF On
<1>3. ASSUME On(m1) = On(m2)
      PROVE  m1.from = m2.from /\ m1.hdr.pub[2] = m2.hdr.pub[2]
  <2> DEFINE i == m1.hdr.pub[2]
             j == m2.hdr.pub[2]
  <2>1. \A x, y \in Nat : 2 * x + 1 # 2 * y
    OBVIOUS
  <2>2. \A x, y \in Nat : /\ 2 * x = 2 * y => x = y
                          /\ 2 * x + 1 = 2 * y + 1 => x = y
    OBVIOUS
  <2>3. i \in Nat /\ j \in Nat
    BY <1>1
  <2>4. ChainOf(m1.from, i) = ChainOf(m2.from, j)
    BY <1>3 DEF On
  <2> HIDE DEF i, j
  <2>5. (m1.from = Initiator) <=> (m2.from = Initiator)
    BY <2>1, <2>3, <2>4 DEF ChainOf
  <2>6. m1.from = m2.from
    BY <1>1, <2>5 DEF Peers
  <2>7. i = j
    BY <2>2, <2>3, <2>4, <2>5 DEF ChainOf
  <2>. QED
    BY <2>6, <2>7 DEF i, j
<1>4. ASSUME Keyed(m1), Keyed(m2), m1.key = m2.key
      PROVE  On(m1) = On(m2) /\ m1.hdr.n = m2.hdr.n
  <2>1. Chain(On(m1), m1.hdr.n) = Chain(On(m2), m2.hdr.n)
    BY <1>4 DEF Keyed
  <2>. QED
    BY <1>1, <1>2, <2>1, ChainSame
<1>. QED
  BY <1>1, <1>2, <1>3, <1>4 DEF Keyed

\* The two ends after the handshake.
LEMMA RatchetStart ==
  ASSUME RatchetAssumption, NoValueAssumption, Init
  PROVE  RatchetInv
<1>1. Initiator \in Peers /\ Responder \in Peers
  BY DEF Peers
<1>2. /\ Root(0) = << >> /\ Root(0) \in RootKey /\ Root(1) \in RootKey
      /\ KdfRoot(Root(0), Turn(1)) = Root(1)
  <2>1. Root(0) = << >>
    BY DEF Root
  <2>2. 0 \in Nat /\ 1 \in Nat /\ 0 + 1 = 1
    OBVIOUS
  <2>. QED
    BY <2>1, <2>2, RootSteps
<1>3. DH(<<Initiator, 0>>, <<Responder, 0>>) = Turn(1)
  <2>1. (1 - 1) \div 2 = 0 /\ 1 \div 2 = 0
    OBVIOUS
  <2>. QED
    BY <2>1 DEF Turn
<1>4. FirstKey(Root(1)) = Chain(1, 0) /\ Chain(1, 0) \in ChainKey
  BY ChainType
<1>5. InitSender = [dhs |-> 0, dhr |-> <<Responder, 0>>, rk |-> Root(1),
                    cks |-> Chain(1, 0), ckr |-> NoChain,
                    ns |-> 0, nr |-> 0, pn |-> 0, skipped |-> << >>, evicted |-> {}]
  BY <1>2, <1>3, <1>4, Zenon DEF InitSender
<1>6. <<Responder, 0>> \in Pub /\ <<Responder, 0>>[1] = Responder
      /\ <<Responder, 0>>[2] = 0
  BY <1>1 DEF Pub
<1>7. << >> \in Seq(Skipped) /\ DOMAIN << >> = {} /\ Len(<< >>) = 0
  OBVIOUS
<1> HIDE DEF InitSender
<1>8. InitSender \in DoubleRatchet /\ InitReceiver \in DoubleRatchet
  <2>1. InitSender \in DoubleRatchet
    BY <1>2, <1>4, <1>5, <1>6, <1>7 DEF DoubleRatchet
  <2>2. InitReceiver \in DoubleRatchet
    BY <1>2, <1>7 DEF DoubleRatchet, InitReceiver
  <2>. QED
    BY <2>1, <2>2
<1>9. /\ Other(Initiator) = Responder /\ Other(Responder) = Initiator
      /\ ChainOf(Initiator, 0) = 1 /\ ChainOf(Responder, 0) = 0
  BY DEF Other, ChainOf, RatchetAssumption
<1>10. LastOf(Initiator, InitSender) = 1 /\ LastOf(Responder, InitReceiver) = 0
  BY <1>5, <1>9 DEF LastOf, InitReceiver
<1>11. EndOK(Initiator, InitSender)
  <2>1. Sending(InitSender, 1)
    BY <1>5 DEF Sending
  <2>2. Receiving(Responder, InitSender, 1)
    BY <1>5, <1>6, <1>9 DEF Receiving
  <2>3. Kept(Responder, InitSender, 1 - 1)
    BY <1>5, <1>7 DEF Kept, RatchetAssumption
  <2>. QED
    BY <1>9, <1>10, <2>1, <2>2, <2>3 DEF EndOK
<1>12. EndOK(Responder, InitReceiver)
  <2>1. Sending(InitReceiver, 0)
    BY <1>2 DEF Sending, InitReceiver
  <2>2. Receiving(Initiator, InitReceiver, 0)
    BY DEF Receiving, InitReceiver
  <2>3. Kept(Initiator, InitReceiver, 0 - 1)
    BY <1>7 DEF Kept, InitReceiver, RatchetAssumption
  <2>. QED
    BY <1>9, <1>10, <2>1, <2>2, <2>3 DEF EndOK
<1>13. end[Initiator] = InitSender /\ end[Responder] = InitReceiver
  BY <1>1 DEF Init, RatchetAssumption
<1>14. TypeOK
  BY <1>8 DEF Init, TypeOK
<1>15. EndsInv
  BY <1>11, <1>12, <1>13 DEF EndsInv, Peers
<1>16. TurnInv
  <2>1. InitSender.nr = 0 /\ InitReceiver.ns = 0
    BY <1>5 DEF InitReceiver
  <2>2. InTurn(Initiator, end[Initiator], end[Other(Initiator)])
    BY <1>9, <1>10, <1>13, <2>1 DEF InTurn
  <2>. QED
    BY <1>1, <2>2 DEF TurnInv
<1>17. AirInv /\ HeardInv
  BY DEF Init, AirInv, HeardInv
<1>. QED
  BY <1>14, <1>15, <1>16, <1>17 DEF RatchetInv

\* A new message has a key and a number of its own.
LEMMA EncryptKeeps ==
  ASSUME RatchetAssumption, NoValueAssumption, RatchetInv,
         NEW p \in Peers, Encrypt(p)
  PROVE  RatchetInv'
<1> DEFINE r == end[p]
           t == Encrypted(end[p])
           l == LastOf(p, end[p])
           m == [from |-> p, number |-> sent[p] + 1,
                 hdr |-> HeaderNow(p, end[p]), key |-> end[p].cks]
           o == Other(p)
<1>1. /\ r \in DoubleRatchet /\ EndOK(p, r) /\ r.cks # NoChain
      /\ end \in [Peers -> DoubleRatchet] /\ air \in SUBSET Message
      /\ sent \in [Peers -> Nat] /\ received \in [Peers -> Nat]
      /\ delivered \in [Peers -> SUBSET Nat]
  BY DEF RatchetInv, TypeOK, EndsInv, Encrypt
<1>2. /\ end' = [end EXCEPT ![p] = t] /\ air' = air \cup {m}
      /\ sent' = [sent EXCEPT ![p] = @ + 1]
      /\ received' = received /\ delivered' = delivered
  BY DEF Encrypt
<1>3. /\ t \in DoubleRatchet /\ EndOK(p, t) /\ l >= 1
      /\ t.dhs = r.dhs /\ t.ns = r.ns + 1 /\ t.pn = r.pn /\ t.nr = r.nr
      /\ t.skipped = r.skipped /\ t.evicted = r.evicted
      /\ t.dhr = r.dhr /\ t.ckr = r.ckr
  BY <1>1, EncryptStep
<1>4. /\ r.dhs \in Nat /\ r.ns \in Nat /\ r.pn \in Nat /\ r.nr \in Nat
      /\ l \in Nat /\ l = ChainOf(p, r.dhs) /\ r.cks \in ChainKey
  BY <1>1, ChainOfNumbers DEF DoubleRatchet, LastOf
<1>5. r.cks = Chain(l, r.ns) /\ (l <= 2 => r.pn = 0)
  BY <1>1, <1>3, <1>4 DEF EndOK, Sending
<1>6. o \in Peers /\ o # p /\ Other(o) = p /\ \A q \in Peers : q # p => q = o
  BY OtherPeer
<1>7. /\ end'[p] = t /\ end'[o] = end[o]
      /\ sent'[p] = sent[p] + 1 /\ sent'[o] = sent[o]
      /\ sent[p] \in Nat /\ sent[o] \in Nat
      /\ end' \in [Peers -> DoubleRatchet] /\ sent' \in [Peers -> Nat]
  BY <1>1, <1>2, <1>3, <1>6
<1>8. m.hdr = [pub |-> <<p, r.dhs>>, pn |-> r.pn, n |-> r.ns]
  BY DEF HeaderNow
<1>9. /\ m.from = p /\ m.number = sent[p] + 1 /\ m.key = r.cks
      /\ m.hdr.pub = <<p, r.dhs>> /\ m.hdr.pn = r.pn /\ m.hdr.n = r.ns
      /\ m.hdr.pub[1] = p /\ m.hdr.pub[2] = r.dhs
  BY <1>8
<1>10. m \in Message
  <2>1. m.hdr \in Header
    BY <1>4, <1>8 DEF Header, Pub
  <2>2. ASSUME NEW k \in Nat, NEW h \in Header, NEW ck \in ChainKey
        PROVE  [from |-> p, number |-> k, hdr |-> h, key |-> ck] \in Message
    BY DEF Message
  <2>3. sent[p] + 1 \in Nat /\ HeaderNow(p, end[p]) \in Header /\ end[p].cks \in ChainKey
    BY <1>4, <1>7, <2>1
  <2>. QED
    BY <2>2, <2>3
<1>11. On(m) = l
  BY <1>4, <1>9 DEF On
<1> HIDE DEF r, t, l, m, o
<1>12. Keyed(m)
  BY <1>3, <1>5, <1>9, <1>11 DEF Keyed
<1>13. LastOf(p, t) = l
  BY <1>3 DEF LastOf, l, r
<1>14. \A m1 \in air : /\ m1 \in Message
                       /\ Wrote(end[m1.from], sent[m1.from], m1)
                       /\ Heard(Other(m1.from), end[Other(m1.from)],
                                delivered[m1.from], m1)
                       /\ m1.from \in Peers
  BY <1>1 DEF RatchetInv, AirInv, HeardInv, Message
<1>15. TypeOK'
  BY <1>1, <1>2, <1>7, <1>10 DEF TypeOK
<1>16. EndsInv'
  <2>1. \A q \in Peers : EndOK(q, end'[q])
    BY <1>3, <1>6, <1>7 DEF RatchetInv, EndsInv
  <2>. QED
    BY <2>1 DEF EndsInv
<1>17. TurnInv'
  <2>1. PICK q \in Peers : InTurn(q, end[q], end[Other(q)])
    BY DEF RatchetInv, TurnInv
  <2>2. CASE q = p
    <3>1. InTurn(p, t, end[o])
      BY <1>3, <1>13, <2>1, <2>2 DEF InTurn, l, o, r
    <3>. QED
      BY <1>6, <1>7, <3>1 DEF TurnInv, o
  <2>3. CASE q = o
    <3>1. end[o].nr \in Nat
      BY <1>1, <1>6 DEF DoubleRatchet
    <3>2. InTurn(o, end[o], r)
      BY <1>6, <2>1, <2>3 DEF r
    <3>3. InTurn(o, end[o], t)
      BY <1>3, <1>4, <1>6, <1>13, <3>1, <3>2 DEF InTurn, l, r
    <3>. QED
      BY <1>6, <1>7, <3>3 DEF TurnInv
  <2>. QED
    BY <1>6, <2>2, <2>3
<1>18. Wrote(t, sent[p] + 1, m)
  BY <1>3, <1>4, <1>5, <1>7, <1>9, <1>11, <1>12 DEF Wrote
<1>19. ASSUME NEW m1 \in air PROVE Wrote(end'[m1.from], sent'[m1.from], m1)
  <2>1. /\ m1.hdr.n \in Nat /\ m1.hdr.pub[2] \in Nat /\ m1.number \in Nat
        /\ m1.from \in Peers /\ Wrote(end[m1.from], sent[m1.from], m1)
    BY <1>14, OnNumbers
  <2>2. CASE m1.from = p
    <3>1. Wrote(t, sent[p] + 1, m1)
      BY <1>3, <1>4, <1>7, <2>1, <2>2 DEF Wrote, r
    <3>. QED
      BY <1>7, <2>2, <3>1
  <2>3. CASE m1.from = o
    BY <1>7, <2>1, <2>3
  <2>. QED
    BY <1>6, <2>1, <2>2, <2>3
<1>20. ASSUME NEW m1 \in air
       PROVE  /\ Counts(m1, m) /\ Counts(m, m1)
              /\ ~SameMessage(m1, m) /\ ~SameMessage(m, m1)
  <2>1. /\ m1.hdr.n \in Nat /\ m1.hdr.pub[2] \in Nat /\ m1.number \in Nat
        /\ m1 \in Message /\ Wrote(end[m1.from], sent[m1.from], m1)
    BY <1>14, OnNumbers
  <2>2. m1.from = p => Wrote(r, sent[p], m1)
    BY <2>1 DEF r
  <2>3. Counts(m1, m)
    BY <1>9, <2>2 DEF Counts, Wrote
  <2>4. Counts(m, m1)
    BY <1>4, <1>9, <2>1, <2>2 DEF Counts, Wrote
  <2>5. m1.key # m.key
    <3>1. SUFFICES ASSUME m1.key = m.key PROVE FALSE
      OBVIOUS
    <3>2. m1.from = p /\ m1.hdr.pub[2] = r.dhs /\ m1.hdr.n = r.ns
      BY <1>9, <1>10, <1>12, <2>1, <3>1, OnNumbers DEF Wrote
    <3>. QED
      BY <1>4, <2>2, <3>2 DEF Wrote
  <2>6. ~(m1.from = p /\ m1.number = sent[p] + 1)
    BY <1>7, <2>1, <2>2 DEF Wrote
  <2>. QED
    BY <1>9, <2>3, <2>4, <2>5, <2>6 DEF SameMessage
<1>21. Counts(m, m)
  BY <1>4, <1>9 DEF Counts
<1>22. AirInv'
  <2>1. \A m1 \in air' : Wrote(end'[m1.from], sent'[m1.from], m1)
    BY <1>2, <1>7, <1>9, <1>18, <1>19
  <2>2. \A m1, m2 \in air' :
          Counts(m1, m2) /\ (SameMessage(m1, m2) => m1 = m2)
    BY <1>2, <1>20, <1>21 DEF RatchetInv, AirInv
  <2>. QED
    BY <2>1, <2>2 DEF AirInv
<1>23. Heard(o, end[o], delivered[p], m)
  <2>1. delivered[p] \subseteq 1 .. sent[p]
    BY DEF RatchetInv, HeardInv
  <2>2. m.number \notin delivered[p]
    BY <1>7, <1>9, <2>1
  <2>3. ~Past(o, end[o], l, r.ns)
    <3>1. /\ end[o].nr \in Nat /\ LastOf(o, end[o]) \in Nat
      BY <1>1, <1>6, ChainOfNumbers DEF DoubleRatchet, LastOf
    <3>2. PICK q \in Peers : InTurn(q, end[q], end[Other(q)])
      BY DEF RatchetInv, TurnInv
    <3>3. CASE q = p
      BY <1>4, <3>1, <3>2, <3>3 DEF InTurn, Past, l, o
    <3>4. CASE q = o
      <4>1. LastOf(o, end[o]) = l + 1 /\ end[o].nr <= r.ns
        BY <1>6, <3>2, <3>4 DEF InTurn, l, r
      <4>. QED
        BY <1>4, <3>1, <4>1 DEF Past
    <3>. QED
      BY <1>6, <3>3, <3>4
  <2>. QED
    BY <1>9, <1>11, <2>2, <2>3 DEF Heard
<1>24. ASSUME NEW m1 \in air
       PROVE  Heard(Other(m1.from), end'[Other(m1.from)], delivered[m1.from], m1)
  <2>1. /\ m1.from \in Peers
        /\ Heard(Other(m1.from), end[Other(m1.from)], delivered[m1.from], m1)
    BY <1>14
  <2>2. CASE m1.from = p
    BY <1>7, <2>1, <2>2 DEF o
  <2>3. CASE m1.from = o
    <3>1. Heard(p, r, delivered[m1.from], m1)
      BY <1>6, <2>1, <2>3 DEF r
    <3>2. Past(p, t, On(m1), m1.hdr.n) <=> Past(p, r, On(m1), m1.hdr.n)
      BY <1>3, <1>13 DEF Past, l, r
    <3>3. /\ Holds(t, m1.key) <=> Holds(r, m1.key)
          /\ Lost(t, m1.key) <=> Lost(r, m1.key)
      BY <1>3 DEF Holds, Lost
    <3>4. Heard(p, t, delivered[m1.from], m1)
      BY <3>1, <3>2, <3>3 DEF Heard
    <3>. QED
      BY <1>6, <1>7, <2>3, <3>4
  <2>. QED
    BY <1>6, <2>1, <2>2, <2>3
<1>25. HeardInv'
  <2>1. \A m1 \in air' :
          Heard(Other(m1.from), end'[Other(m1.from)], delivered'[m1.from], m1)
    BY <1>2, <1>7, <1>9, <1>23, <1>24 DEF o
  <2>2. ASSUME NEW q \in Peers PROVE delivered'[q] \subseteq 1 .. sent'[q]
    <3>1. delivered[q] \subseteq 1 .. sent[q]
      BY DEF RatchetInv, HeardInv
    <3>2. sent[q] \in Nat /\ sent'[q] \in Nat /\ sent[q] <= sent'[q]
      BY <1>6, <1>7
    <3>. QED
      BY <1>2, <3>1, <3>2
  <2>. QED
    BY <2>1, <2>2 DEF HeardInv
<1>. QED
  BY <1>15, <1>16, <1>17, <1>22, <1>25 DEF RatchetInv

\* A message that opens was not opened before and does not open again.
LEMMA HearsKeeps ==
  ASSUME RatchetAssumption, NoValueAssumption, RatchetInv,
         NEW p \in Peers, NEW m \in air, Hears(p, m)
  PROVE  RatchetInv'
<1> DEFINE r == end[p]
           l == LastOf(p, end[p])
           c == On(m)
           n == m.hdr.n
           q == Other(p)
<1>1. /\ r \in DoubleRatchet /\ EndOK(p, r) /\ m \in Message
      /\ end \in [Peers -> DoubleRatchet] /\ air \in SUBSET Message
      /\ sent \in [Peers -> Nat] /\ received \in [Peers -> Nat]
      /\ delivered \in [Peers -> SUBSET Nat]
  BY DEF RatchetInv, TypeOK, EndsInv
<1>2. PICK t : Opened(p, r, m, t) /\ end' = [end EXCEPT ![p] = t]
  BY DEF Hears
<1>3. /\ received' = [received EXCEPT ![p] = @ + 1]
      /\ delivered' = [delivered EXCEPT ![m.from] = @ \cup {m.number}]
      /\ air' = air /\ sent' = sent
      /\ m.from = q /\ m.number \notin delivered[q]
  BY DEF Hears, Deliver
<1>4. q \in Peers /\ q # p /\ Other(q) = p /\ \A x \in Peers : x # p => x = q
  BY OtherPeer
<1>5. t \in DoubleRatchet /\ EndOK(p, t)
  BY <1>2 DEF Opened
<1>6. /\ end'[p] = t /\ end'[q] = end[q] /\ end[q] \in DoubleRatchet
      /\ delivered'[q] = delivered[q] \cup {m.number} /\ delivered'[p] = delivered[p]
      /\ end' \in [Peers -> DoubleRatchet]
      /\ delivered' \in [Peers -> SUBSET Nat] /\ received' \in [Peers -> Nat]
  <2>1. m.number \in Nat
    BY <1>1, OnNumbers
  <2>. QED
    BY <1>1, <1>2, <1>3, <1>4, <1>5, <2>1
<1>7. /\ r.dhs \in Nat /\ r.ns \in Nat /\ r.pn \in Nat /\ r.nr \in Nat
      /\ t.dhs \in Nat /\ t.ns \in Nat /\ t.pn \in Nat /\ t.nr \in Nat
      /\ end[q].dhs \in Nat /\ end[q].ns \in Nat /\ end[q].nr \in Nat
  BY <1>1, <1>5, <1>6 DEF DoubleRatchet
<1>8. /\ l = ChainOf(p, r.dhs) /\ l \in Nat
      /\ LastOf(p, t) = ChainOf(p, t.dhs) /\ LastOf(p, t) \in Nat
      /\ LastOf(q, end[q]) = ChainOf(q, end[q].dhs) /\ LastOf(q, end[q]) \in Nat
      /\ ChainOf(p, r.dhs + 1) = l + 2
  BY <1>4, <1>7, ChainOfNumbers DEF LastOf
<1>9. /\ Wrote(end[q], sent[q], m) /\ Keyed(m) /\ m.key = Chain(c, n)
      /\ c \in Nat /\ n \in Nat /\ m.hdr.pub[2] \in Nat /\ c = ChainOf(q, m.hdr.pub[2])
  BY <1>1, <1>3, OnNumbers DEF RatchetInv, AirInv, Wrote, On
<1> HIDE DEF r, l, c, n, q
<1>10. \A m1 \in air : /\ m1 \in Message /\ m1.from \in Peers
                       /\ Wrote(end[m1.from], sent[m1.from], m1)
                       /\ Heard(Other(m1.from), end[Other(m1.from)],
                                delivered[m1.from], m1)
                       /\ Counts(m1, m) /\ (SameMessage(m1, m) => m1 = m)
  BY <1>1 DEF RatchetInv, AirInv, HeardInv, Message
<1>11. TypeOK'
  BY <1>1, <1>3, <1>6 DEF TypeOK
<1>12. EndsInv'
  <2>1. \A x \in Peers : EndOK(x, end'[x])
    BY <1>4, <1>5, <1>6 DEF RatchetInv, EndsInv
  <2>. QED
    BY <2>1 DEF EndsInv
\* How far the sender is.
<1>13. /\ c <= LastOf(q, end[q])
       /\ c = LastOf(q, end[q]) => n < end[q].ns
  <2>1. \/ m.hdr.pub[2] < end[q].dhs
        \/ m.hdr.pub[2] = end[q].dhs /\ m.hdr.n < end[q].ns
    BY <1>9 DEF Wrote
  <2>2. m.hdr.pub[2] < end[q].dhs => c + 2 <= LastOf(q, end[q])
    <3>1. \A i, j \in Nat : i < j => ChainOf(q, i) + 2 <= ChainOf(q, j)
      BY <1>4, ChainOfNumbers
    <3>. QED
      BY <1>7, <1>8, <1>9, <3>1
  <2>. QED
    BY <1>8, <1>9, <2>1, <2>2 DEF n
<1>14. PICK x \in Peers : InTurn(x, end[x], end[Other(x)])
  BY DEF RatchetInv, TurnInv
<1>15. \/ LastOf(p, r) = LastOf(q, end[q]) + 1 /\ r.nr <= end[q].ns
       \/ LastOf(q, end[q]) = LastOf(p, r) + 1 /\ end[q].nr <= r.ns
  BY <1>4, <1>14 DEF InTurn, r, q
<1>16. \/ t.dhs = r.dhs /\ t.ns = r.ns /\ t.pn = r.pn
       \/ c = l + 1 /\ t.dhs = r.dhs + 1 /\ t.ns = 0 /\ t.pn = r.ns
  BY <1>2 DEF Opened, c, l, r
<1>17. \/ t.nr = r.nr /\ t.dhs = r.dhs
       \/ t.nr = n + 1 /\ c = LastOf(p, t) - 1
  BY <1>2 DEF Opened, c, n
<1>18. TurnInv'
  <2>1. CASE LastOf(p, t) = LastOf(q, end[q]) + 1
    <3>1. t.nr <= end[q].ns
      <4>1. CASE t.nr = r.nr /\ t.dhs = r.dhs
        <5>1. LastOf(p, t) = LastOf(p, r) /\ LastOf(p, r) \in Nat
          BY <1>8, <4>1 DEF LastOf, l, r
        <5>. QED
          BY <1>8, <1>15, <2>1, <4>1, <5>1
      <4>2. CASE t.nr = n + 1 /\ c = LastOf(p, t) - 1
        BY <1>7, <1>8, <1>9, <1>13, <2>1, <4>2
      <4>. QED
        BY <1>17, <4>1, <4>2
    <3>. QED
      BY <1>4, <1>6, <2>1, <3>1 DEF TurnInv, InTurn, q
  <2>2. CASE LastOf(p, t) # LastOf(q, end[q]) + 1
    <3>1. t.dhs = r.dhs /\ t.ns = r.ns
      <4>1. CASE c = l + 1 /\ t.dhs = r.dhs + 1
        <5>1. LastOf(p, t) = l + 2
          BY <1>8, <4>1
        <5>2. LastOf(q, end[q]) = l + 1
          BY <1>8, <1>13, <1>15, <4>1 DEF l, r
        <5>. QED
          BY <1>8, <2>2, <5>1, <5>2
      <4>. QED
        BY <1>16, <4>1
    <3>2. LastOf(q, end[q]) = LastOf(p, t) + 1 /\ end[q].nr <= t.ns
      <4>1. LastOf(p, t) = LastOf(p, r)
        BY <3>1 DEF LastOf
      <4>. QED
        BY <1>15, <2>2, <3>1, <4>1
    <3>. QED
      BY <1>4, <1>6, <3>2 DEF TurnInv, InTurn
  <2>. QED
    BY <2>1, <2>2
<1>19. ASSUME NEW m1 \in air PROVE Wrote(end'[m1.from], sent'[m1.from], m1)
  <2>1. /\ m1.hdr.n \in Nat /\ m1.hdr.pub[2] \in Nat
        /\ m1.from \in Peers /\ Wrote(end[m1.from], sent[m1.from], m1)
    BY <1>10, OnNumbers
  <2>2. CASE m1.from = p
    <3>1. Wrote(r, sent[p], m1)
      BY <2>1, <2>2 DEF r
    <3>2. Wrote(t, sent[p], m1)
      BY <1>7, <1>16, <2>1, <3>1 DEF Wrote
    <3>. QED
      BY <1>3, <1>6, <2>2, <3>2
  <2>3. CASE m1.from = q
    BY <1>3, <1>6, <2>1, <2>3
  <2>. QED
    BY <1>4, <2>1, <2>2, <2>3
<1>20. AirInv'
  BY <1>3, <1>19 DEF RatchetInv, AirInv
<1>21. ASSUME NEW m1 \in air, m1.from = q
       PROVE  Heard(p, t, delivered[q] \cup {m.number}, m1)
  <2> DEFINE c1 == On(m1)
             n1 == m1.hdr.n
  <2>1. /\ m1 \in Message /\ Keyed(m1) /\ Heard(p, r, delivered[q], m1)
        /\ Counts(m1, m) /\ (SameMessage(m1, m) => m1 = m)
    BY <1>4, <1>10, <1>21 DEF Wrote, r
  <2>2. /\ c1 \in Nat /\ n1 \in Nat /\ c1 >= 1 /\ m1.key = Chain(c1, n1)
        /\ m1.hdr.pub[2] \in Nat /\ c1 = ChainOf(q, m1.hdr.pub[2])
    BY <1>21, <2>1, OnNumbers DEF Keyed, On
  <2> HIDE DEF c1, n1
  <2>3. CASE m1 = m
    BY <1>2, <2>3 DEF Opened, Heard
  <2>4. CASE m1 # m
    <3>1. m1.key # m.key /\ m1.number # m.number
      BY <1>3, <1>21, <2>1, <2>4 DEF SameMessage
    <3>2. ASSUME m1.number \in delivered[q]
          PROVE  Past(p, t, c1, n1) /\ ~Holds(t, m1.key)
      <4>1. Past(p, r, c1, n1) /\ ~Holds(r, m1.key)
        BY <2>1, <3>2 DEF Heard, c1, n1
      <4>. QED
        BY <1>2, <2>2, <4>1 DEF Opened
    <3>3. ASSUME Past(p, t, c1, n1)
          PROVE  m1.number \in delivered[q] \/ Holds(t, m1.key) \/ Lost(t, m1.key)
      <4>1. CASE Past(p, r, c1, n1)
        <5>1. m1.number \in delivered[q] \/ Holds(r, m1.key) \/ Lost(r, m1.key)
          BY <2>1, <4>1 DEF Heard, c1, n1
        <5>. QED
          BY <1>2, <3>1, <5>1 DEF Opened
      <4>2. CASE ~Past(p, r, c1, n1)
        <5>1. c1 # l
          <6>1. \A i, j \in Nat : 2 * i + 1 # 2 * j
            OBVIOUS
          <6>. QED
            BY <1>4, <1>7, <1>8, <2>2, <6>1 DEF ChainOf, q, Other, RatchetAssumption
        <5>2. c = l + 1 /\ c1 = l - 1 => n1 < m.hdr.pn
          <6>1. SUFFICES ASSUME c = l + 1, c1 = l - 1 PROVE n1 < m.hdr.pn
            OBVIOUS
          <6>2. ChainOf(q, m1.hdr.pub[2] + 1) = c1 + 2
            BY <1>4, <2>2, ChainOfNumbers
          <6>3. ChainOf(q, m1.hdr.pub[2] + 1) = ChainOf(q, m.hdr.pub[2])
            BY <1>8, <1>9, <2>2, <6>1, <6>2
          <6>4. m1.hdr.pub[2] + 1 = m.hdr.pub[2]
            <7>1. \A i, j \in Nat : ChainOf(q, i) = ChainOf(q, j) => i = j
              BY <1>4, ChainOfNumbers
            <7>2. m1.hdr.pub[2] + 1 \in Nat
              BY <2>2
            <7>. QED
              BY <1>9, <6>3, <7>1, <7>2
          <6>. QED
            BY <1>3, <1>21, <2>1, <6>4 DEF Counts, n1
        <5>. QED
          BY <1>2, <2>2, <3>1, <3>3, <4>2, <5>1, <5>2 DEF Opened, c, l, r
      <4>. QED
        BY <4>1, <4>2
    <3>. QED
      BY <3>1, <3>2, <3>3 DEF Heard, c1, n1
  <2>. QED
    BY <2>3, <2>4
<1>22. HeardInv'
  <2>1. ASSUME NEW m1 \in air
        PROVE  Heard(Other(m1.from), end'[Other(m1.from)], delivered'[m1.from], m1)
    <3>1. CASE m1.from = q
      BY <1>4, <1>6, <1>21, <3>1
    <3>2. CASE m1.from = p
      BY <1>6, <1>10, <3>2 DEF q
    <3>. QED
      BY <1>4, <1>10, <3>1, <3>2
  <2>2. ASSUME NEW z \in Peers PROVE delivered'[z] \subseteq 1 .. sent'[z]
    BY <1>3, <1>4, <1>6, <1>9 DEF RatchetInv, HeardInv, Wrote
  <2>. QED
    BY <1>3, <2>1, <2>2 DEF HeardInv
<1>. QED
  BY <1>11, <1>12, <1>18, <1>20, <1>22 DEF RatchetInv

\* It holds in every reachable state.
LEMMA RatchetInvariant == Spec => []RatchetInv
<1>1. RatchetAssumption /\ NoValueAssumption
  BY RatchetAssumption, NoValueAssumption
<1>2. Init => RatchetInv
  BY <1>1, RatchetStart
<1>3. RatchetInv /\ [Next]_vars => RatchetInv'
  <2> SUFFICES ASSUME RatchetInv, [Next]_vars PROVE RatchetInv'
    OBVIOUS
  <2>1. CASE \E p \in Peers : Encrypt(p)
    BY <1>1, <2>1, EncryptKeeps
  <2>2. CASE \E p \in Peers, m \in air : Hears(p, m)
    BY <1>1, <2>2, HearsKeeps
  <2>3. CASE UNCHANGED vars
    BY <2>3 DEF vars, RatchetInv, TypeOK, EndsInv, TurnInv, AirInv, HeardInv
  <2>. QED
    BY <1>1, <2>1, <2>2, <2>3, RatchetSteps
<1>. QED
  BY <1>2, <1>3, PTL DEF Spec

-----------------------------------------------------------------------------
(* What the invariant shows *)

\* The fields of the two ends and of every message keep their types.
THEOREM RatchetTypes == Spec => []TypeOK
<1>1. RatchetInv => TypeOK
  BY DEF RatchetInv
<1>. QED
  BY <1>1, RatchetInvariant, PTL

\* The ends take turns in one sequence of Diffie-Hellman steps, whatever was lost,
\* repeated or reordered and whatever headers arrived (_dh_ratchet).
THEOREM EndsInLockstep == Spec => []Lockstep
<1>1. RatchetInv => Lockstep
  <2> SUFFICES ASSUME RatchetInv PROVE Lockstep
    OBVIOUS
  <2>1. PICK p \in Peers : LastOf(p, end[p]) = LastOf(Other(p), end[Other(p)]) + 1
    BY DEF RatchetInv, TurnInv, InTurn
  <2> DEFINE c == LastOf(Other(p), end[Other(p)])
  <2>2. Other(p) \in Peers
    BY OtherPeer, RatchetAssumption
  <2>3. c \in Nat
    <3>1. end[Other(p)].dhs \in Nat
      BY <2>2 DEF RatchetInv, TypeOK, DoubleRatchet
    <3>. QED
      BY <2>2, <3>1, ChainOfNumbers DEF LastOf
  <2>4. end[p].rk = Root(c + 1) /\ end[Other(p)].rk = Root(c)
    BY <2>1, <2>2 DEF RatchetInv, EndsInv, EndOK, Sending
  <2> HIDE DEF c
  <2>5. /\ Len(Root(c + 1)) = c + 1 /\ (c + 1) - 1 = c
        /\ SubSeq(Root(c + 1), 1, (c + 1) - 1) = Root((c + 1) - 1)
    BY <2>3, RootSteps
  <2>6. Root(c + 1) # << >>
    BY <2>3, <2>5
  <2>7. SubSeq(Root(c + 1), 1, Len(Root(c + 1)) - 1) = Root(c)
    BY <2>5
  <2>. QED
    BY <2>4, <2>6, <2>7 DEF Lockstep
<1>. QED
  BY <1>1, RatchetInvariant, PTL

\* No two messages of a session have one key, and with it one nonce (_kdf_ck).
THEOREM OneKeyEach == Spec => []OneKeyOneMessage
<1>1. RatchetInv => OneKeyOneMessage
  BY DEF RatchetInv, AirInv, SameMessage, OneKeyOneMessage
<1>. QED
  BY <1>1, RatchetInvariant, PTL

\* Once a message was opened neither end holds a key for it, its sender never
\* did; and of the skipped keys the oldest are thrown away (_try_skipped,
\* _skip_message_keys).
THEOREM UsedKeysAreGone == Spec => []KeysKept
<1>1. RatchetInv => UsedKeysGone
  <2> SUFFICES ASSUME RatchetInv, NEW m \in air
               PROVE  /\ ~Yields(end[m.from].cks, m.key)
                      /\ m.number \in delivered[m.from] =>
                           /\ ~Yields(end[Other(m.from)].ckr, m.key)
                           /\ \A i \in DOMAIN end[Other(m.from)].skipped :
                                end[Other(m.from)].skipped[i].key # m.key
    BY DEF UsedKeysGone
  <2> DEFINE p == m.from
             q == Other(m.from)
             c == On(m)
             n == m.hdr.n
  <2>1. /\ m \in Message /\ p \in Peers /\ q \in Peers
        /\ end[p] \in DoubleRatchet /\ end[q] \in DoubleRatchet
        /\ EndOK(p, end[p]) /\ EndOK(q, end[q])
        /\ Wrote(end[p], sent[p], m) /\ Heard(q, end[q], delivered[p], m)
    <3>1. m \in Message /\ p \in Peers
      BY DEF RatchetInv, TypeOK, Message
    <3>2. q \in Peers
      BY <3>1, OtherPeer, RatchetAssumption
    <3>. QED
      BY <3>1, <3>2 DEF RatchetInv, TypeOK, EndsInv, AirInv, HeardInv
  <2>2. /\ c \in Nat /\ n \in Nat /\ m.key = Chain(c, n)
        /\ m.hdr.pub[2] \in Nat /\ c = ChainOf(p, m.hdr.pub[2])
    BY <2>1, OnNumbers, RatchetAssumption DEF Wrote, On
  <2>3. /\ LastOf(p, end[p]) \in Nat /\ end[p].dhs \in Nat /\ end[p].ns \in Nat
        /\ LastOf(q, end[q]) \in Nat /\ end[q].nr \in Nat
    BY <2>1, ChainOfNumbers DEF DoubleRatchet, LastOf
  <2>4. ASSUME NEW d \in Nat, NEW k \in Nat, Yields(Chain(d, k), m.key)
        PROVE  d = c /\ k <= n
    <3>1. Root(d) = Root(c) /\ k <= n
      BY <2>2, <2>4 DEF Yields, Chain
    <3>. QED
      BY <2>2, <3>1, RootSteps
  <2>5. ~Yields(end[p].cks, m.key)
    <3> DEFINE l == LastOf(p, end[p])
    <3>1. SUFFICES ASSUME Yields(end[p].cks, m.key) PROVE FALSE
      OBVIOUS
    <3>2. end[p].cks = Chain(l, end[p].ns)
      BY <2>1, <3>1 DEF EndOK, Sending, Yields
    <3>3. l = c /\ end[p].ns <= n
      BY <2>3, <2>4, <3>1, <3>2
    <3>4. ChainOf(p, end[p].dhs) = ChainOf(p, m.hdr.pub[2])
      BY <2>2, <3>3 DEF LastOf
    <3>5. end[p].dhs = m.hdr.pub[2]
      <4>1. \A i, j \in Nat : ChainOf(p, i) = ChainOf(p, j) => i = j
        BY <2>1, ChainOfNumbers
      <4>. QED
        BY <2>2, <2>3, <3>4, <4>1
    <3>. QED
      BY <2>1, <2>2, <2>3, <3>3, <3>5 DEF Wrote
  <2>6. ASSUME m.number \in delivered[p]
        PROVE  /\ ~Yields(end[q].ckr, m.key)
               /\ \A i \in DOMAIN end[q].skipped : end[q].skipped[i].key # m.key
    <3> DEFINE l == LastOf(q, end[q])
    <3>1. Past(q, end[q], c, n) /\ ~Holds(end[q], m.key)
      BY <2>1, <2>6 DEF Heard
    <3>2. ASSUME Yields(end[q].ckr, m.key) PROVE FALSE
      <4>1. l > 1 /\ end[q].ckr = Chain(l - 1, end[q].nr) /\ l - 1 \in Nat
        BY <2>1, <2>3, <3>2 DEF EndOK, Receiving, Yields
      <4>2. l - 1 = c /\ end[q].nr <= n
        BY <2>3, <2>4, <3>2, <4>1
      <4>. QED
        BY <2>2, <2>3, <3>1, <4>2 DEF Past
    <3>. QED
      BY <3>1, <3>2 DEF Holds
  <2>. QED
    BY <2>5, <2>6
<1>2. RatchetInv => EvictsOldest
  BY DEF RatchetInv, EndsInv, EndOK, Kept, EvictsOldest
<1>3. RatchetInv => KeysKept
  BY <1>1, <1>2 DEF KeysKept, RatchetInv
<1>. QED
  BY <1>3, RatchetInvariant, PTL

\* The session is a channel that delivers at most once (DoubleRatchet.decrypt):
\* every step is one that puts a message in, one that hands out a message that was
\* not handed out, or none.
THEOREM RatchetIsAChannel == Spec => ImplementsChannel
<1>1. Init => AtMostOnce!Init
  BY DEF Init, AtMostOnce!Init
<1>2. RatchetInv /\ [Next]_vars => [AtMostOnce!Next]_(AtMostOnce!vars)
  <2> SUFFICES ASSUME RatchetInv, [Next]_vars
               PROVE  [AtMostOnce!Next]_(AtMostOnce!vars)
    OBVIOUS
  <2>1. ASSUME NEW p \in Peers, Encrypt(p) PROVE AtMostOnce!Next
    BY <2>1 DEF Encrypt, AtMostOnce!Next, AtMostOnce!Send
  <2>2. ASSUME NEW p \in Peers, NEW m \in air, Hears(p, m) PROVE AtMostOnce!Next
    <3>1. Other(p) \in Peers \ {p}
      BY OtherPeer, RatchetAssumption
    <3>2. m.from = Other(p) /\ m.number \in 1 .. sent[Other(p)]
      BY <2>2 DEF Hears, RatchetInv, AirInv, Wrote
    <3>3. AtMostOnce!Deliver(p, Other(p), m.number)
      BY <2>2, <3>2 DEF Hears, Deliver, AtMostOnce!Deliver
    <3>. QED
      BY <3>1, <3>2, <3>3 DEF AtMostOnce!Next
  <2>3. ASSUME UNCHANGED vars PROVE UNCHANGED AtMostOnce!vars
    BY <2>3 DEF vars, AtMostOnce!vars
  <2>. QED
    BY <2>1, <2>2, <2>3, RatchetSteps, RatchetAssumption, NoValueAssumption
<1>. QED
  BY <1>1, <1>2, RatchetInvariant, PTL DEF Spec, ImplementsChannel, AtMostOnce!Spec

\* A message that is not passed can be opened, unless the gap is too long.
LEMMA NotPassedOpens ==
  ASSUME RatchetAssumption, NoValueAssumption, NEW p \in Peers,
         NEW r \in DoubleRatchet, EndOK(p, r), NEW m \in Message,
         m.from = Other(p), Keyed(m), ~Past(p, r, On(m), m.hdr.n),
         On(m) = LastOf(p, r) - 1 \/ On(m) = LastOf(p, r) + 1,
         On(m) <= 2 => m.hdr.pn = 0, ~BehindGap(r, m)
  PROVE  /\ Found(r, m.hdr) = {} /\ ~OutOfReach(p, r, m.hdr)
         /\ AtMessage(p, r, m.hdr).ckr = m.key
<1> DEFINE n == m.hdr.n
           c == On(m)
           l == LastOf(p, r)
           q == Other(p)
           pub == m.hdr.pub
           b == Skip(r, m.hdr.pn)
           d == DhRatchet(p, b, pub)
           a == AtMessage(p, r, m.hdr)
<1>1. /\ n \in Nat /\ m.hdr.pn \in Nat /\ pub \in Pub /\ pub[2] \in Nat /\ c \in Nat
      /\ r.nr \in Nat /\ r.dhs \in Nat /\ l \in Nat /\ q \in Peers
      /\ MaxSkip \in Nat /\ c >= 1 /\ c = ChainOf(q, pub[2]) /\ pub[1] = q
      /\ m.key = Chain(c, n) /\ pub = <<q, pub[2]>>
  <2>1. n \in Nat /\ m.hdr.pn \in Nat /\ pub \in Pub
    BY DEF Message, Header
  <2>2. pub[2] \in Nat /\ pub = <<pub[1], pub[2]>>
    BY <2>1 DEF Pub
  <2>3. q \in Peers /\ r.nr \in Nat /\ r.dhs \in Nat
    BY OtherPeer DEF DoubleRatchet
  <2>4. ChainOf(q, pub[2]) \in Nat /\ ChainOf(p, r.dhs) \in Nat
    BY <2>2, <2>3, ChainOfNumbers
  <2>. QED
    BY <2>1, <2>2, <2>3, <2>4 DEF On, LastOf, Keyed, RatchetAssumption
<1>2. Found(r, m.hdr) = {}
  <2>1. SUFFICES ASSUME NEW i \in DOMAIN r.skipped,
                        r.skipped[i].pub = pub, r.skipped[i].n = n
                 PROVE  FALSE
    BY DEF Found
  <2>2. Behind(q, r.skipped[i], l - 1, r.nr)
    BY DEF EndOK, Kept
  <2>3. Holds(r, Chain(c, n))
    BY <1>1, <2>1, <2>2 DEF Behind, Holds
  <2>. QED
    BY <1>1, <2>3, KeptPast
<1>3. CASE c = l - 1
  <2>1. l > 1 /\ r.dhr \in Pub /\ r.dhr[1] = q /\ ChainOf(q, r.dhr[2]) = c
        /\ r.ckr = Chain(c, r.nr)
    BY <1>1, <1>3 DEF EndOK, Receiving
  <2>2. r.dhr = pub
    <3>1. r.dhr[2] \in Nat /\ r.dhr = <<q, r.dhr[2]>>
      BY <2>1 DEF Pub
    <3>2. \A i, j \in Nat : ChainOf(q, i) = ChainOf(q, j) => i = j
      BY <1>1, ChainOfNumbers
    <3>3. r.dhr[2] = pub[2]
      BY <1>1, <2>1, <3>1, <3>2
    <3>. QED
      BY <1>1, <3>1, <3>3
  <2>3. r.ckr # NoChain
    BY <1>1, <2>1, ChainType DEF NoValueAssumption
  <2>4. r.nr <= n
    BY <1>1, <1>3 DEF Past
  <2>5. a = Skip(r, n) /\ OnChain(p, r, m.hdr) = r
    BY <2>2 DEF AtMessage, OnChain
  <2>6. /\ a \in DoubleRatchet /\ EndOK(p, a) /\ SameElse(r, a) /\ a.nr = n
    <3>1. n <= r.nr => r.nr = n
      BY <1>1, <2>4
    <3>2. AfterSkip(p, r, n, a)
      <4>1. AfterSkip(p, r, n, Skip(r, n))
        BY <1>1, SkipStep
      <4> HIDE DEF a
      <4>. QED
        BY <2>5, <4>1
    <3>3. ~(n <= r.nr) => r.nr < n
      BY <1>1
    <3> HIDE DEF a
    <3>. QED
      BY <2>3, <3>1, <3>2, <3>3 DEF AfterSkip
  <2> HIDE DEF a
  <2>7. LastOf(p, a) = l
    BY <2>6 DEF LastOf, SameElse
  <2>8. a.ckr = Chain(c, n)
    BY <1>1, <1>3, <2>1, <2>6, <2>7 DEF EndOK, Receiving
  <2>9. a.ckr # NoChain
    BY <1>1, <2>8, ChainType DEF NoValueAssumption
  <2>10. ~TooFar(OnChain(p, r, m.hdr), n)
    BY <2>2, <2>3, <2>5 DEF TooFar, BehindGap
  <2>. QED
    BY <1>1, <1>2, <2>2, <2>8, <2>9, <2>10 DEF OutOfReach, a
<1>4. CASE c = l + 1
  <2>1. r.dhr # pub /\ (r.dhr = NoPub \/ pub[2] > r.dhr[2])
    <3>1. CASE l = 0
      <4>1. r.dhr = NoPub
        BY <3>1 DEF EndOK, Receiving
      <4>. QED
        BY <1>1, <4>1 DEF NoValueAssumption
    <3>2. CASE l # 0
      <4>1. r.dhr \in Pub /\ ChainOf(q, r.dhr[2]) = l - 1
        BY <3>2 DEF EndOK, Receiving
      <4>2. r.dhr[2] \in Nat
        BY <4>1 DEF Pub
      <4>3. \A i, j \in Nat : i <= j => ChainOf(q, i) <= ChainOf(q, j)
        BY DEF ChainOf
      <4>4. ~(pub[2] <= r.dhr[2])
        <5>1. SUFFICES ASSUME pub[2] <= r.dhr[2] PROVE FALSE
          OBVIOUS
        <5>2. ChainOf(q, pub[2]) <= ChainOf(q, r.dhr[2])
          BY <1>1, <4>2, <4>3, <5>1
        <5>3. l + 1 <= l - 1
          BY <1>1, <1>4, <4>1, <5>2, Zenon
        <5> HIDE DEF l
        <5>. QED
          BY <1>1, <5>3
      <4>. QED
        BY <1>1, <4>2, <4>4
    <3>. QED
      BY <3>1, <3>2
  <2>2. m.hdr.pn - r.nr <= MaxSkip /\ n <= MaxSkip
    <3>1. ~(m.hdr.pn - r.nr > MaxSkip \/ n > MaxSkip)
      BY <2>1 DEF BehindGap
    <3>. QED
      BY <1>1, <3>1
  <2>3. ~TooFar(r, m.hdr.pn)
    <3>1. CASE r.ckr = NoChain
      <4>1. l <= 1
        <5>1. SUFFICES ASSUME l > 1 PROVE FALSE
          BY <1>1
        <5>2. r.ckr = Chain(l - 1, r.nr) /\ l - 1 \in Nat
          BY <1>1, <5>1 DEF EndOK, Receiving
        <5>. QED
          BY <1>1, <3>1, <5>2, ChainType DEF NoValueAssumption
      <4>2. m.hdr.pn = 0
        BY <1>1, <1>4, <4>1
      <4>. QED
        BY <3>1, <4>2 DEF TooFar
    <3>2. CASE r.ckr # NoChain
      BY <1>1, <2>2, <3>2 DEF TooFar
    <3>. QED
      BY <3>1, <3>2
  <2>4. OnChain(p, r, m.hdr) = d /\ a = Skip(d, n)
    BY <2>1 DEF AtMessage, OnChain
  <2>5. b \in DoubleRatchet /\ EndOK(p, b) /\ LastOf(p, b) = l
    <3>1. AfterSkip(p, r, m.hdr.pn, b)
      BY <1>1, SkipStep
    <3> HIDE DEF b
    <3>. QED
      BY <3>1 DEF AfterSkip, SameElse, LastOf
  <2> HIDE DEF b, a
  <2>6. /\ d \in DoubleRatchet /\ EndOK(p, d) /\ LastOf(p, d) = l + 2
        /\ d.nr = 0 /\ d.ckr # NoChain
    <3>1. pub[1] = Other(p) /\ ChainOf(Other(p), pub[2]) = LastOf(p, b) + 1
      BY <1>1, <1>4, <2>5
    <3>2. LastOf(p, d) = LastOf(p, b) + 2 /\ d \in DoubleRatchet /\ EndOK(p, d)
          /\ d.nr = 0 /\ d.ckr # NoChain
      BY <1>1, <2>5, <3>1, TurnStep
    <3> HIDE DEF d
    <3>. QED
      BY <2>5, <3>2
  <2> HIDE DEF d
  <2>7. /\ a \in DoubleRatchet /\ EndOK(p, a) /\ SameElse(d, a) /\ a.nr = n
    <3>1. n <= 0 => n = 0
      BY <1>1
    <3>2. AfterSkip(p, d, n, a)
      <4>1. AfterSkip(p, d, n, Skip(d, n))
        BY <1>1, <2>6, SkipStep
      <4>. QED
        BY <2>4, <4>1
    <3>3. ~(n <= 0) => 0 < n
      BY <1>1
    <3>. QED
      BY <2>6, <3>1, <3>2, <3>3 DEF AfterSkip
  <2>8. LastOf(p, a) = l + 2
    BY <2>6, <2>7 DEF LastOf, SameElse
  <2>9. a.ckr = Chain(c, n)
    <3>1. ~(l + 2 <= 1) /\ (l + 2) - 1 = c
      BY <1>1, <1>4
    <3>. QED
      BY <2>7, <2>8, <3>1 DEF EndOK, Receiving
  <2>10. a.ckr # NoChain
    BY <1>1, <2>9, ChainType DEF NoValueAssumption
  <2>11. ~TooFar(OnChain(p, r, m.hdr), n)
    BY <1>1, <2>2, <2>4, <2>6 DEF TooFar
  <2>. QED
    BY <1>1, <1>2, <2>3, <2>9, <2>10, <2>11 DEF OutOfReach, a
<1>. QED
  BY <1>3, <1>4

\* A message that was not opened can be opened, in whatever order what was written
\* arrives, unless it lies behind too long a gap or its key was thrown away
\* (DoubleRatchet.decrypt works on a copy and adopts it only if the text opens).
THEOREM NothingElseIsLost == Spec => []StillOpens
<1>1. RatchetInv => StillOpens
  <2> SUFFICES ASSUME RatchetInv, NEW m \in air,
                      m.number \notin delivered[m.from],
                      ~BehindGap(end[Other(m.from)], m),
                      ~Lost(end[Other(m.from)], m.key)
               PROVE  CanOpen(Other(m.from), m)
    BY DEF StillOpens, Lost
  <2> DEFINE q == m.from
             p == Other(m.from)
             r == end[Other(m.from)]
             c == On(m)
             n == m.hdr.n
  <2>1. /\ m \in Message /\ q \in Peers /\ p \in Peers /\ q = Other(p)
    <3>1. m \in Message /\ q \in Peers
      BY DEF RatchetInv, TypeOK, Message
    <3>. QED
      BY <3>1, OtherPeer, RatchetAssumption
  <2>2. /\ r \in DoubleRatchet /\ EndOK(p, r)
        /\ end[q] \in DoubleRatchet
        /\ Wrote(end[q], sent[q], m) /\ Heard(p, r, delivered[q], m)
    BY <2>1 DEF RatchetInv, TypeOK, EndsInv, AirInv, HeardInv
  <2>3. /\ c \in Nat /\ n \in Nat /\ m.key = Chain(c, n) /\ Keyed(m)
        /\ m.hdr.pub[2] \in Nat /\ c = ChainOf(q, m.hdr.pub[2])
        /\ (On(m) <= 2 => m.hdr.pn = 0)
    BY <2>1, <2>2, OnNumbers, RatchetAssumption DEF Wrote, On
  <2>4. CASE Past(p, r, c, n)
    <3>1. PICK i \in DOMAIN r.skipped : r.skipped[i].key = m.key
      BY <2>2, <2>4 DEF Heard, Holds
    <3>2. r.skipped[i] \in Skipped /\ Behind(q, r.skipped[i], LastOf(p, r) - 1, r.nr)
      BY <2>1, <2>2 DEF EndOK, Kept, DoubleRatchet
    <3> DEFINE e == r.skipped[i]
               l == LastOf(p, r)
    <3>3. e.pub[2] \in Nat /\ e.n \in Nat /\ e.pub = <<e.pub[1], e.pub[2]>>
          /\ e.pub[1] = q /\ e.key = Chain(ChainOf(q, e.pub[2]), e.n)
      <4>1. e \in Skipped /\ Behind(q, e, l - 1, r.nr)
        BY <3>2
      <4> HIDE DEF e, r, q, l
      <4>2. e.pub \in Pub /\ e.n \in Nat
        BY <4>1 DEF Skipped
      <4>3. e.pub[2] \in Nat /\ e.pub = <<e.pub[1], e.pub[2]>>
        BY <4>2 DEF Pub
      <4>. QED
        BY <4>1, <4>2, <4>3 DEF Behind
    <3> HIDE DEF e
    <3>4. ChainOf(q, e.pub[2]) = c /\ e.n = n
      <4>1. ChainOf(q, e.pub[2]) \in Nat
        BY <2>1, <3>3, ChainOfNumbers
      <4>2. Chain(ChainOf(q, e.pub[2]), e.n) = Chain(c, n)
        BY <2>3, <3>1, <3>3 DEF e
      <4>. QED
        BY <2>3, <3>3, <4>1, <4>2, ChainSame
    <3>5. e.pub[2] = m.hdr.pub[2]
      <4>1. \A j, k \in Nat : ChainOf(q, j) = ChainOf(q, k) => j = k
        BY <2>1, ChainOfNumbers
      <4>. QED
        BY <2>3, <3>3, <3>4, <4>1
    <3>6. m.hdr.pub = <<q, m.hdr.pub[2]>>
      BY <2>1, <2>3 DEF Message, Header, Pub, Keyed
    <3>7. e.pub = m.hdr.pub
      BY <3>3, <3>5, <3>6
    <3>8. i \in Found(r, m.hdr) /\ Opens(r.skipped[i].key, m.hdr, m)
      BY <3>1, <3>4, <3>7 DEF Found, Opens, e
    <3>. QED
      BY <3>8 DEF CanOpen
  <2>5. CASE ~Past(p, r, c, n)
    <3> DEFINE l == LastOf(p, r)
               s == LastOf(q, end[q])
    <3>1. l \in Nat /\ s \in Nat /\ r.dhs \in Nat /\ end[q].dhs \in Nat
      BY <2>1, <2>2, ChainOfNumbers DEF DoubleRatchet, LastOf
    <3>2. l = s + 1 \/ s = l + 1
      BY <2>1, OtherPeer, RatchetAssumption DEF RatchetInv, TurnInv, InTurn
    <3>3. c <= s
      <4>1. m.hdr.pub[2] <= end[q].dhs
        BY <2>2, <2>3, <3>1 DEF Wrote
      <4>2. \A i, j \in Nat : i <= j => ChainOf(q, i) <= ChainOf(q, j)
        BY DEF ChainOf
      <4>. QED
        BY <2>3, <3>1, <4>1, <4>2 DEF LastOf
    <3>4. c >= l - 1
      BY <2>3, <2>5, <3>1 DEF Past
    <3>5. c # l
      <4>1. \A x, y \in Nat : 2 * x + 1 # 2 * y
        OBVIOUS
      <4>. QED
        BY <2>1, <2>3, <3>1, <4>1, RatchetAssumption
        DEF LastOf, ChainOf, Other, Peers
    <3>6. c = l - 1 \/ c = l + 1
      BY <2>3, <3>1, <3>2, <3>3, <3>4, <3>5
    <3>7. /\ Found(r, m.hdr) = {} /\ ~OutOfReach(p, r, m.hdr)
          /\ AtMessage(p, r, m.hdr).ckr = m.key
      BY <2>1, <2>2, <2>3, <2>5, <3>6, NotPassedOpens, RatchetAssumption,
         NoValueAssumption
    <3>. QED
      BY <3>7 DEF CanOpen, Opens
  <2>. QED
    BY <2>4, <2>5
<1>. QED
  BY <1>1, RatchetInvariant, PTL
=============================================================================
