-------------------------------- MODULE Frames --------------------------------
(***************************************************************************)
(* What becomes of one logical message on its way along a path of nodes:   *)
(* cut into packets (wire/fragment.py), each encoded (wire/packet.py) and  *)
(* padded (wire/padding.py) by the node that transmits it, decoded, its    *)
(* TTL decremented, and transmitted again by nodes with another MTU and    *)
(* another padding policy (Node._transmit, Router._do_relay).              *)
(*                                                                         *)
(* A payload is the interval of the message it holds; a frame is a packet  *)
(* and the number of bytes of it that exist.                               *)
(***************************************************************************)
EXTENDS Integers, FiniteSets, FiniteSetsExt

CONSTANTS
  Hops,          \* the nodes are 1 .. Hops; each hears the one before it
  HeaderLen,     \* HEADER_LEN
  MaxFragments,  \* MAX_FRAGMENTS
  MaxTtl,        \* MAX_TTL
  Buckets,       \* _BUCKETS
  Mtus,          \* what RadioConfig.validate accepts
  Lengths,       \* the lengths of messages
  Ttls,          \* what --ttl may be; nothing checks it
  Cuts           \* frames may arrive without their end

FramesAssumption ==
  /\ Hops \in Nat \ {0}
  /\ HeaderLen \in Nat \ {0}
  /\ MaxFragments \in Nat \ {0}
  /\ MaxTtl \in Nat
  /\ Buckets \subseteq Nat /\ IsFiniteSet(Buckets)
  /\ Mtus \subseteq Nat
  /\ Lengths \subseteq Nat
  /\ Ttls \subseteq Nat
  /\ Cuts \in BOOLEAN

Nodes == 1 .. Hops
Policies == {"strict", "bucket", "none"}

\* Packet; its payload is bytes from .. to - 1 of the message.
Packet == [index : Nat, count : Nat, from : Nat, to : Nat, ttl : Nat]

VARIABLES
  mtu, policy, length, ttl,  \* the configurations and the message
  up,       \* the nodes that were constructed
  refused,  \* the nodes whose constructor raised
  emitted,  \* "no", "yes", or "raised"
  toSend,   \* what a node is about to transmit
  air,      \* what a node transmitted, on its way to the next
  taken,    \* what a node decoded
  held      \* what a node could not transmit

vars == <<mtu, policy, length, ttl, up, refused, emitted, toSend, air, taken, held>>
config == <<mtu, policy, length, ttl>>

-----------------------------------------------------------------------------
(* Pure functions *)

\* capacity_for; not positive: it raises.
Capacity(m) == m - HeaderLen

\* fragment: range(0, length, capacity), or the one empty chunk.
Indices(len, c) == IF len = 0 THEN {0} ELSE {i \in 0 .. len - 1 : i * c < len}
Count(len, c) == Cardinality(Indices(len, c))

ChunkEnd(len, c, i) == IF (i + 1) * c < len THEN (i + 1) * c ELSE len
Chunk(len, c, t, i) ==
  [index |-> i, count |-> Count(len, c), from |-> i * c, to |-> ChunkEnd(len, c, i),
   ttl |-> t]
Fragment(len, c, t) == {Chunk(len, c, t, i) : i \in Indices(len, c)}
FragmentRaises(len, c, t) == Count(len, c) > MaxFragments \/ t > MaxTtl

\* The length of a packet encoded without padding.
Encoded(pk) == HeaderLen + pk.to - pk.from

\* Variant: a bucket may be larger than the MTU.
PaddedSizeUnclamped(len, m, pol) ==
  LET fitting == {b \in Buckets : b >= len}
  IN  CASE pol = "none" -> len
        [] pol = "strict" -> m
        [] OTHER -> IF fitting = {} THEN m ELSE Min(fitting)

\* padded_size of a length that does not exceed the MTU.
PaddedSize(len, m, pol) ==
  LET fitting == {b \in Buckets : b >= len}
  IN  CASE pol = "none" -> len
        [] pol = "strict" -> m
        [] OTHER -> IF fitting = {} \/ Min(fitting) > m THEN m ELSE Min(fitting)

\* Variant: payload_len is taken to be right.
DecodesLax(raw) == raw.size >= HeaderLen

\* Packet.decode does not raise.
Decodes(raw) == raw.size >= HeaderLen /\ Encoded(raw.packet) <= raw.size

\* Packet.decode: what there is of the payload, without the padding.
Decoded(raw) ==
  LET there == raw.packet.from + raw.size - HeaderLen
  IN  [raw.packet EXCEPT !.to = IF there < @ THEN there ELSE @]

\* Variant: a packet expires a hop early.
ExpiresEarly(pk) == pk.ttl <= 2

\* decrement_ttl
Expires(pk) == pk.ttl <= 1
Decremented(pk) == [pk EXCEPT !.ttl = @ - 1]

-----------------------------------------------------------------------------
(* Nodes *)

\* Node.__init__, after config.validate().
Construct(n) ==
  /\ n \notin up \cup refused
  /\ IF Capacity(mtu[n]) > 0
     THEN up' = up \cup {n} /\ UNCHANGED refused
     ELSE refused' = refused \cup {n} /\ UNCHANGED up
  /\ UNCHANGED <<config, emitted, toSend, air, taken, held>>

\* _emit
Emit ==
  /\ emitted = "no" /\ 1 \in up
  /\ IF FragmentRaises(length, Capacity(mtu[1]), ttl)
     THEN emitted' = "raised" /\ UNCHANGED toSend
     ELSE /\ emitted' = "yes"
          /\ toSend' = [toSend EXCEPT ![1] = Fragment(length, Capacity(mtu[1]), ttl)]
  /\ UNCHANGED <<config, up, refused, air, taken, held>>

\* _transmit raises: in padded_size, or in the transport's send.
Raises(n, pk) ==
  \/ Encoded(pk) > mtu[n]
  \/ PaddedSize(Encoded(pk), mtu[n], policy[n]) > mtu[n]

Transmit(n) ==
  /\ \E pk \in toSend[n] :
       /\ ~Raises(n, pk)
       /\ toSend' = [toSend EXCEPT ![n] = @ \ {pk}]
       /\ air' = [air EXCEPT ![n] = @ \cup
                    {[packet |-> pk, size |-> PaddedSize(Encoded(pk), mtu[n], policy[n])]}]
  /\ UNCHANGED <<config, up, refused, emitted, taken, held>>

\* A relay that raises stores the packet (_do_relay); at the origin the
\* exception leaves the loop of _emit.
TransmitRaises(n) ==
  /\ \E pk \in toSend[n] :
       /\ Raises(n, pk)
       /\ toSend' = [toSend EXCEPT ![n] = IF n = 1 THEN {} ELSE @ \ {pk}]
       /\ held' = [held EXCEPT ![n] = @ \cup {pk}]
  /\ UNCHANGED <<config, up, refused, emitted, air, taken>>

\* What may arrive of a frame.
Arriving(raw) ==
  {[raw EXCEPT !.size = s] : s \in IF Cuts THEN 0 .. raw.size ELSE {raw.size}}

\* The next node decodes a frame and relays it, or drops it.  The medium
\* loses a frame by cutting it down to nothing.
Receive(n) ==
  /\ n > 1 /\ n \in up
  /\ \E raw \in air[n - 1] : \E got \in Arriving(raw) :
       /\ air' = [air EXCEPT ![n - 1] = @ \ {raw}]
       /\ IF Decodes(got)
          THEN /\ taken' = [taken EXCEPT ![n] = @ \cup {Decoded(got)}]
               /\ toSend' = [toSend EXCEPT ![n] = @ \cup
                    IF Expires(Decoded(got)) THEN {} ELSE {Decremented(Decoded(got))}]
          ELSE UNCHANGED <<taken, toSend>>
  /\ UNCHANGED <<config, up, refused, emitted, held>>

Init ==
  /\ mtu \in [Nodes -> Mtus]
  /\ policy \in [Nodes -> Policies]
  /\ length \in Lengths
  /\ ttl \in Ttls
  /\ up = {} /\ refused = {}
  /\ emitted = "no"
  /\ toSend = [n \in Nodes |-> {}]
  /\ air = [n \in Nodes |-> {}]
  /\ taken = [n \in Nodes |-> {}]
  /\ held = [n \in Nodes |-> {}]

Next ==
  \/ Emit
  \/ \E n \in Nodes : Construct(n)
  \/ \E n \in Nodes : Transmit(n)
  \/ \E n \in Nodes : TransmitRaises(n)
  \/ \E n \in Nodes : Receive(n)

Spec == Init /\ [][Next]_vars

-----------------------------------------------------------------------------
(* Properties *)

\* The variables hold what the code's fields and arguments can hold.
TypeOK ==
  /\ mtu \in [Nodes -> Mtus] /\ policy \in [Nodes -> Policies]
  /\ length \in Lengths /\ ttl \in Ttls
  /\ up \subseteq Nodes /\ refused \subseteq Nodes \ up
  /\ emitted \in {"no", "yes", "raised"}
  /\ toSend \in [Nodes -> SUBSET Packet]
  /\ air \in [Nodes -> SUBSET [packet : Packet, size : Nat]]
  /\ taken \in [Nodes -> SUBSET Packet]
  /\ held \in [Nodes -> SUBSET Packet]

\* What any node decodes is a fragment as the origin cut it, with a TTL that
\* counts the hops, however often it was padded, stripped and relayed by nodes
\* of other MTUs, and whatever was cut off on the way (encode, decode,
\* decrement_ttl).
ArrivesAsCut ==
  \A n \in Nodes : \A pk \in taken[n] :
    /\ pk.ttl = ttl + 2 - n /\ (n > 2 => pk.ttl > 0)
    /\ [pk EXCEPT !.ttl = ttl] \in Fragment(length, Capacity(mtu[1]), ttl)

Bytes(pks) == UNION {pk.from .. pk.to - 1 : pk \in pks}

\* Once every index of a message is there, so is every byte of it, each once and
\* in the order of the indices (fragment, _Partial.assemble).
TilesMessage ==
  \A n \in Nodes :
    /\ \A x, y \in taken[n] : x.index < y.index => x.to <= y.from
    /\ \A x \in taken[n] :
         {pk.index : pk \in taken[n]} = 0 .. x.count - 1
           => Bytes(taken[n]) = 0 .. length - 1

\* A node never cuts, pads or relays to a size its own link refuses: only a frame
\* of a link with a larger MTU is too large for it (capacity_for, fragment,
\* padded_size, Transport.send).
FitsTheLink == \A n \in Nodes : held[n] # {} => mtu[n] < mtu[1]

\* Nothing is left to construct, to transmit or to decode.
Quiet ==
  /\ up \cup refused = Nodes /\ emitted # "no"
  /\ \A n \in Nodes : toSend[n] = {} /\ (n < Hops /\ n + 1 \in up => air[n] = {})

\* On a path whose MTUs are not smaller than the origin's, and that loses
\* nothing, a message that was cut has in the end reached every node its TTL
\* allows, as a whole (_emit, _transmit, _do_relay).
CrossesPath ==
  Quiet /\ emitted = "yes" /\ ~Cuts /\ refused = {} =>
    \A n \in Nodes \ {1} :
      n - 1 <= ttl /\ (\A k \in Nodes : mtu[k] >= mtu[1]) =>
        Cardinality(taken[n]) = Count(length, Capacity(mtu[1]))

\* "mtu must be 16..255 bytes" (RadioConfig.validate): an MTU the configuration
\* accepts is one a node can be constructed with.
AcceptedMtuStarts == refused = {}
=============================================================================
