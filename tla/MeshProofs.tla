----------------------------- MODULE MeshProofs -----------------------------
(***************************************************************************)
(* What holds in every mesh: of any size and topology, for any memory, any *)
(* jitter, any impairment of the medium and any failure of the radio; and  *)
(* in the second part, of what a message is cut into on its way along a    *)
(* path of such a mesh (Frames), for any MTUs, policies, length and TTL;   *)
(* in the third, of the multicast group over which UdpTransport sends      *)
(* (UdpGroup), for any members and salts.                                  *)
(***************************************************************************)
EXTENDS Mesh, FiniteSetTheorems, WellFoundedInduction, TLAPS

\* The parameters and variables of the path.
CONSTANTS PathLength, HeaderLen, MaxFragments, MaxTtl, Buckets, Mtus, Lengths, Ttls, Cuts
VARIABLES mtu, policy, length, hops, built, refused, emitted, toSend, flying, taken, held

Path == INSTANCE Frames
  WITH Hops <- PathLength, ttl <- hops, up <- built, air <- flying

\* The parameters and variables of the multicast group.
CONSTANTS Members, Salts, MaxSends, MaxStarts, Lossless, MaxRepeats, MaxForeign
VARIABLES salt, box, sends, starts, wire, heard, owed, repeats, foreign

Group == INSTANCE UdpGroup WITH Nodes <- Members

-----------------------------------------------------------------------------
(* The operators of the model stay within their types. *)

Memory == [Keys -> {Never} \cup (0 .. MaxTime)]

\* Expiry only forgets: an entry keeps its time or is Never.
LEMMA ExpiredType ==
  ASSUME NEW memory \in Memory
  PROVE  /\ Expired(memory) \in Memory
         /\ \A k \in Keys : Expired(memory)[k] \in {Never, memory[k]}
  BY DEF Expired, Memory, Never

\* Recording a key makes an entry of the present time and may forget another.
LEMMA RecordedType ==
  ASSUME NEW memory \in Memory, NEW k \in Keys, now \in 0 .. MaxTime,
         NEW after \in Recorded(memory, k)
  PROVE  after \in Memory
<1> DEFINE full == [Expired(memory) EXCEPT ![k] = now]
<1>1. full \in Memory
  BY ExpiredType DEF Memory
<1>2. \/ after = full
      \/ \E j \in Keys : after = [full EXCEPT ![j] = Never]
  BY DEF Recorded
<1>. QED
  BY <1>1, <1>2 DEF Memory

\* Arming a timer for a frame with hops left is well typed.
LEMMA ScheduleType ==
  ASSUME TypeOK, MeshAssumption, NEW n \in Nodes, NEW p \in Packet,
         NEW number \in Nat, ScheduleRelay(n, p, number)
  PROVE  /\ timers' \in [Nodes -> SUBSET Timer]
         /\ pending' \in [Nodes -> [Keys -> Timer \cup {NoTimer}]]
<1>1. CASE p.ttl <= 1
  BY <1>1 DEF ScheduleRelay, TypeOK
<1>2. CASE ~(p.ttl <= 1)
  <2> DEFINE t == RelayTimer(p, p.ttl - 1, number)
  <2>1. p.key \in Keys /\ p.ttl - 1 \in 1 .. InitTTL
    BY <1>2 DEF Packet, MeshAssumption
  <2>2. t \in Timer /\ t.pkt.key = p.key
    BY <2>1 DEF RelayTimer, Timer, Packet, TypeOK
  <2>3. Arm(n, t)
    BY <1>2 DEF ScheduleRelay
  <2> HIDE DEF t
  <2>. QED
    BY <2>1, <2>2, <2>3 DEF Arm, TypeOK
<1>. QED
  BY <1>1, <1>2

\* A transmission adds copies to the air and to the count.
LEMMA TransmitType ==
  ASSUME TypeOK, MeshAssumption, NEW n \in Nodes, NEW p \in Packet,
         Transmit(n, p)
  PROVE  /\ air' \in [Nodes -> [Packet -> Nat]]
         /\ sent' \in [Nodes -> [Keys -> Nat]]
<1>1. p.key \in Keys
  BY DEF Packet
<1>2. sent' \in [Nodes -> [Keys -> Nat]]
  BY <1>1 DEF Transmit, TypeOK
<1>3. PICK copies \in [{m \in Neighbours[n] : up[m]} -> Copies] :
        air' = [m \in Nodes |->
                  IF m \in DOMAIN copies
                  THEN [air[m] EXCEPT ![p] = @ + copies[m]]
                  ELSE air[m]]
  BY DEF Transmit
<1>4. \A m \in DOMAIN copies : copies[m] \in Nat
  BY DEF MeshAssumption
<1>5. ASSUME NEW m \in Nodes PROVE air'[m] \in [Packet -> Nat]
  BY <1>3, <1>4 DEF TypeOK
<1>. QED
  BY <1>2, <1>3, <1>5

-----------------------------------------------------------------------------
\* Type correctness: what a router remembers, arms and stores, and what is in
\* the air, stays within its type in every reachable state.
THEOREM TypeCorrect == Spec => []TypeOK
<1> USE MeshAssumption
<1>1. Init => TypeOK
  BY DEF Init, TypeOK, MeshAssumption, Never
<1>2. TypeOK /\ [Next]_vars => TypeOK'
  <2> SUFFICES ASSUME TypeOK, [Next]_vars PROVE TypeOK'
    OBVIOUS
  <2>1. ASSUME NEW n \in Nodes, NEW p \in Packet, HandleDuplicate(n, p)
        PROVE TypeOK'
    <3>1. Expired(seen[n]) \in Memory
      BY ExpiredType DEF TypeOK, Memory
    <3>2. p.key \in Keys
      BY DEF Packet
    <3>3. air' \in [Nodes -> [Packet -> Nat]]
      BY <2>1 DEF HandleDuplicate, Takes, TypeOK
    <3>4. /\ timers' \in [Nodes -> SUBSET Timer]
          /\ pending' \in [Nodes -> [Keys -> Timer \cup {NoTimer}]]
      BY <2>1, <3>2 DEF HandleDuplicate, TypeOK
    <3>. QED
      BY <2>1, <3>1, <3>3, <3>4 DEF HandleDuplicate, TypeOK, Memory
  <2>2. ASSUME NEW n \in Nodes, NEW p \in Packet, TakeNew(n, p)
        PROVE /\ now' \in 0 .. MaxTime
              /\ stops' \in [Nodes -> 0 .. MaxStops]
              /\ up' \in [Nodes -> BOOLEAN]
              /\ air' \in [Nodes -> [Packet -> Nat]]
              /\ seen' \in [Nodes -> [Keys -> {Never} \cup (0 .. MaxTime)]]
              /\ relays' \in [Nodes -> SUBSET Timer]
              /\ store' \in [Nodes -> Seq(Packet)]
              /\ origin' \in [Keys -> Nodes \cup {NoNode}]
              /\ crossed' \in [Nodes -> [Keys -> Nat]]
              /\ sent' \in [Nodes -> [Keys -> Nat]]
    <3>1. p.key \in Keys
      BY DEF Packet
    <3>2. PICK memory \in Recorded(seen[n], p.key) :
            seen' = [seen EXCEPT ![n] = memory]
      BY <2>2 DEF TakeNew
    <3>3. memory \in Memory
      BY <3>1, <3>2, RecordedType DEF TypeOK, Memory
    <3>. QED
      BY <2>2, <3>1, <3>2, <3>3 DEF TakeNew, Takes, TypeOK, Memory
  <2>3. ASSUME NEW n \in Nodes, NEW p \in Packet, HandlePassing(n, p)
        PROVE TypeOK'
    <3>1. TakeNew(n, p) /\ ScheduleRelay(n, p, crossed'[n][p.key])
      BY <2>3 DEF HandlePassing
    <3>2. crossed'[n][p.key] \in Nat
      BY <2>2, <3>1 DEF Packet
    <3>3. /\ timers' \in [Nodes -> SUBSET Timer]
          /\ pending' \in [Nodes -> [Keys -> Timer \cup {NoTimer}]]
      BY <3>1, <3>2, ScheduleType
    <3>4. handling' \in [Nodes -> Packet \cup {Idle}]
      BY <2>3 DEF HandlePassing, TypeOK
    <3>. QED
      BY <2>2, <3>1, <3>3, <3>4 DEF TypeOK
  <2>4. ASSUME NEW n \in Nodes, NEW p \in Packet, HandleForUs(n, p)
        PROVE TypeOK'
    <3>1. TakeNew(n, p)
      BY <2>4 DEF HandleForUs
    <3>. QED
      BY <2>2, <2>4, <3>1 DEF HandleForUs, TypeOK
  <2>5. ASSUME NEW n \in Nodes, DeliverReturns(n) PROVE TypeOK'
    <3>1. handling[n] \in Packet
      BY <2>5 DEF DeliverReturns, TypeOK
    <3>2. crossed[n][handling[n].key] \in Nat
      BY <3>1 DEF TypeOK, Packet
    <3>3. /\ timers' \in [Nodes -> SUBSET Timer]
          /\ pending' \in [Nodes -> [Keys -> Timer \cup {NoTimer}]]
      BY <2>5, <3>1, <3>2, ScheduleType DEF DeliverReturns
    <3>. QED
      BY <2>5, <3>3 DEF DeliverReturns, TypeOK
  <2>6. ASSUME NEW n \in Nodes, DeliverRaises(n) PROVE TypeOK'
    BY <2>6 DEF DeliverRaises, TypeOK
  <2>7. ASSUME NEW n \in Nodes, FireRelay(n) PROVE TypeOK'
    <3>1. \A t \in timers[n] : t \in Timer /\ t.pkt.key \in Keys
      BY DEF TypeOK, Timer, Packet
    <3>. QED
      BY <2>7, <3>1 DEF FireRelay, TypeOK
  <2>8. ASSUME NEW n \in Nodes, RelaySent(n) PROVE TypeOK'
    <3>1. PICK t \in relays[n] : /\ relays' = [relays EXCEPT ![n] = @ \ {t}]
                                 /\ Transmit(n, t.pkt)
      BY <2>8 DEF RelaySent
    <3>2. t.pkt \in Packet
      BY <3>1 DEF TypeOK, Timer
    <3>3. /\ air' \in [Nodes -> [Packet -> Nat]]
          /\ sent' \in [Nodes -> [Keys -> Nat]]
      BY <3>1, <3>2, TransmitType
    <3>. QED
      BY <2>8, <3>1, <3>3 DEF RelaySent, TypeOK
  <2>9. ASSUME NEW n \in Nodes, RelayFails(n) PROVE TypeOK'
    <3>1. PICK t \in relays[n] :
            /\ relays' = [relays EXCEPT ![n] = @ \ {t}]
            /\ store' = IF StoreForward
                        THEN [store EXCEPT ![n] = Held(@, t.pkt)]
                        ELSE store
      BY <2>9 DEF RelayFails
    <3>2. t.pkt \in Packet
      BY <3>1 DEF TypeOK, Timer
    <3>3. Held(store[n], t.pkt) \in Seq(Packet)
      <4>1. store[n] \in Seq(Packet)
        BY DEF TypeOK
      <4>2. Len(store[n]) >= StoreCapacity => Tail(store[n]) \in Seq(Packet)
        BY <4>1 DEF MeshAssumption
      <4>. QED
        BY <3>2, <4>1, <4>2 DEF Held
    <3>. QED
      BY <2>9, <3>1, <3>3 DEF RelayFails, TypeOK
  <2>10. ASSUME NEW n \in Nodes, NEW k \in Keys, MarkOwn(n, k)
         PROVE /\ now' \in 0 .. MaxTime
               /\ stops' \in [Nodes -> 0 .. MaxStops]
               /\ up' \in [Nodes -> BOOLEAN]
               /\ seen' \in [Nodes -> [Keys -> {Never} \cup (0 .. MaxTime)]]
               /\ handling' \in [Nodes -> Packet \cup {Idle}]
               /\ timers' \in [Nodes -> SUBSET Timer]
               /\ pending' \in [Nodes -> [Keys -> Timer \cup {NoTimer}]]
               /\ relays' \in [Nodes -> SUBSET Timer]
               /\ store' \in [Nodes -> Seq(Packet)]
               /\ origin' \in [Keys -> Nodes \cup {NoNode}]
               /\ crossed' \in [Nodes -> [Keys -> Nat]]
    <3>1. PICK memory \in Recorded(seen[n], k) :
            seen' = [seen EXCEPT ![n] = memory]
      BY <2>10 DEF MarkOwn
    <3>2. memory \in Memory
      BY <3>1, RecordedType DEF TypeOK, Memory
    <3>. QED
      BY <2>10, <3>1, <3>2 DEF MarkOwn, TypeOK, Memory
  <2>11. ASSUME NEW n \in Nodes, NEW k \in Keys, Originate(n, k) PROVE TypeOK'
    <3>1. [key |-> k, ttl |-> InitTTL] \in Packet
      BY DEF Packet, MeshAssumption
    <3>2. /\ air' \in [Nodes -> [Packet -> Nat]]
          /\ sent' \in [Nodes -> [Keys -> Nat]]
      BY <2>11, <3>1, TransmitType DEF Originate
    <3>3. MarkOwn(n, k)
      BY <2>11 DEF Originate
    <3>. QED
      BY <2>10, <3>2, <3>3 DEF TypeOK
  <2>12. ASSUME NEW n \in Nodes, NEW k \in Keys, OriginateFails(n, k)
         PROVE TypeOK'
    <3>1. MarkOwn(n, k)
      BY <2>12 DEF OriginateFails
    <3>. QED
      BY <2>10, <2>12, <3>1 DEF OriginateFails, TypeOK
  <2>13. ASSUME NEW n \in Nodes, Stop(n) PROVE TypeOK'
    BY <2>13 DEF Stop, TypeOK, MeshAssumption
  <2>14. ASSUME NEW n \in Nodes, Start(n) PROVE TypeOK'
    BY <2>14 DEF Start, TypeOK
  <2>15. CASE Tick
    BY <2>15 DEF Tick, TypeOK, MeshAssumption
  <2>16. CASE UNCHANGED vars
    BY <2>16 DEF vars, TypeOK
  <2>. QED
    BY <2>1, <2>3, <2>4, <2>5, <2>6, <2>7, <2>8, <2>9, <2>11, <2>12, <2>13,
       <2>14, <2>15, <2>16 DEF Next
<1>. QED
  BY <1>1, <1>2, PTL DEF Spec

-----------------------------------------------------------------------------
(* The radius of a flood.  WithinRadius is not inductive: a copy that was   *)
(* heard becomes a frame under delivery, a timer and a relay before it is   *)
(* in the air again, so the invariant speaks of all of them.                *)

\* A frame k with this many hops left is no further from its origin than the
\* hops it spent.
Near(n, k, ttl) ==
  /\ origin[k] \in Nodes
  /\ Hops[origin[k]][n] + ttl <= InitTTL + 1

AirNear ==
  \A n \in Nodes, p \in Packet : air[n][p] > 0 => Near(n, p.key, p.ttl)

HandlingNear ==
  \A n \in Nodes :
    handling[n] # Idle => Near(n, handling[n].key, handling[n].ttl)

RelaysNear ==
  \A n \in Nodes : \A t \in timers[n] \cup relays[n] :
    Near(n, t.pkt.key, t.pkt.ttl + 1)

CrossedNear ==
  \A n \in Nodes, k \in Keys : crossed[n][k] > 0 => Near(n, k, 1)

RadiusInv == AirNear /\ HandlingNear /\ RelaysNear /\ CrossedNear

\* A frame never changes its origin, so what is near stays near.
LEMMA NearStable ==
  ASSUME TypeOK, MeshAssumption, [Next]_vars,
         NEW n \in Nodes, NEW k \in Keys, NEW ttl \in Nat, Near(n, k, ttl)
  PROVE  Near(n, k, ttl)'
<1>1. origin'[k] = origin[k]
  <2>1. ASSUME NEW m \in Nodes, NEW j \in Keys, MarkOwn(m, j)
        PROVE origin'[k] = origin[k]
    BY <2>1 DEF MarkOwn, Near, MeshAssumption, TypeOK
  <2>2. ASSUME origin' = origin PROVE origin'[k] = origin[k]
    BY <2>2
  <2>3. \/ origin' = origin
        \/ \E m \in Nodes, j \in Keys : MarkOwn(m, j)
    BY DEF Next, vars, HandleDuplicate, HandlePassing, HandleForUs, TakeNew,
           DeliverReturns, DeliverRaises, FireRelay, RelaySent, RelayFails,
           Originate, OriginateFails, Stop, Start, Tick
  <2>. QED
    BY <2>1, <2>2, <2>3
<1>. QED
  BY <1>1 DEF Near

\* A transmission is heard by neighbours only.
LEMMA TransmitAir ==
  ASSUME TypeOK, MeshAssumption, NEW n \in Nodes, NEW p \in Packet,
         Transmit(n, p), NEW m \in Nodes, NEW q \in Packet, air'[m][q] > 0
  PROVE  air[m][q] > 0 \/ (q = p /\ m \in Neighbours[n])
<1>1. PICK copies \in [{i \in Neighbours[n] : up[i]} -> Copies] :
        air' = [i \in Nodes |->
                  IF i \in DOMAIN copies
                  THEN [air[i] EXCEPT ![p] = @ + copies[i]]
                  ELSE air[i]]
  BY DEF Transmit
<1>2. CASE m \in DOMAIN copies /\ q = p
  BY <1>1, <1>2
<1>3. CASE m \notin DOMAIN copies \/ q # p
  BY <1>1, <1>3 DEF TypeOK
<1>. QED
  BY <1>2, <1>3

\* What the neighbours of a near node hear of its relay is near them.
LEMMA NeighbourNear ==
  ASSUME TypeOK, MeshAssumption, NEW n \in Nodes, NEW m \in Neighbours[n],
         NEW k \in Keys, NEW ttl \in Nat, Near(n, k, ttl + 1)
  PROVE  Near(m, k, ttl)
<1>1. m \in Nodes
  BY DEF MeshAssumption
<1>2. Hops[origin[k]][m] <= Hops[origin[k]][n] + 1
  BY <1>1 DEF MeshAssumption, Near
<1>3. Hops[origin[k]][m] \in Nat /\ Hops[origin[k]][n] \in Nat
  BY <1>1 DEF MeshAssumption, Near
<1>. QED
  BY <1>2, <1>3 DEF Near, MeshAssumption

\* The only new timer is for the frame at hand, with one hop less.
LEMMA ScheduleNear ==
  ASSUME TypeOK, NEW n \in Nodes, NEW p \in Packet, NEW number,
         ScheduleRelay(n, p, number), NEW m \in Nodes, NEW t \in timers'[m]
  PROVE  \/ t \in timers[m]
         \/ m = n /\ t.pkt.key = p.key /\ t.pkt.ttl + 1 = p.ttl
<1>1. CASE p.ttl <= 1
  BY <1>1 DEF ScheduleRelay
<1>2. CASE ~(p.ttl <= 1)
  <2> DEFINE new == RelayTimer(p, p.ttl - 1, number)
  <2>1. Arm(n, new)
    BY <1>2 DEF ScheduleRelay
  <2>2. new.pkt.key = p.key /\ new.pkt.ttl + 1 = p.ttl
    BY DEF RelayTimer, Packet
  <2> HIDE DEF new
  <2>. QED
    BY <2>1, <2>2 DEF Arm, TypeOK
<1>. QED
  BY <1>1, <1>2

\* Accepting a near copy makes its key near, and takes nothing else up.
LEMMA TakeNewNear ==
  ASSUME TypeOK, MeshAssumption, [Next]_vars, RadiusInv,
         NEW n \in Nodes, NEW p \in Packet, TakeNew(n, p)
  PROVE  /\ Near(n, p.key, p.ttl)
         /\ AirNear'
         /\ CrossedNear'
<1>1. p.key \in Keys /\ p.ttl \in Nat /\ p.ttl >= 1
  BY DEF Packet, MeshAssumption
<1>2. Near(n, p.key, p.ttl)
  BY DEF TakeNew, Takes, RadiusInv, AirNear
<1>3. ASSUME NEW m \in Nodes, NEW q \in Packet, air'[m][q] > 0
      PROVE Near(m, q.key, q.ttl)'
  <2>1. air[m][q] > 0
    BY <1>3 DEF TakeNew, Takes, TypeOK
  <2>2. Near(m, q.key, q.ttl) /\ q.key \in Keys /\ q.ttl \in Nat
    BY <2>1 DEF RadiusInv, AirNear, Packet
  <2>. QED
    BY <2>2, NearStable
<1>4. ASSUME NEW m \in Nodes, NEW k \in Keys, crossed'[m][k] > 0
      PROVE Near(m, k, 1)'
  <2>1. CASE m = n /\ k = p.key
    <3>1. Near(n, k, 1)
      <4>1. Hops[origin[k]][n] \in Nat
        BY <1>2, <2>1 DEF Near, MeshAssumption
      <4>. QED
        BY <1>1, <1>2, <2>1, <4>1 DEF Near, MeshAssumption
    <3>. QED
      BY <2>1, <3>1, NearStable
  <2>2. CASE ~(m = n /\ k = p.key)
    <3>1. crossed[m][k] > 0
      BY <1>1, <1>4, <2>2 DEF TakeNew, TypeOK
    <3>2. Near(m, k, 1)
      BY <3>1 DEF RadiusInv, CrossedNear
    <3>. QED
      BY <3>2, NearStable
  <2>. QED
    BY <2>1, <2>2
<1>. QED
  BY <1>2, <1>3, <1>4 DEF AirNear, CrossedNear

\* Arming the timer of a near frame keeps every armed or started relay near.
LEMMA ScheduleRelaysNear ==
  ASSUME TypeOK, MeshAssumption, [Next]_vars, RelaysNear,
         NEW n \in Nodes, NEW p \in Packet, NEW number,
         Near(n, p.key, p.ttl), ScheduleRelay(n, p, number),
         TypeOK', relays' = relays
  PROVE  RelaysNear'
<1>1. ASSUME NEW m \in Nodes, NEW t \in timers'[m] \cup relays'[m]
      PROVE Near(m, t.pkt.key, t.pkt.ttl + 1)'
  <2>1. t.pkt.key \in Keys /\ t.pkt.ttl + 1 \in Nat
    <3>1. timers'[m] \subseteq Timer /\ relays'[m] \subseteq Timer
      BY DEF TypeOK
    <3>2. t \in Timer
      BY <3>1
    <3>. QED
      BY <3>2 DEF Timer, Packet, MeshAssumption
  <2>2. Near(m, t.pkt.key, t.pkt.ttl + 1)
    <3>1. CASE t \in relays[m] \/ t \in timers[m]
      BY <3>1 DEF RelaysNear
    <3>2. CASE t \notin relays[m] /\ t \notin timers[m]
      BY <3>2, ScheduleNear
    <3>. QED
      BY <3>1, <3>2
  <2>. QED
    BY <2>1, <2>2, NearStable
<1>. QED
  BY <1>1 DEF RelaysNear

\* The parts of the invariant survive a step that adds nothing to them.
LEMMA RadiusKept ==
  ASSUME TypeOK, TypeOK', MeshAssumption, [Next]_vars, RadiusInv
  PROVE  /\ (\A m \in Nodes, q \in Packet : air'[m][q] > 0 => air[m][q] > 0)
              => AirNear'
         /\ (\A m \in Nodes : handling'[m] \in {Idle, handling[m]})
              => HandlingNear'
         /\ (\A m \in Nodes : timers'[m] \cup relays'[m]
                                \subseteq timers[m] \cup relays[m])
              => RelaysNear'
         /\ (\A m \in Nodes, k \in Keys : crossed'[m][k] > 0
                                            => crossed[m][k] > 0)
              => CrossedNear'
<1>1. ASSUME \A m \in Nodes, q \in Packet : air'[m][q] > 0 => air[m][q] > 0
      PROVE AirNear'
  <2>1. ASSUME NEW m \in Nodes, NEW q \in Packet, air'[m][q] > 0
        PROVE Near(m, q.key, q.ttl)'
    <3>1. Near(m, q.key, q.ttl) /\ q.key \in Keys /\ q.ttl \in Nat
      BY <1>1, <2>1 DEF RadiusInv, AirNear, Packet
    <3>. QED
      BY <3>1, NearStable
  <2>. QED
    BY <2>1 DEF AirNear
<1>2. ASSUME \A m \in Nodes : handling'[m] \in {Idle, handling[m]}
      PROVE HandlingNear'
  <2>1. ASSUME NEW m \in Nodes, handling'[m] # Idle
        PROVE Near(m, handling[m].key, handling[m].ttl)'
    <3>1. handling'[m] = handling[m] /\ handling[m] # Idle
      BY <1>2, <2>1
    <3>2. Near(m, handling[m].key, handling[m].ttl)
      BY <3>1 DEF RadiusInv, HandlingNear
    <3>3. handling[m].key \in Keys /\ handling[m].ttl \in Nat
      <4>1. handling[m] \in Packet
        BY <3>1 DEF TypeOK
      <4>. QED
        BY <4>1 DEF Packet
    <3>4. \A k \in Keys, ttl \in Nat : Near(m, k, ttl) =>
            /\ origin'[k] \in Nodes
            /\ Hops[origin'[k]][m] + ttl <= InitTTL + 1
      BY NearStable DEF Near
    <3>. QED
      BY <3>1, <3>2, <3>3, <3>4 DEF Near
  <2>. QED
    BY <2>1 DEF HandlingNear
<1>3. ASSUME \A m \in Nodes : timers'[m] \cup relays'[m]
                                \subseteq timers[m] \cup relays[m]
      PROVE RelaysNear'
  <2>1. ASSUME NEW m \in Nodes, NEW t \in timers'[m] \cup relays'[m]
        PROVE Near(m, t.pkt.key, t.pkt.ttl + 1)'
    <3>1. t \in timers[m] \cup relays[m]
      BY <1>3
    <3>2. Near(m, t.pkt.key, t.pkt.ttl + 1)
      BY <3>1 DEF RadiusInv, RelaysNear
    <3>3. t \in Timer
      BY <3>1 DEF TypeOK
    <3>4. t.pkt.key \in Keys /\ t.pkt.ttl + 1 \in Nat
      BY <3>3 DEF Timer, Packet, MeshAssumption
    <3>. QED
      BY <3>2, <3>4, NearStable
  <2>. QED
    BY <2>1 DEF RelaysNear
<1>4. ASSUME \A m \in Nodes, k \in Keys : crossed'[m][k] > 0 => crossed[m][k] > 0
      PROVE CrossedNear'
  <2>1. ASSUME NEW m \in Nodes, NEW k \in Keys, crossed'[m][k] > 0
        PROVE Near(m, k, 1)'
    BY <1>4, <2>1, NearStable DEF RadiusInv, CrossedNear
  <2>. QED
    BY <2>1 DEF CrossedNear
<1>. QED
  BY <1>1, <1>2, <1>3, <1>4

\* It holds of every copy in every reachable state.
LEMMA RadiusInvariant == Spec => []RadiusInv
<1> USE MeshAssumption
<1>1. Init => RadiusInv
  <2> SUFFICES ASSUME Init PROVE RadiusInv
    OBVIOUS
  <2>1. AirNear
    BY DEF Init, AirNear
  <2>2. HandlingNear
    BY DEF Init, HandlingNear
  <2>3. RelaysNear
    BY DEF Init, RelaysNear
  <2>4. CrossedNear
    BY DEF Init, CrossedNear
  <2>. QED
    BY <2>1, <2>2, <2>3, <2>4 DEF RadiusInv
<1>2. TypeOK /\ TypeOK' /\ RadiusInv /\ [Next]_vars => RadiusInv'
  <2> SUFFICES ASSUME TypeOK, TypeOK', RadiusInv, [Next]_vars
               PROVE  RadiusInv'
    OBVIOUS
  <2>1. ASSUME NEW n \in Nodes, NEW p \in Packet, HandleDuplicate(n, p)
        PROVE RadiusInv'
    <3>1. \A m \in Nodes, q \in Packet : air'[m][q] > 0 => air[m][q] > 0
      BY <2>1 DEF HandleDuplicate, Takes, TypeOK
    <3>2. \A m \in Nodes : timers'[m] \subseteq timers[m]
      BY <2>1 DEF HandleDuplicate, TypeOK
    <3>. QED
      BY <2>1, <3>1, <3>2, RadiusKept DEF HandleDuplicate, RadiusInv
  <2>2. ASSUME NEW n \in Nodes, NEW p \in Packet, HandlePassing(n, p)
        PROVE RadiusInv'
    <3>1. TakeNew(n, p) /\ ScheduleRelay(n, p, crossed'[n][p.key])
      BY <2>2 DEF HandlePassing
    <3>2. Near(n, p.key, p.ttl) /\ AirNear' /\ CrossedNear'
      BY <3>1, TakeNewNear
    <3>3. HandlingNear'
      BY <2>2, RadiusKept DEF HandlePassing
    <3>4. relays' = relays
      BY <3>1 DEF TakeNew
    <3>5. RelaysNear'
      BY <3>1, <3>2, <3>4, ScheduleRelaysNear DEF RadiusInv
    <3>. QED
      BY <3>2, <3>3, <3>5 DEF RadiusInv
  <2>3. ASSUME NEW n \in Nodes, NEW p \in Packet, HandleForUs(n, p)
        PROVE RadiusInv'
    <3>1. TakeNew(n, p)
      BY <2>3 DEF HandleForUs
    <3>2. Near(n, p.key, p.ttl) /\ AirNear' /\ CrossedNear'
      BY <3>1, TakeNewNear
    <3>3. RelaysNear'
      BY <2>3, <3>1, RadiusKept DEF HandleForUs, TakeNew
    <3>4. ASSUME NEW m \in Nodes, handling'[m] # Idle
          PROVE Near(m, handling[m].key, handling[m].ttl)'
      <4>1. p.key \in Keys /\ p.ttl \in Nat
        BY DEF Packet
      <4>2. Near(n, p.key, p.ttl)'
        BY <3>2, <4>1, NearStable
      <4>3. CASE m = n
        BY <2>3, <4>2, <4>3 DEF HandleForUs, TypeOK, Near
      <4>4. CASE m # n
        <5>1. handling'[m] = handling[m]
          BY <2>3, <4>4 DEF HandleForUs, TypeOK
        <5>2. Near(m, handling[m].key, handling[m].ttl)
          BY <3>4, <5>1 DEF RadiusInv, HandlingNear
        <5>3. handling[m].key \in Keys /\ handling[m].ttl \in Nat
          <6>1. handling[m] \in Packet
            BY <3>4, <5>1 DEF TypeOK
          <6>. QED
            BY <6>1 DEF Packet
        <5>4. \A k \in Keys, ttl \in Nat : Near(m, k, ttl) =>
                /\ origin'[k] \in Nodes
                /\ Hops[origin'[k]][m] + ttl <= InitTTL + 1
          BY NearStable DEF Near
        <5>. QED
          BY <5>1, <5>2, <5>3, <5>4 DEF Near
      <4>. QED
        BY <4>3, <4>4
    <3>5. HandlingNear'
      BY <3>4 DEF HandlingNear
    <3>. QED
      BY <3>2, <3>3, <3>5 DEF RadiusInv
  <2>4. ASSUME NEW n \in Nodes, DeliverReturns(n) PROVE RadiusInv'
    <3>1. handling[n] # Idle /\ handling[n] \in Packet
      BY <2>4 DEF DeliverReturns, TypeOK
    <3>2. Near(n, handling[n].key, handling[n].ttl)
      BY <3>1 DEF RadiusInv, HandlingNear
    <3>3. RelaysNear'
      BY <2>4, <3>1, <3>2, ScheduleRelaysNear DEF DeliverReturns, RadiusInv
    <3>4. \A m \in Nodes : handling'[m] \in {Idle, handling[m]}
      BY <2>4 DEF DeliverReturns, TypeOK
    <3>. QED
      BY <2>4, <3>3, <3>4, RadiusKept DEF DeliverReturns, RadiusInv
  <2>5. ASSUME NEW n \in Nodes, DeliverRaises(n) PROVE RadiusInv'
    <3>1. \A m \in Nodes : handling'[m] \in {Idle, handling[m]}
      BY <2>5 DEF DeliverRaises, TypeOK
    <3>. QED
      BY <2>5, <3>1, RadiusKept DEF DeliverRaises, RadiusInv
  <2>6. ASSUME NEW n \in Nodes, FireRelay(n) PROVE RadiusInv'
    <3>1. \A m \in Nodes :
            timers'[m] \cup relays'[m] \subseteq timers[m] \cup relays[m]
      BY <2>6 DEF FireRelay, TypeOK
    <3>. QED
      BY <2>6, <3>1, RadiusKept DEF FireRelay, RadiusInv
  <2>7. ASSUME NEW n \in Nodes, RelaySent(n) PROVE RadiusInv'
    <3>1. PICK t \in relays[n] : /\ relays' = [relays EXCEPT ![n] = @ \ {t}]
                                 /\ Transmit(n, t.pkt)
      BY <2>7 DEF RelaySent
    <3>2. t.pkt \in Packet /\ t.pkt.key \in Keys /\ t.pkt.ttl \in Nat
      <4>1. t \in Timer
        BY <3>1 DEF TypeOK
      <4>2. t.pkt \in Packet
        BY <4>1 DEF Timer
      <4>. QED
        BY <4>2 DEF Packet
    <3>3. Near(n, t.pkt.key, t.pkt.ttl + 1)
      BY <3>1 DEF RadiusInv, RelaysNear
    <3>4. ASSUME NEW m \in Nodes, NEW q \in Packet, air'[m][q] > 0
          PROVE Near(m, q.key, q.ttl)'
      <4>1. q.key \in Keys /\ q.ttl \in Nat
        BY DEF Packet
      <4>2. CASE air[m][q] > 0
        BY <4>1, <4>2, NearStable DEF RadiusInv, AirNear
      <4>3. CASE q = t.pkt /\ m \in Neighbours[n]
        BY <3>2, <3>3, <4>3, NeighbourNear, NearStable
      <4>. QED
        BY <3>1, <3>2, <3>4, <4>2, <4>3, TransmitAir
    <3>5. AirNear'
      BY <3>4 DEF AirNear
    <3>6. \A m \in Nodes :
            timers'[m] \cup relays'[m] \subseteq timers[m] \cup relays[m]
      BY <2>7, <3>1 DEF RelaySent, TypeOK
    <3>. QED
      BY <2>7, <3>5, <3>6, RadiusKept DEF RelaySent, RadiusInv
  <2>8. ASSUME NEW n \in Nodes, RelayFails(n) PROVE RadiusInv'
    <3>1. \A m \in Nodes :
            timers'[m] \cup relays'[m] \subseteq timers[m] \cup relays[m]
      BY <2>8 DEF RelayFails, TypeOK
    <3>. QED
      BY <2>8, <3>1, RadiusKept DEF RelayFails, RadiusInv
  <2>9. ASSUME NEW n \in Nodes, NEW k \in Keys, MarkOwn(n, k)
        PROVE HandlingNear' /\ RelaysNear' /\ CrossedNear'
    <3>1. HandlingNear' /\ RelaysNear'
      BY <2>9, RadiusKept DEF MarkOwn
    <3>2. ASSUME NEW m \in Nodes, NEW j \in Keys, crossed'[m][j] > 0
          PROVE Near(m, j, 1)'
      <4>1. CASE m = n /\ j = k
        <5>1. origin'[j] = n /\ Hops[n][n] = 0
          BY <2>9, <4>1 DEF MarkOwn, TypeOK, MeshAssumption
        <5>. QED
          BY <4>1, <5>1 DEF Near, MeshAssumption
      <4>2. CASE ~(m = n /\ j = k)
        <5>1. crossed[m][j] > 0
          BY <2>9, <3>2, <4>2 DEF MarkOwn, TypeOK
        <5>. QED
          BY <5>1, NearStable DEF RadiusInv, CrossedNear
      <4>. QED
        BY <4>1, <4>2
    <3>. QED
      BY <3>1, <3>2 DEF CrossedNear
  <2>10. ASSUME NEW n \in Nodes, NEW k \in Keys, Originate(n, k)
         PROVE RadiusInv'
    <3> DEFINE own == [key |-> k, ttl |-> InitTTL]
    <3>1. own \in Packet /\ MarkOwn(n, k) /\ Transmit(n, own)
      BY <2>10 DEF Originate, Packet, MeshAssumption
    <3>2. ASSUME NEW m \in Nodes, NEW q \in Packet, air'[m][q] > 0
          PROVE Near(m, q.key, q.ttl)'
      <4>1. q.key \in Keys /\ q.ttl \in Nat
        BY DEF Packet
      <4>2. CASE air[m][q] > 0
        BY <4>1, <4>2, NearStable DEF RadiusInv, AirNear
      <4>3. CASE q = own /\ m \in Neighbours[n]
        <5>1. origin'[k] = n
          BY <3>1 DEF MarkOwn, TypeOK
        <5>2. Hops[n][m] <= 1 /\ Hops[n][m] \in Nat
          BY <4>3 DEF MeshAssumption
        <5>. QED
          BY <4>3, <5>1, <5>2 DEF Near, MeshAssumption
      <4>. QED
        BY <3>1, <3>2, <4>2, <4>3, TransmitAir
    <3>3. AirNear'
      BY <3>2 DEF AirNear
    <3>. QED
      BY <2>9, <3>1, <3>3 DEF RadiusInv
  <2>11. ASSUME NEW n \in Nodes, NEW k \in Keys, OriginateFails(n, k)
         PROVE RadiusInv'
    <3>1. MarkOwn(n, k) /\ air' = air
      BY <2>11 DEF OriginateFails
    <3>2. AirNear'
      BY <3>1, RadiusKept
    <3>. QED
      BY <2>9, <3>1, <3>2 DEF RadiusInv
  <2>12. ASSUME NEW n \in Nodes, Stop(n) PROVE RadiusInv'
    <3>1. \A m \in Nodes, q \in Packet : air'[m][q] > 0 => air[m][q] > 0
      BY <2>12 DEF Stop, TypeOK
    <3>2. \A m \in Nodes : handling'[m] \in {Idle, handling[m]}
      BY <2>12 DEF Stop, TypeOK
    <3>3. \A m \in Nodes :
            timers'[m] \cup relays'[m] \subseteq timers[m] \cup relays[m]
      BY <2>12 DEF Stop, TypeOK
    <3>. QED
      BY <2>12, <3>1, <3>2, <3>3, RadiusKept DEF Stop, RadiusInv
  <2>13. ASSUME NEW n \in Nodes, Start(n) PROVE RadiusInv'
    <3>1. \A m \in Nodes, k \in Keys : crossed'[m][k] > 0 => crossed[m][k] > 0
      BY <2>13 DEF Start, TypeOK
    <3>2. \A m \in Nodes :
            timers'[m] \cup relays'[m] \subseteq timers[m] \cup relays[m]
      BY <2>13 DEF Start, TypeOK
    <3>. QED
      BY <2>13, <3>1, <3>2, RadiusKept DEF Start, RadiusInv
  <2>14. CASE Tick
    BY <2>14, RadiusKept DEF Tick, RadiusInv
  <2>15. CASE UNCHANGED vars
    BY <2>15, RadiusKept DEF vars, RadiusInv
  <2>. QED
    BY <2>1, <2>2, <2>3, <2>4, <2>5, <2>6, <2>7, <2>8, <2>10, <2>11, <2>12,
       <2>13, <2>14, <2>15 DEF Next
<1>. QED
  BY <1>1, <1>2, TypeCorrect, PTL DEF Spec

\* No copy of a frame, and no router that takes it up, is further from its
\* origin than its TTL allows, in any mesh and whatever is lost, repeated,
\* delayed, stored or forgotten.
THEOREM RadiusBounded == Spec => []WithinRadius
<1> USE MeshAssumption
<1>1. TypeOK /\ RadiusInv => WithinRadius
  <2> SUFFICES ASSUME TypeOK, RadiusInv, NEW n \in Nodes, NEW k \in Keys
               PROVE  /\ \A ttl \in 1 .. InitTTL :
                           air[n][[key |-> k, ttl |-> ttl]] > 0 =>
                             Hops[origin[k]][n] + ttl <= InitTTL + 1
                      /\ crossed[n][k] > 0 => Hops[origin[k]][n] <= InitTTL
    BY DEF WithinRadius
  <2>1. ASSUME NEW ttl \in 1 .. InitTTL, air[n][[key |-> k, ttl |-> ttl]] > 0
        PROVE Hops[origin[k]][n] + ttl <= InitTTL + 1
    <3>1. [key |-> k, ttl |-> ttl] \in Packet
      BY DEF Packet
    <3>. QED
      BY <2>1, <3>1 DEF RadiusInv, AirNear, Near
  <2>2. ASSUME crossed[n][k] > 0 PROVE Hops[origin[k]][n] <= InitTTL
    <3>1. Near(n, k, 1)
      BY <2>2 DEF RadiusInv, CrossedNear
    <3>. QED
      BY <3>1 DEF Near, MeshAssumption
  <2>. QED
    BY <2>1, <2>2
<1>. QED
  BY <1>1, TypeCorrect, RadiusInvariant, PTL

-----------------------------------------------------------------------------
(* How often a frame crosses a router.  The rate is not inductive: the      *)
(* invariant ties it to the moment the router last recorded the key, and    *)
(* says that a router which forgot the key may record it again.             *)

Window == DedupTTL + 1

\* x: when a key was last recorded, or Never; c: how often it was; t: now.
Rate(c, x, t) ==
  /\ x = Never => c * Window <= t
  /\ x # Never => (c - 1) * Window <= x /\ x <= t

SeenHasOrigin ==
  \A n \in Nodes, k \in Keys : seen[n][k] # Never => origin[k] # NoNode

RateInv ==
  /\ SeenHasOrigin
  /\ DedupCapacity >= Cardinality(Keys) =>
       \A n \in Nodes, k \in Keys : Rate(crossed[n][k], seen[n][k], now)

\* One memory window more.
LEMMA WindowGrows ==
  ASSUME MeshAssumption, NEW c \in Nat
  PROVE  /\ c * Window = (c - 1) * Window + Window
         /\ Window \in Nat \ {0}
         /\ c * Window \in Int /\ (c - 1) * Window \in Int
<1>1. Window \in Nat \ {0}
  BY DEF Window, MeshAssumption
<1>2. \A w \in Nat : c * w = (c - 1) * w + w /\ c * w \in Int /\ (c - 1) * w \in Int
  OBVIOUS
<1>. QED
  BY <1>1, <1>2

\* An entry that expired is at least a window old.
LEMMA ExpiryRate ==
  ASSUME MeshAssumption, NEW c \in Nat, NEW memory \in Memory, NEW k \in Keys,
         now \in Nat, Rate(c, memory[k], now)
  PROVE  Rate(c, Expired(memory)[k], now)
<1>1. CASE memory[k] = Never
  BY <1>1 DEF Expired, Rate
<1>2. CASE memory[k] # Never /\ ~(memory[k] + DedupTTL < now)
  BY <1>2 DEF Expired, Rate
<1>3. CASE memory[k] # Never /\ memory[k] + DedupTTL < now
  <2>1. memory[k] \in Nat /\ memory[k] + Window <= now
    BY <1>3 DEF Memory, Window, MeshAssumption
  <2>2. (c - 1) * Window <= memory[k]
    BY <1>3 DEF Rate
  <2>3. c * Window <= now
    BY <2>1, <2>2, WindowGrows
  <2>4. Expired(memory)[k] = Never
    BY <1>3 DEF Expired
  <2>. QED
    BY <2>3, <2>4 DEF Rate
<1>. QED
  BY <1>1, <1>2, <1>3

\* With room for every key, recording one evicts none.
LEMMA RecordedWithRoom ==
  ASSUME MeshAssumption, DedupCapacity >= Cardinality(Keys),
         NEW memory \in Memory, NEW k \in Keys,
         NEW after \in Recorded(memory, k)
  PROVE  after = [Expired(memory) EXCEPT ![k] = now]
<1> DEFINE full == [Expired(memory) EXCEPT ![k] = now]
<1> DEFINE known == {j \in Keys : full[j] # Never}
<1>1. IsFiniteSet(Keys) /\ known \subseteq Keys
  BY DEF MeshAssumption
<1>2. Cardinality(known) <= Cardinality(Keys)
  BY <1>1, FS_Subset
<1>3. Cardinality(known) \in Nat /\ Cardinality(Keys) \in Nat
  BY <1>1, FS_Subset, FS_CardinalityType
<1>4. Cardinality(known) <= DedupCapacity
  BY <1>2, <1>3 DEF MeshAssumption
<1>5. Recorded(memory, k) = {full}
  BY <1>4 DEF Recorded
<1>. QED
  BY <1>5

\* Recording a key that was not known keeps the rate of every key.
LEMMA RecordRate ==
  ASSUME MeshAssumption, DedupCapacity >= Cardinality(Keys), now \in Nat,
         NEW memory \in Memory, NEW k \in Keys, ~Knows(memory, k),
         NEW after \in Recorded(memory, k), NEW counts \in [Keys -> Nat],
         \A j \in Keys : Rate(counts[j], memory[j], now)
  PROVE  \A j \in Keys : Rate([counts EXCEPT ![k] = @ + 1][j], after[j], now)
<1>1. after = [Expired(memory) EXCEPT ![k] = now]
  BY RecordedWithRoom
<1>2. Expired(memory) \in Memory
  BY ExpiredType
<1>3. Rate(counts[k] + 1, now, now)
  <2>1. Rate(counts[k], Never, now)
    BY ExpiryRate DEF Knows
  <2>2. counts[k] * Window <= now
    BY <2>1 DEF Rate
  <2>3. (counts[k] + 1) - 1 = counts[k] /\ now # Never
    BY DEF Never
  <2>. QED
    BY <2>2, <2>3 DEF Rate
<1>4. ASSUME NEW j \in Keys, j # k
      PROVE Rate([counts EXCEPT ![k] = @ + 1][j], after[j], now)
  BY <1>1, <1>2, <1>4, ExpiryRate DEF Memory
<1>5. Rate([counts EXCEPT ![k] = @ + 1][k], after[k], now)
  BY <1>1, <1>2, <1>3 DEF Memory
<1>. QED
  BY <1>4, <1>5

\* A frame that was originated stays so.
LEMMA OriginKept ==
  ASSUME TypeOK, MeshAssumption, [Next]_vars, NEW k \in Keys,
         origin[k] # NoNode
  PROVE  origin'[k] # NoNode
<1>1. ASSUME NEW m \in Nodes, NEW j \in Keys, MarkOwn(m, j)
      PROVE origin'[k] # NoNode
  BY <1>1 DEF MarkOwn, MeshAssumption, TypeOK
<1>2. \/ origin' = origin
      \/ \E m \in Nodes, j \in Keys : MarkOwn(m, j)
  BY DEF Next, vars, HandleDuplicate, HandlePassing, HandleForUs, TakeNew,
         DeliverReturns, DeliverRaises, FireRelay, RelaySent, RelayFails,
         Originate, OriginateFails, Stop, Start, Tick
<1>. QED
  BY <1>1, <1>2

\* A step that records key k at n as new, at a moment n does not know it,
\* keeps the invariant when the frame has an origin afterwards.
LEMMA RecordKeepsRate ==
  ASSUME TypeOK, MeshAssumption, RateInv, [Next]_vars,
         NEW n \in Nodes, NEW k \in Keys, ~Knows(seen[n], k),
         origin'[k] # NoNode, now' = now,
         NEW after \in Recorded(seen[n], k),
         seen' = [seen EXCEPT ![n] = after],
         crossed' = [crossed EXCEPT ![n][k] = @ + 1]
  PROVE  RateInv'
<1>1. seen[n] \in Memory /\ crossed[n] \in [Keys -> Nat] /\ now \in Nat
  BY DEF TypeOK, Memory, MeshAssumption
<1>2. Expired(seen[n]) \in Memory
  BY <1>1, ExpiredType
<1>3. \A j \in Keys : j # k /\ after[j] # Never => seen[n][j] # Never
  <2>1. \A j \in Keys : Expired(seen[n])[j] \in {Never, seen[n][j]}
    BY <1>1, ExpiredType
  <2>2. \/ after = [Expired(seen[n]) EXCEPT ![k] = now]
        \/ \E i \in Keys :
             after = [[Expired(seen[n]) EXCEPT ![k] = now] EXCEPT ![i] = Never]
    BY DEF Recorded
  <2>. QED
    BY <1>2, <2>1, <2>2 DEF Memory
<1>4. ASSUME NEW m \in Nodes, NEW j \in Keys, seen'[m][j] # Never
      PROVE origin'[j] # NoNode
  <2>1. CASE m = n /\ j = k
    BY <2>1
  <2>2. CASE ~(m = n /\ j = k)
    <3>1. seen[m][j] # Never
      BY <1>3, <1>4, <2>2 DEF TypeOK
    <3>2. origin[j] # NoNode
      BY <3>1 DEF RateInv, SeenHasOrigin
    <3>. QED
      BY <3>2, OriginKept
  <2>. QED
    BY <2>1, <2>2
<1>5. ASSUME DedupCapacity >= Cardinality(Keys), NEW m \in Nodes, NEW j \in Keys
      PROVE Rate(crossed'[m][j], seen'[m][j], now)
  <2>1. \A i \in Keys : Rate(crossed[m][i], seen[m][i], now)
    BY <1>5 DEF RateInv
  <2>2. CASE m = n
    <3>1. Rate([crossed[n] EXCEPT ![k] = @ + 1][j], after[j], now)
      BY <1>1, <1>5, <2>1, <2>2, RecordRate
    <3>2. crossed'[m] = [crossed[n] EXCEPT ![k] = @ + 1] /\ seen'[m] = after
      BY <2>2 DEF TypeOK
    <3>. QED
      BY <3>1, <3>2
  <2>3. CASE m # n
    BY <2>1, <2>3 DEF TypeOK
  <2>. QED
    BY <2>2, <2>3
<1>. QED
  BY <1>4, <1>5 DEF RateInv, SeenHasOrigin, Rate, Window

\* It holds of every router in every reachable state.
LEMMA RateInvariant == Spec => []RateInv
<1> USE MeshAssumption
<1>1. Init => RateInv
  <2> SUFFICES ASSUME Init PROVE RateInv
    OBVIOUS
  <2>1. SeenHasOrigin
    BY DEF Init, SeenHasOrigin
  <2>2. ASSUME NEW n \in Nodes, NEW k \in Keys
        PROVE Rate(crossed[n][k], seen[n][k], now)
    <3>1. crossed[n][k] = 0 /\ seen[n][k] = Never /\ now = 0
      BY DEF Init
    <3>2. 0 * Window = 0
      BY DEF Window, MeshAssumption
    <3>. QED
      BY <3>1, <3>2 DEF Rate
  <2>. QED
    BY <2>1, <2>2 DEF RateInv
<1>2. TypeOK /\ RadiusInv /\ RateInv /\ [Next]_vars => RateInv'
  <2> SUFFICES ASSUME TypeOK, RadiusInv, RateInv, [Next]_vars
               PROVE  RateInv'
    OBVIOUS
  <2>1. ASSUME NEW n \in Nodes, NEW p \in Packet, HandleDuplicate(n, p)
        PROVE RateInv'
    <3>1. seen[n] \in Memory /\ now \in Nat
      BY DEF TypeOK, Memory, MeshAssumption
    <3>2. /\ seen' = [seen EXCEPT ![n] = Expired(seen[n])]
          /\ crossed' = crossed /\ now' = now /\ origin' = origin
      BY <2>1 DEF HandleDuplicate
    <3>3. \A j \in Keys : Expired(seen[n])[j] \in {Never, seen[n][j]}
      BY <3>1, ExpiredType
    <3>4. \A m \in Nodes, j \in Keys : seen'[m][j] \in {Never, seen[m][j]}
      BY <3>2, <3>3 DEF TypeOK
    <3>5. SeenHasOrigin'
      BY <3>2, <3>4 DEF RateInv, SeenHasOrigin
    <3>6. ASSUME DedupCapacity >= Cardinality(Keys),
                 NEW m \in Nodes, NEW j \in Keys
          PROVE Rate(crossed[m][j], seen'[m][j], now)
      <4>1. Rate(crossed[m][j], seen[m][j], now) /\ crossed[m][j] \in Nat
        BY <3>6 DEF RateInv, TypeOK
      <4>2. CASE m = n
        BY <3>1, <3>2, <4>1, <4>2, ExpiryRate DEF TypeOK
      <4>3. CASE m # n
        BY <3>2, <4>1, <4>3 DEF TypeOK
      <4>. QED
        BY <4>2, <4>3
    <3>. QED
      BY <3>2, <3>5, <3>6 DEF RateInv, Rate, Window
  <2>2. ASSUME NEW n \in Nodes, NEW p \in Packet, TakeNew(n, p)
        PROVE RateInv'
    <3>1. p.key \in Keys
      BY DEF Packet
    <3>2. Near(n, p.key, p.ttl)
      BY <2>2 DEF TakeNew, Takes, RadiusInv, AirNear
    <3>3. origin'[p.key] # NoNode /\ now' = now
      BY <2>2, <3>2 DEF Near, MeshAssumption, TakeNew
    <3>4. PICK after \in Recorded(seen[n], p.key) :
            seen' = [seen EXCEPT ![n] = after]
      BY <2>2 DEF TakeNew
    <3>5. /\ ~Knows(seen[n], p.key)
          /\ crossed' = [crossed EXCEPT ![n][p.key] = @ + 1]
      BY <2>2 DEF TakeNew
    <3>. QED
      BY <3>1, <3>3, <3>4, <3>5, RecordKeepsRate
  <2>3. ASSUME NEW n \in Nodes, NEW k \in Keys, MarkOwn(n, k)
        PROVE RateInv'
    <3>1. seen[n][k] = Never
      BY <2>3 DEF MarkOwn, RateInv, SeenHasOrigin
    <3>2. ~Knows(seen[n], k)
      BY <3>1 DEF Knows, Expired
    <3>3. PICK after \in Recorded(seen[n], k) :
            seen' = [seen EXCEPT ![n] = after]
      BY <2>3 DEF MarkOwn
    <3>4. /\ origin'[k] # NoNode /\ now' = now
          /\ crossed' = [crossed EXCEPT ![n][k] = @ + 1]
      BY <2>3 DEF MarkOwn, TypeOK, MeshAssumption
    <3>. QED
      BY <3>2, <3>3, <3>4, RecordKeepsRate
  <2>4. ASSUME seen' = seen, crossed' = crossed, now' = now, origin' = origin
        PROVE RateInv'
    BY <2>4 DEF RateInv, SeenHasOrigin, Rate, Window
  <2>5. ASSUME NEW n \in Nodes, Start(n) PROVE RateInv'
    <3>1. now \in Nat /\ now' = now /\ origin' = origin
      BY <2>5 DEF Start, TypeOK, MeshAssumption
    <3>2. \A m \in Nodes, k \in Keys :
            \/ seen'[m][k] = Never /\ crossed'[m][k] = 0
            \/ seen'[m][k] = seen[m][k] /\ crossed'[m][k] = crossed[m][k]
      BY <2>5 DEF Start, TypeOK
    <3>3. Rate(0, Never, now)
      <4>1. 0 * Window = 0
        BY DEF Window, MeshAssumption
      <4>. QED
        BY <3>1, <4>1 DEF Rate
    <3>4. SeenHasOrigin'
      BY <3>1, <3>2 DEF RateInv, SeenHasOrigin
    <3>5. ASSUME DedupCapacity >= Cardinality(Keys),
                 NEW m \in Nodes, NEW k \in Keys
          PROVE Rate(crossed'[m][k], seen'[m][k], now)
      BY <3>2, <3>3, <3>5 DEF RateInv
    <3>. QED
      BY <3>1, <3>4, <3>5 DEF RateInv, Rate, Window
  <2>6. CASE Tick
    <3>1. /\ now \in Nat /\ now' = now + 1
          /\ seen' = seen /\ crossed' = crossed /\ origin' = origin
      BY <2>6 DEF Tick, TypeOK, MeshAssumption
    <3>2. ASSUME DedupCapacity >= Cardinality(Keys),
                 NEW m \in Nodes, NEW k \in Keys
          PROVE Rate(crossed[m][k], seen[m][k], now + 1)
      <4>1. Rate(crossed[m][k], seen[m][k], now)
        BY <3>2 DEF RateInv
      <4>2. crossed[m][k] \in Nat /\ crossed[m][k] * Window \in Int
        BY WindowGrows DEF TypeOK
      <4>3. seen[m][k] # Never => seen[m][k] \in Nat
        BY DEF TypeOK, MeshAssumption
      <4>. QED
        BY <3>1, <4>1, <4>2, <4>3 DEF Rate
    <3>. QED
      BY <3>1, <3>2 DEF RateInv, SeenHasOrigin, Rate, Window
  <2>7. \/ \E n \in Nodes, p \in Packet : HandleDuplicate(n, p)
        \/ \E n \in Nodes, p \in Packet : TakeNew(n, p)
        \/ \E n \in Nodes, k \in Keys : MarkOwn(n, k)
        \/ \E n \in Nodes : Start(n)
        \/ Tick
        \/ seen' = seen /\ crossed' = crossed /\ now' = now /\ origin' = origin
    BY DEF Next, vars, HandlePassing, HandleForUs, DeliverReturns,
           DeliverRaises, FireRelay, RelaySent, RelayFails, Originate,
           OriginateFails, Stop
  <2>. QED
    BY <2>1, <2>2, <2>3, <2>4, <2>5, <2>6, <2>7
<1>. QED
  BY <1>1, <1>2, TypeCorrect, RadiusInvariant, PTL DEF Spec

\* A router with room for every key records a frame as new at most once in
\* every window longer than the time to live of its memory, however many
\* copies of the frame it hears and from wherever they come.
THEOREM CrossingsBounded == Spec => []CrossRate
<1> USE MeshAssumption
<1>1. TypeOK /\ RateInv => CrossRate
  <2> SUFFICES ASSUME TypeOK, RateInv, DedupCapacity >= Cardinality(Keys),
                      NEW n \in Nodes, NEW k \in Keys
               PROVE  (crossed[n][k] - 1) * (DedupTTL + 1) <= now
    BY DEF CrossRate
  <2>1. Rate(crossed[n][k], seen[n][k], now)
    BY DEF RateInv
  <2>2. crossed[n][k] \in Nat /\ now \in Nat
    BY DEF TypeOK, MeshAssumption
  <2>3. /\ crossed[n][k] * Window = (crossed[n][k] - 1) * Window + Window
        /\ Window \in Nat /\ (crossed[n][k] - 1) * Window \in Int
        /\ crossed[n][k] * Window \in Int
    BY <2>2, WindowGrows
  <2>4. seen[n][k] # Never => seen[n][k] \in Nat
    BY DEF TypeOK, MeshAssumption
  <2>5. (crossed[n][k] - 1) * Window <= now
    BY <2>1, <2>2, <2>3, <2>4 DEF Rate
  <2>. QED
    BY <2>5 DEF Window
<1>. QED
  BY <1>1, TypeCorrect, RateInvariant, PTL

-----------------------------------------------------------------------------
(* No storm.  A frame that was taken is under delivery before its timer is  *)
(* armed, so the invariant counts the delivery as well, and says that the   *)
(* sets counted are finite.                                                 *)

Of(set, k) == {t \in set : t.pkt.key = k}

Count(set, k) == Cardinality(Of(set, k))

Busy(frame, k) == IF frame # Idle /\ frame.key = k THEN 1 ELSE 0

\* One router, by its timers, its relays, the frame it handles, and how often
\* it sent (s) and took (c) every key.
Calm(ts, rs, frame, s, c) ==
  /\ IsFiniteSet(ts)
  /\ IsFiniteSet(rs)
  /\ \A k \in Keys : s[k] + Count(ts, k) + Count(rs, k) + Busy(frame, k) <= c[k]

StormInv ==
  \A n \in Nodes : Calm(timers[n], relays[n], handling[n], sent[n], crossed[n])

\* A part of a finite set has no more of a key than the set.
LEMMA CountSubset ==
  ASSUME NEW S, IsFiniteSet(S), NEW T \in SUBSET S, NEW k
  PROVE  /\ IsFiniteSet(T)
         /\ Count(S, k) \in Nat /\ Count(T, k) \in Nat
         /\ Count(T, k) <= Count(S, k)
<1>1. Of(T, k) \subseteq Of(S, k) /\ Of(S, k) \subseteq S
  BY DEF Of
<1>2. IsFiniteSet(T) /\ IsFiniteSet(Of(S, k))
  BY <1>1, FS_Subset
<1>3. IsFiniteSet(Of(T, k)) /\ Cardinality(Of(T, k)) <= Cardinality(Of(S, k))
  BY <1>1, <1>2, FS_Subset
<1>. QED
  BY <1>2, <1>3, FS_CardinalityType DEF Count

\* A new member counts once, for its own key.
LEMMA CountAdd ==
  ASSUME NEW S, IsFiniteSet(S), NEW t, NEW k
  PROVE  /\ IsFiniteSet(S \cup {t})
         /\ Count(S \cup {t}, k) \in Nat
         /\ Count(S \cup {t}, k) <= Count(S, k) + (IF t.pkt.key = k THEN 1 ELSE 0)
<1>1. IsFiniteSet(S \cup {t})
  BY FS_AddElement
<1>2. IsFiniteSet(Of(S, k)) /\ Count(S, k) \in Nat
  <2>1. Of(S, k) \subseteq S
    BY DEF Of
  <2>. QED
    BY <2>1, FS_Subset, FS_CardinalityType DEF Count
<1>3. CASE t.pkt.key = k
  <2>1. Of(S \cup {t}, k) = Of(S, k) \cup {t}
    BY <1>3 DEF Of
  <2>2. /\ Cardinality(Of(S, k) \cup {t}) = Cardinality(Of(S, k))
           \/ Cardinality(Of(S, k) \cup {t}) = Cardinality(Of(S, k)) + 1
    BY <1>2, FS_AddElement
  <2>. QED
    BY <1>1, <1>2, <1>3, <2>1, <2>2 DEF Count
<1>4. CASE t.pkt.key # k
  <2>1. Of(S \cup {t}, k) = Of(S, k)
    BY <1>4 DEF Of
  <2>. QED
    BY <1>1, <1>2, <1>4, <2>1 DEF Count
<1>. QED
  BY <1>3, <1>4

\* A member that goes counted once, for its own key.
LEMMA CountRemove ==
  ASSUME NEW S, IsFiniteSet(S), NEW t \in S, NEW k
  PROVE  /\ IsFiniteSet(S \ {t})
         /\ Count(S, k) \in Nat /\ Count(S \ {t}, k) \in Nat
         /\ Count(S, k) = Count(S \ {t}, k) + (IF t.pkt.key = k THEN 1 ELSE 0)
<1>1. IsFiniteSet(S \ {t})
  BY FS_RemoveElement
<1>2. /\ IsFiniteSet(Of(S, k))
      /\ Count(S, k) \in Nat /\ Count(S \ {t}, k) \in Nat
  <2>1. Of(S, k) \subseteq S /\ Of(S \ {t}, k) \subseteq S \ {t}
    BY DEF Of
  <2>. QED
    BY <1>1, <2>1, FS_Subset, FS_CardinalityType DEF Count
<1>3. CASE t.pkt.key = k
  <2>1. Of(S \ {t}, k) = Of(S, k) \ {t} /\ t \in Of(S, k)
    BY <1>3 DEF Of
  <2>2. Cardinality(Of(S, k) \ {t}) = Cardinality(Of(S, k)) - 1
    BY <1>2, <2>1, FS_RemoveElement
  <2>. QED
    BY <1>1, <1>2, <1>3, <2>1, <2>2 DEF Count
<1>4. CASE t.pkt.key # k
  <2>1. Of(S \ {t}, k) = Of(S, k)
    BY <1>4 DEF Of
  <2>. QED
    BY <1>1, <1>2, <1>4, <2>1 DEF Count
<1>. QED
  BY <1>3, <1>4

\* A router that drops timers, relays or the frame it handles stays calm.
LEMMA CalmLess ==
  ASSUME NEW ts, NEW rs, NEW frame, NEW s \in [Keys -> Nat],
         NEW c \in [Keys -> Nat], Calm(ts, rs, frame, s, c)
  PROVE  \A ts2, rs2 : ts2 \subseteq ts /\ rs2 \subseteq rs =>
           Calm(ts2, rs2, frame, s, c) /\ Calm(ts2, rs2, Idle, s, c)
<1> SUFFICES ASSUME NEW ts2, NEW rs2, ts2 \subseteq ts, rs2 \subseteq rs,
                    NEW frame2, frame2 = frame \/ frame2 = Idle
             PROVE  Calm(ts2, rs2, frame2, s, c)
  OBVIOUS
<1>1. IsFiniteSet(ts) /\ IsFiniteSet(rs)
  BY DEF Calm
<1>2. IsFiniteSet(ts2) /\ IsFiniteSet(rs2)
  BY <1>1, FS_Subset
<1>3. ASSUME NEW k \in Keys
      PROVE s[k] + Count(ts2, k) + Count(rs2, k) + Busy(frame2, k) <= c[k]
  <2>1. /\ Count(ts, k) \in Nat /\ Count(ts2, k) \in Nat
        /\ Count(ts2, k) <= Count(ts, k)
    BY <1>1, CountSubset
  <2>2. /\ Count(rs, k) \in Nat /\ Count(rs2, k) \in Nat
        /\ Count(rs2, k) <= Count(rs, k)
    BY <1>1, CountSubset
  <2>3. Busy(frame2, k) \in {0, 1} /\ Busy(frame, k) \in {0, 1}
        /\ Busy(frame2, k) <= Busy(frame, k)
    BY DEF Busy
  <2>4. s[k] + Count(ts, k) + Count(rs, k) + Busy(frame, k) <= c[k]
    BY DEF Calm
  <2>5. s[k] \in Nat /\ c[k] \in Nat
    OBVIOUS
  <2>. QED
    BY <2>1, <2>2, <2>3, <2>4, <2>5
<1>. QED
  BY <1>2, <1>3 DEF Calm

\* Taking a frame makes room for the frame to be handled.
LEMMA CalmTake ==
  ASSUME NEW ts, NEW rs, NEW s \in [Keys -> Nat], NEW c \in [Keys -> Nat],
         Calm(ts, rs, Idle, s, c), NEW p \in Packet
  PROVE  Calm(ts, rs, p, s, [c EXCEPT ![p.key] = @ + 1])
<1>1. IsFiniteSet(ts) /\ IsFiniteSet(rs)
  BY DEF Calm
<1>2. ASSUME NEW k \in Keys
      PROVE s[k] + Count(ts, k) + Count(rs, k) + Busy(p, k)
              <= [c EXCEPT ![p.key] = @ + 1][k]
  <2>1. Count(ts, k) \in Nat /\ Count(rs, k) \in Nat
    BY <1>1, CountSubset
  <2>2. s[k] + Count(ts, k) + Count(rs, k) + 0 <= c[k]
    BY DEF Calm, Busy
  <2>3. Busy(p, k) = IF p.key = k THEN 1 ELSE 0
    BY NoValueAssumption DEF Busy
  <2>4. [c EXCEPT ![p.key] = @ + 1][k] = IF p.key = k THEN c[k] + 1 ELSE c[k]
    OBVIOUS
  <2>5. s[k] \in Nat /\ c[k] \in Nat
    OBVIOUS
  <2>. QED
    BY <2>1, <2>2, <2>3, <2>4, <2>5
<1>. QED
  BY <1>1, <1>2 DEF Calm

\* The frame handled becomes a timer.
LEMMA CalmArm ==
  ASSUME NEW ts, NEW rs, NEW s \in [Keys -> Nat], NEW c \in [Keys -> Nat],
         NEW p \in Packet, Calm(ts, rs, p, s, c), NEW t, t.pkt.key = p.key
  PROVE  Calm(ts \cup {t}, rs, Idle, s, c)
<1>1. IsFiniteSet(ts) /\ IsFiniteSet(rs) /\ IsFiniteSet(ts \cup {t})
  BY FS_AddElement DEF Calm
<1>2. ASSUME NEW k \in Keys
      PROVE s[k] + Count(ts \cup {t}, k) + Count(rs, k) + Busy(Idle, k) <= c[k]
  <2>1. Count(ts, k) \in Nat /\ Count(rs, k) \in Nat
    BY <1>1, CountSubset
  <2>2. s[k] + Count(ts, k) + Count(rs, k) + Busy(p, k) <= c[k]
    BY DEF Calm
  <2>3. Busy(p, k) = IF p.key = k THEN 1 ELSE 0
    BY NoValueAssumption DEF Busy
  <2>4. /\ Count(ts \cup {t}, k) \in Nat
        /\ Count(ts \cup {t}, k) <= Count(ts, k) + (IF p.key = k THEN 1 ELSE 0)
    BY <1>1, CountAdd
  <2>5. s[k] \in Nat /\ c[k] \in Nat /\ Busy(Idle, k) = 0
    BY DEF Busy
  <2>. QED
    BY <2>1, <2>2, <2>3, <2>4, <2>5
<1>. QED
  BY <1>1, <1>2 DEF Calm

\* A timer becomes a relay.
LEMMA CalmFire ==
  ASSUME NEW ts, NEW rs, NEW frame, NEW s \in [Keys -> Nat],
         NEW c \in [Keys -> Nat], Calm(ts, rs, frame, s, c), NEW t \in ts
  PROVE  Calm(ts \ {t}, rs \cup {t}, frame, s, c)
<1>1. /\ IsFiniteSet(ts) /\ IsFiniteSet(rs)
      /\ IsFiniteSet(ts \ {t}) /\ IsFiniteSet(rs \cup {t})
  BY FS_AddElement, FS_RemoveElement DEF Calm
<1>2. ASSUME NEW k \in Keys
      PROVE s[k] + Count(ts \ {t}, k) + Count(rs \cup {t}, k) + Busy(frame, k)
              <= c[k]
  <2>1. s[k] + Count(ts, k) + Count(rs, k) + Busy(frame, k) <= c[k]
    BY DEF Calm
  <2>2. /\ Count(ts, k) \in Nat /\ Count(ts \ {t}, k) \in Nat
        /\ Count(ts, k) = Count(ts \ {t}, k) + (IF t.pkt.key = k THEN 1 ELSE 0)
    BY <1>1, CountRemove
  <2>3. /\ Count(rs \cup {t}, k) \in Nat
        /\ Count(rs \cup {t}, k)
             <= Count(rs, k) + (IF t.pkt.key = k THEN 1 ELSE 0)
    BY <1>1, CountAdd
  <2>4. Count(rs, k) \in Nat
    BY <1>1, CountSubset
  <2>5. s[k] \in Nat /\ c[k] \in Nat /\ Busy(frame, k) \in {0, 1}
    BY DEF Busy
  <2>. QED
    BY <2>1, <2>2, <2>3, <2>4, <2>5
<1>. QED
  BY <1>1, <1>2 DEF Calm

\* A relay becomes a transmission.
LEMMA CalmSent ==
  ASSUME NEW ts, NEW rs, NEW frame, NEW s \in [Keys -> Nat],
         NEW c \in [Keys -> Nat], Calm(ts, rs, frame, s, c), NEW t \in rs
  PROVE  Calm(ts, rs \ {t}, frame, [s EXCEPT ![t.pkt.key] = @ + 1], c)
<1>1. IsFiniteSet(ts) /\ IsFiniteSet(rs) /\ IsFiniteSet(rs \ {t})
  BY FS_RemoveElement DEF Calm
<1>2. ASSUME NEW k \in Keys
      PROVE [s EXCEPT ![t.pkt.key] = @ + 1][k] + Count(ts, k)
              + Count(rs \ {t}, k) + Busy(frame, k) <= c[k]
  <2>1. s[k] + Count(ts, k) + Count(rs, k) + Busy(frame, k) <= c[k]
    BY DEF Calm
  <2>2. /\ Count(rs, k) \in Nat /\ Count(rs \ {t}, k) \in Nat
        /\ Count(rs, k) = Count(rs \ {t}, k) + (IF t.pkt.key = k THEN 1 ELSE 0)
    BY <1>1, CountRemove
  <2>3. [s EXCEPT ![t.pkt.key] = @ + 1][k]
          = IF t.pkt.key = k THEN s[k] + 1 ELSE s[k]
    OBVIOUS
  <2>4. Count(ts, k) \in Nat
    BY <1>1, CountSubset
  <2>5. s[k] \in Nat /\ c[k] \in Nat /\ Busy(frame, k) \in {0, 1}
    BY DEF Busy
  <2>. QED
    BY <2>1, <2>2, <2>3, <2>4, <2>5
<1>. QED
  BY <1>1, <1>2 DEF Calm

\* A frame of one's own is taken, and transmitted or not.
LEMMA CalmOwn ==
  ASSUME NEW ts, NEW rs, NEW frame, NEW s \in [Keys -> Nat],
         NEW c \in [Keys -> Nat], Calm(ts, rs, frame, s, c), NEW j \in Keys
  PROVE  /\ Calm(ts, rs, frame, s, [c EXCEPT ![j] = @ + 1])
         /\ Calm(ts, rs, frame, [s EXCEPT ![j] = @ + 1], [c EXCEPT ![j] = @ + 1])
<1>1. IsFiniteSet(ts) /\ IsFiniteSet(rs)
  BY DEF Calm
<1>2. ASSUME NEW k \in Keys
      PROVE /\ s[k] + Count(ts, k) + Count(rs, k) + Busy(frame, k)
                 <= [c EXCEPT ![j] = @ + 1][k]
            /\ [s EXCEPT ![j] = @ + 1][k] + Count(ts, k) + Count(rs, k)
                 + Busy(frame, k) <= [c EXCEPT ![j] = @ + 1][k]
  <2>1. s[k] + Count(ts, k) + Count(rs, k) + Busy(frame, k) <= c[k]
    BY DEF Calm
  <2>2. Count(ts, k) \in Nat /\ Count(rs, k) \in Nat
    BY <1>1, CountSubset
  <2>3. /\ [s EXCEPT ![j] = @ + 1][k] = IF j = k THEN s[k] + 1 ELSE s[k]
        /\ [c EXCEPT ![j] = @ + 1][k] = IF j = k THEN c[k] + 1 ELSE c[k]
    OBVIOUS
  <2>4. s[k] \in Nat /\ c[k] \in Nat /\ Busy(frame, k) \in {0, 1}
    BY DEF Busy
  <2>. QED
    BY <2>1, <2>2, <2>3, <2>4
<1>. QED
  BY <1>1, <1>2 DEF Calm

\* Scheduling turns the frame at hand into a timer, or into nothing.
LEMMA CalmSchedule ==
  ASSUME TypeOK, NEW n \in Nodes, NEW p \in Packet, NEW number,
         ScheduleRelay(n, p, number),
         NEW rs, NEW s \in [Keys -> Nat], NEW c \in [Keys -> Nat],
         Calm(timers[n], rs, p, s, c)
  PROVE  /\ Calm(timers'[n], rs, Idle, s, c)
         /\ \A m \in Nodes : m # n => timers'[m] = timers[m]
<1>1. CASE p.ttl <= 1
  BY <1>1, CalmLess DEF ScheduleRelay
<1>2. CASE ~(p.ttl <= 1)
  <2> DEFINE new == RelayTimer(p, p.ttl - 1, number)
  <2>1. new.pkt.key = p.key
    BY DEF RelayTimer
  <2>2. timers' = [timers EXCEPT ![n] = @ \cup {new}]
    BY <1>2 DEF ScheduleRelay, Arm
  <2> HIDE DEF new
  <2>3. Calm(timers[n] \cup {new}, rs, Idle, s, c)
    BY <2>1, CalmArm
  <2>. QED
    BY <2>2, <2>3 DEF TypeOK
<1>. QED
  BY <1>1, <1>2

\* A step that changes the account of one router keeps the others'.
LEMMA OneRouter ==
  ASSUME StormInv, NEW n \in Nodes,
         Calm(timers[n], relays[n], handling[n], sent[n], crossed[n])',
         \A m \in Nodes : m # n =>
           /\ timers'[m] = timers[m] /\ relays'[m] = relays[m]
           /\ handling'[m] = handling[m]
           /\ sent'[m] = sent[m] /\ crossed'[m] = crossed[m]
  PROVE  StormInv'
<1>1. ASSUME NEW m \in Nodes, m # n
      PROVE Calm(timers[m], relays[m], handling[m], sent[m], crossed[m])'
  BY <1>1 DEF StormInv, Calm, Count, Of, Busy
<1>. QED
  BY <1>1 DEF StormInv

\* A stopped router handles no frame.
DownIsIdle == \A n \in Nodes : ~up[n] => handling[n] = Idle

\* It holds in every reachable state.
LEMMA DownIsIdleInvariant == Spec => []DownIsIdle
<1> USE MeshAssumption
<1>1. Init => DownIsIdle
  BY DEF Init, DownIsIdle
<1>2. TypeOK /\ DownIsIdle /\ [Next]_vars => DownIsIdle'
  <2> SUFFICES ASSUME TypeOK, DownIsIdle, [Next]_vars,
                      NEW n \in Nodes, ~up'[n]
               PROVE  handling'[n] = Idle
    BY DEF DownIsIdle
  <2>1. CASE up' = up /\ handling'[n] \in {Idle, handling[n]}
    BY <2>1 DEF DownIsIdle
  <2>2. ASSUME NEW m \in Nodes, NEW p \in Packet, HandleForUs(m, p)
        PROVE handling'[n] = Idle
    BY <2>2 DEF HandleForUs, TakeNew, Takes, TypeOK, DownIsIdle
  <2>3. ASSUME NEW m \in Nodes, Stop(m) PROVE handling'[n] = Idle
    BY <2>3 DEF Stop, TypeOK, DownIsIdle
  <2>4. ASSUME NEW m \in Nodes, Start(m) PROVE handling'[n] = Idle
    BY <2>4 DEF Start, TypeOK, DownIsIdle
  <2>5. ASSUME NEW m \in Nodes, DeliverReturns(m) \/ DeliverRaises(m)
        PROVE handling'[n] = Idle
    BY <2>1, <2>5 DEF DeliverReturns, DeliverRaises, TypeOK
  <2>6. \/ up' = up /\ handling' = handling
        \/ \E m \in Nodes, p \in Packet : HandleForUs(m, p)
        \/ \E m \in Nodes : Stop(m) \/ Start(m)
        \/ \E m \in Nodes : DeliverReturns(m) \/ DeliverRaises(m)
    BY DEF Next, vars, HandleDuplicate, HandlePassing, TakeNew, FireRelay,
           RelaySent, RelayFails, Originate, OriginateFails, MarkOwn, Tick
  <2>. QED
    BY <2>1, <2>2, <2>3, <2>4, <2>5, <2>6
<1>. QED
  BY <1>1, <1>2, TypeCorrect, PTL DEF Spec

\* The account balances in every reachable state.
LEMMA StormInvariant == Spec => []StormInv
<1> USE MeshAssumption
<1>1. Init => StormInv
  <2> SUFFICES ASSUME Init, NEW n \in Nodes
               PROVE  Calm(timers[n], relays[n], handling[n], sent[n], crossed[n])
    BY DEF StormInv
  <2>1. /\ timers[n] = {} /\ relays[n] = {} /\ handling[n] = Idle
        /\ \A k \in Keys : sent[n][k] = 0 /\ crossed[n][k] = 0
    BY DEF Init
  <2>2. \A k \in Keys : Count({}, k) = 0 /\ Busy(Idle, k) = 0
    BY FS_EmptySet DEF Count, Of, Busy
  <2>. QED
    BY <2>1, <2>2, FS_EmptySet DEF Calm
<1>2. TypeOK /\ TypeOK' /\ DownIsIdle /\ StormInv /\ [Next]_vars => StormInv'
  <2> SUFFICES ASSUME TypeOK, TypeOK', DownIsIdle, StormInv, [Next]_vars
               PROVE  StormInv'
    OBVIOUS
  <2>0. \A n \in Nodes :
          /\ Calm(timers[n], relays[n], handling[n], sent[n], crossed[n])
          /\ sent[n] \in [Keys -> Nat] /\ crossed[n] \in [Keys -> Nat]
    BY DEF StormInv, TypeOK
  <2>1. ASSUME NEW n \in Nodes, timers'[n] \subseteq timers[n],
               relays'[n] \subseteq relays[n], handling'[n] \in {Idle, handling[n]},
               sent' = sent, crossed' = crossed,
               \A m \in Nodes : m # n =>
                 /\ timers'[m] = timers[m] /\ relays'[m] = relays[m]
                 /\ handling'[m] = handling[m]
        PROVE StormInv'
    <3>1. /\ Calm(timers'[n], relays'[n], handling[n], sent[n], crossed[n])
          /\ Calm(timers'[n], relays'[n], Idle, sent[n], crossed[n])
      BY <2>0, <2>1, CalmLess
    <3>2. Calm(timers'[n], relays'[n], handling'[n], sent[n], crossed[n])
      BY <2>1, <3>1
    <3>3. Calm(timers[n], relays[n], handling[n], sent[n], crossed[n])'
      BY <2>1, <3>2
    <3>. QED
      BY <2>1, <3>3, OneRouter
  <2>2. ASSUME NEW n \in Nodes, NEW p \in Packet, HandleDuplicate(n, p)
        PROVE StormInv'
    BY <2>1, <2>2 DEF HandleDuplicate, TypeOK
  <2>3. ASSUME NEW n \in Nodes, NEW p \in Packet, TakeNew(n, p)
        PROVE /\ Calm(timers[n], relays[n], p, sent[n], crossed'[n])
              /\ relays' = relays /\ sent' = sent
              /\ \A m \in Nodes : m # n => crossed'[m] = crossed[m]
    <3>1. /\ handling[n] = Idle /\ relays' = relays /\ sent' = sent
          /\ crossed' = [crossed EXCEPT ![n][p.key] = @ + 1]
      BY <2>3 DEF TakeNew, Takes
    <3>2. Calm(timers[n], relays[n], p, sent[n],
               [crossed[n] EXCEPT ![p.key] = @ + 1])
      BY <2>0, <3>1, CalmTake
    <3>. QED
      BY <3>1, <3>2 DEF TypeOK
  <2>4. ASSUME NEW n \in Nodes, NEW p \in Packet, HandlePassing(n, p)
        PROVE StormInv'
    <3>1. /\ TakeNew(n, p) /\ handling' = handling /\ handling[n] = Idle
          /\ ScheduleRelay(n, p, crossed'[n][p.key])
      BY <2>4 DEF HandlePassing, TakeNew, Takes
    <3>2. crossed'[n] \in [Keys -> Nat]
      BY DEF TypeOK
    <3>3. /\ Calm(timers'[n], relays[n], Idle, sent[n], crossed'[n])
          /\ \A m \in Nodes : m # n => timers'[m] = timers[m]
      BY <2>0, <2>3, <3>1, <3>2, CalmSchedule
    <3>4. Calm(timers[n], relays[n], handling[n], sent[n], crossed[n])'
      BY <2>3, <3>1, <3>3
    <3>. QED
      BY <2>3, <3>1, <3>3, <3>4, OneRouter
  <2>5. ASSUME NEW n \in Nodes, NEW p \in Packet, HandleForUs(n, p)
        PROVE StormInv'
    <3>1. /\ TakeNew(n, p) /\ timers' = timers
          /\ handling' = [handling EXCEPT ![n] = p]
      BY <2>5 DEF HandleForUs
    <3>2. handling'[n] = p /\ \A m \in Nodes : m # n => handling'[m] = handling[m]
      BY <3>1 DEF TypeOK
    <3>3. Calm(timers[n], relays[n], handling[n], sent[n], crossed[n])'
      BY <2>3, <3>1, <3>2
    <3>. QED
      BY <2>3, <3>1, <3>2, <3>3, OneRouter
  <2>6. ASSUME NEW n \in Nodes, DeliverReturns(n) PROVE StormInv'
    <3>1. /\ handling[n] \in Packet
          /\ ScheduleRelay(n, handling[n], crossed[n][handling[n].key])
          /\ handling' = [handling EXCEPT ![n] = Idle]
          /\ relays' = relays /\ sent' = sent /\ crossed' = crossed
      BY <2>6 DEF DeliverReturns, TypeOK
    <3>2. /\ handling'[n] = Idle
          /\ \A m \in Nodes : m # n => handling'[m] = handling[m]
      BY <3>1 DEF TypeOK
    <3>3. /\ Calm(timers'[n], relays[n], Idle, sent[n], crossed[n])
          /\ \A m \in Nodes : m # n => timers'[m] = timers[m]
      BY <2>0, <3>1, CalmSchedule
    <3>4. Calm(timers[n], relays[n], handling[n], sent[n], crossed[n])'
      BY <3>1, <3>2, <3>3
    <3>. QED
      BY <3>1, <3>2, <3>3, <3>4, OneRouter
  <2>7. ASSUME NEW n \in Nodes, DeliverRaises(n) PROVE StormInv'
    BY <2>1, <2>7 DEF DeliverRaises, TypeOK
  <2>8. ASSUME NEW n \in Nodes, FireRelay(n) PROVE StormInv'
    <3>1. PICK t \in timers[n] : /\ timers' = [timers EXCEPT ![n] = @ \ {t}]
                                 /\ relays' = [relays EXCEPT ![n] = @ \cup {t}]
      BY <2>8 DEF FireRelay
    <3>2. handling' = handling /\ sent' = sent /\ crossed' = crossed
      BY <2>8 DEF FireRelay
    <3>3. Calm(timers[n] \ {t}, relays[n] \cup {t}, handling[n], sent[n], crossed[n])
      BY <2>0, CalmFire
    <3>4. /\ timers'[n] = timers[n] \ {t} /\ relays'[n] = relays[n] \cup {t}
          /\ \A m \in Nodes : m # n =>
               timers'[m] = timers[m] /\ relays'[m] = relays[m]
      BY <3>1 DEF TypeOK
    <3>5. Calm(timers[n], relays[n], handling[n], sent[n], crossed[n])'
      BY <3>2, <3>3, <3>4
    <3>. QED
      BY <3>2, <3>4, <3>5, OneRouter
  <2>9. ASSUME NEW n \in Nodes, RelaySent(n) PROVE StormInv'
    <3>1. PICK t \in relays[n] : /\ relays' = [relays EXCEPT ![n] = @ \ {t}]
                                 /\ Transmit(n, t.pkt)
      BY <2>9 DEF RelaySent
    <3>2. handling' = handling /\ timers' = timers /\ crossed' = crossed
      BY <2>9 DEF RelaySent
    <3>3. sent' = [sent EXCEPT ![n][t.pkt.key] = @ + 1]
      BY <3>1 DEF Transmit
    <3>4. Calm(timers[n], relays[n] \ {t}, handling[n],
               [sent[n] EXCEPT ![t.pkt.key] = @ + 1], crossed[n])
      BY <2>0, CalmSent
    <3>5. /\ relays'[n] = relays[n] \ {t}
          /\ sent'[n] = [sent[n] EXCEPT ![t.pkt.key] = @ + 1]
          /\ \A m \in Nodes : m # n => relays'[m] = relays[m] /\ sent'[m] = sent[m]
      BY <3>1, <3>3 DEF TypeOK
    <3>6. Calm(timers[n], relays[n], handling[n], sent[n], crossed[n])'
      BY <3>2, <3>4, <3>5
    <3>. QED
      BY <3>2, <3>5, <3>6, OneRouter
  <2>10. ASSUME NEW n \in Nodes, RelayFails(n) PROVE StormInv'
    BY <2>1, <2>10 DEF RelayFails, TypeOK
  <2>11. ASSUME NEW n \in Nodes, NEW k \in Keys, MarkOwn(n, k),
                \/ sent' = sent
                \/ sent' = [sent EXCEPT ![n][k] = @ + 1]
         PROVE StormInv'
    <3>1. /\ timers' = timers /\ relays' = relays /\ handling' = handling
          /\ crossed' = [crossed EXCEPT ![n][k] = @ + 1]
      BY <2>11 DEF MarkOwn
    <3>2. /\ crossed'[n] = [crossed[n] EXCEPT ![k] = @ + 1]
          /\ sent'[n] \in {sent[n], [sent[n] EXCEPT ![k] = @ + 1]}
          /\ \A m \in Nodes : m # n =>
               crossed'[m] = crossed[m] /\ sent'[m] = sent[m]
      BY <2>11, <3>1 DEF TypeOK
    <3>3. Calm(timers[n], relays[n], handling[n], sent'[n], crossed'[n])
      <4>1. /\ Calm(timers[n], relays[n], handling[n], sent[n],
                     [crossed[n] EXCEPT ![k] = @ + 1])
            /\ Calm(timers[n], relays[n], handling[n],
                     [sent[n] EXCEPT ![k] = @ + 1],
                     [crossed[n] EXCEPT ![k] = @ + 1])
        BY <2>0, CalmOwn
      <4>2. CASE sent'[n] = sent[n]
        BY <3>2, <4>1, <4>2
      <4>3. CASE sent'[n] = [sent[n] EXCEPT ![k] = @ + 1]
        BY <3>2, <4>1, <4>3
      <4>. QED
        BY <3>2, <4>2, <4>3
    <3>4. Calm(timers[n], relays[n], handling[n], sent[n], crossed[n])'
      BY <3>1, <3>3
    <3>. QED
      BY <3>1, <3>2, <3>4, OneRouter
  <2>12. ASSUME NEW n \in Nodes, NEW k \in Keys, Originate(n, k) PROVE StormInv'
    BY <2>11, <2>12 DEF Originate, Transmit
  <2>13. ASSUME NEW n \in Nodes, NEW k \in Keys, OriginateFails(n, k)
         PROVE StormInv'
    BY <2>11, <2>13 DEF OriginateFails
  <2>14. ASSUME NEW n \in Nodes, Stop(n) PROVE StormInv'
    BY <2>1, <2>14 DEF Stop, TypeOK
  <2>15. ASSUME NEW n \in Nodes, Start(n) PROVE StormInv'
    <3>1. /\ timers'[n] = {} /\ relays'[n] = {} /\ handling' = handling
          /\ sent'[n] = [k \in Keys |-> 0] /\ crossed'[n] = [k \in Keys |-> 0]
          /\ \A m \in Nodes : m # n =>
               /\ timers'[m] = timers[m] /\ relays'[m] = relays[m]
               /\ sent'[m] = sent[m] /\ crossed'[m] = crossed[m]
      BY <2>15 DEF Start, TypeOK
    <3>2. handling[n] = Idle
      BY <2>15 DEF Start, DownIsIdle
    <3>3. \A k \in Keys : Count({}, k) = 0 /\ Busy(Idle, k) = 0
      BY FS_EmptySet DEF Count, Of, Busy
    <3>4. Calm({}, {}, Idle, [k \in Keys |-> 0], [k \in Keys |-> 0])
      BY <3>3, FS_EmptySet DEF Calm
    <3>5. Calm(timers[n], relays[n], handling[n], sent[n], crossed[n])'
      BY <3>1, <3>2, <3>4
    <3>. QED
      BY <3>1, <3>5, OneRouter
  <2>16. CASE UNCHANGED <<timers, relays, handling, sent, crossed>>
    BY <2>16 DEF StormInv, Calm, Count, Of, Busy
  <2>. QED
    BY <2>2, <2>4, <2>5, <2>6, <2>7, <2>8, <2>9, <2>10, <2>12, <2>13, <2>14,
       <2>15, <2>16 DEF Next, Tick, vars
<1>. QED
  BY <1>1, <1>2, TypeCorrect, DownIsIdleInvariant, PTL DEF Spec

\* A router transmits a frame, or is about to, no more often than it took it
\* as new or originated it, in any mesh.
THEOREM StormFree == Spec => []NoStorm
<1>1. TypeOK /\ StormInv => NoStorm
  <2> SUFFICES ASSUME TypeOK, StormInv, NEW n \in Nodes, NEW k \in Keys
               PROVE  sent[n][k] + Count(timers[n], k) + Count(relays[n], k)
                        <= crossed[n][k]
    BY DEF NoStorm, Count, Of
  <2>1. /\ IsFiniteSet(timers[n]) /\ IsFiniteSet(relays[n])
        /\ sent[n][k] + Count(timers[n], k) + Count(relays[n], k)
             + Busy(handling[n], k) <= crossed[n][k]
    BY DEF StormInv, Calm
  <2>2. Count(timers[n], k) \in Nat /\ Count(relays[n], k) \in Nat
    BY <2>1, CountSubset
  <2>3. sent[n][k] \in Nat /\ crossed[n][k] \in Nat
        /\ Busy(handling[n], k) \in {0, 1}
    BY DEF TypeOK, Busy
  <2>. QED
    BY <2>1, <2>2, <2>3
<1>. QED
  BY <1>1, TypeCorrect, StormInvariant, PTL

-----------------------------------------------------------------------------
(* Cancelling.  What a router arms takes the key's place in _pending_relays; *)
(* while the key was new only once there is, by the account of Calm, one     *)
(* thing to arm, so nothing else has that place.                             *)

\* A router that has a timer for a key, or is about to arm one, took the key
\* at least once, and with both of them at least twice.
LEMMA ArmedWasTaken ==
  ASSUME TypeOK, StormInv, NEW n \in Nodes, NEW t \in timers[n]
  PROVE  /\ t \in Timer /\ t.pkt.key \in Keys
         /\ crossed[n][t.pkt.key] \in Nat \ {0}
         /\ handling[n] # Idle /\ handling[n].key = t.pkt.key =>
              crossed[n][t.pkt.key] # 1
<1> DEFINE k == t.pkt.key
<1>1. t \in Timer /\ k \in Keys
  BY DEF TypeOK, Timer, Packet
<1>2. /\ IsFiniteSet(timers[n]) /\ IsFiniteSet(relays[n])
      /\ sent[n][k] + Count(timers[n], k) + Count(relays[n], k)
           + Busy(handling[n], k) <= crossed[n][k]
  BY <1>1 DEF StormInv, Calm
<1>3. /\ Count(relays[n], k) \in Nat
      /\ Count(timers[n] \ {t}, k) \in Nat
      /\ Count(timers[n], k) = Count(timers[n] \ {t}, k) + 1
  BY <1>2, CountSubset, CountRemove
<1>4. sent[n][k] \in Nat /\ crossed[n][k] \in Nat /\ Busy(handling[n], k) \in {0, 1}
  BY <1>1 DEF TypeOK, Busy
<1>5. handling[n] # Idle /\ handling[n].key = k => Busy(handling[n], k) = 1
  BY DEF Busy
<1>. QED
  BY <1>1, <1>2, <1>3, <1>4, <1>5

\* A router whose keys were taken once has its timers where it can cancel them.
Tracked(ts, places, c) ==
  \A t \in ts : c[t.pkt.key] = 1 => places[t.pkt.key] = t

\* Arming a timer for a key that no timer is armed for keeps them so.
LEMMA ArmTracked ==
  ASSUME TypeOK, MeshAssumption, NEW n \in Nodes, NEW p \in Packet,
         \E number \in Nat : ScheduleRelay(n, p, number),
         crossed'[n] \in [Keys -> Nat],
         \A t \in timers[n] :
           t.pkt.key # p.key => crossed'[n][t.pkt.key] = crossed[n][t.pkt.key],
         crossed'[n][p.key] = 1 => \A t \in timers[n] : t.pkt.key # p.key,
         Tracked(timers[n], pending[n], crossed[n])
  PROVE  /\ Tracked(timers'[n], pending'[n], crossed'[n])
         /\ \A m \in Nodes : m # n => timers'[m] = timers[m] /\ pending'[m] = pending[m]
<1> PICK number \in Nat : ScheduleRelay(n, p, number)
  OBVIOUS
<1>1. ASSUME NEW t \in timers[n]
      PROVE  t.pkt.key \in Keys
  BY DEF TypeOK, Timer, Packet
<1>2. CASE p.ttl <= 1
  <2>1. UNCHANGED <<timers, pending>>
    BY <1>2 DEF ScheduleRelay
  <2>. QED
    BY <2>1 DEF Tracked
<1>3. CASE ~(p.ttl <= 1)
  <2> DEFINE new == RelayTimer(p, p.ttl - 1, number)
  <2>1. new.pkt.key = p.key /\ p.key \in Keys
    BY DEF RelayTimer, Packet
  <2>2. Arm(n, new)
    BY <1>3 DEF ScheduleRelay
  <2> HIDE DEF new
  <2>3. /\ timers'[n] = timers[n] \cup {new}
        /\ pending'[n] = [pending[n] EXCEPT ![p.key] = new]
        /\ \A m \in Nodes : m # n => timers'[m] = timers[m] /\ pending'[m] = pending[m]
    BY <2>1, <2>2 DEF Arm, TypeOK
  <2>4. pending[n] \in [Keys -> Timer \cup {NoTimer}]
    BY DEF TypeOK
  <2>5. ASSUME NEW t \in timers'[n], crossed'[n][t.pkt.key] = 1
        PROVE  pending'[n][t.pkt.key] = t
    <3>1. CASE t = new
      BY <2>1, <2>3, <2>4, <3>1
    <3>2. CASE t \in timers[n] /\ t.pkt.key # p.key
      BY <1>1, <2>3, <2>4, <2>5, <3>2 DEF Tracked
    <3>3. CASE t \in timers[n] /\ t.pkt.key = p.key
      BY <2>5, <3>3
    <3>. QED
      BY <2>3, <3>1, <3>2, <3>3
  <2>. QED
    BY <2>3, <2>5 DEF Tracked
<1>. QED
  BY <1>2, <1>3

\* A duplicate, heard as long as its key was new only once, finds the relay it
\* makes superfluous: the armed timer of such a key is always the one that
\* _pending_relays names.
THEOREM RelayCancellable == Spec => []Cancellable
<1> USE MeshAssumption
<1>1. Init => Cancellable
  BY DEF Init, Cancellable
<1>2. TypeOK /\ TypeOK' /\ StormInv /\ Cancellable /\ [Next]_vars => Cancellable'
  <2> SUFFICES ASSUME TypeOK, TypeOK', StormInv, Cancellable, [Next]_vars
               PROVE  Cancellable'
    OBVIOUS
  <2>0. \A n \in Nodes :
          /\ Tracked(timers[n], pending[n], crossed[n])
          /\ crossed[n] \in [Keys -> Nat] /\ crossed'[n] \in [Keys -> Nat]
          /\ timers[n] \in SUBSET Timer
          /\ pending[n] \in [Keys -> Timer \cup {NoTimer}]
    BY DEF Tracked, Cancellable, TypeOK
  <2>1. ASSUME NEW n \in Nodes,
               Tracked(timers'[n], pending'[n], crossed'[n]),
               \A m \in Nodes : m # n =>
                 /\ timers'[m] = timers[m] /\ pending'[m] = pending[m]
                 /\ crossed'[m] = crossed[m]
        PROVE  Cancellable'
    BY <2>0, <2>1 DEF Tracked, Cancellable
  <2>2. ASSUME NEW n \in Nodes, NEW p \in Packet, HandleDuplicate(n, p)
        PROVE Cancellable'
    <3>1. p.key \in Keys
      BY DEF Packet
    <3>2. /\ timers'[n] = timers[n] \ {pending[n][p.key]}
          /\ pending'[n] = [pending[n] EXCEPT ![p.key] = NoTimer]
          /\ crossed' = crossed
          /\ \A m \in Nodes : m # n => timers'[m] = timers[m] /\ pending'[m] = pending[m]
      BY <2>2 DEF HandleDuplicate, TypeOK
    <3>3. Tracked(timers'[n], pending'[n], crossed'[n])
      BY <2>0, <3>1, <3>2 DEF Tracked
    <3>. QED
      BY <2>1, <3>2, <3>3
  <2>3. ASSUME NEW n \in Nodes, NEW k \in Keys,
               crossed' = [crossed EXCEPT ![n][k] = @ + 1]
        PROVE  /\ crossed'[n][k] = crossed[n][k] + 1
               /\ \A j \in Keys : j # k => crossed'[n][j] = crossed[n][j]
               /\ \A m \in Nodes : m # n => crossed'[m] = crossed[m]
               /\ crossed'[n][k] = 1 => \A t \in timers[n] : t.pkt.key # k
    <3>1. /\ crossed'[n][k] = crossed[n][k] + 1
          /\ \A j \in Keys : j # k => crossed'[n][j] = crossed[n][j]
          /\ \A m \in Nodes : m # n => crossed'[m] = crossed[m]
      BY <2>3 DEF TypeOK
    <3>2. \A t \in timers[n] : crossed[n][t.pkt.key] \in Nat \ {0}
      BY ArmedWasTaken
    <3>3. crossed'[n][k] = 1 => crossed[n][k] = 0
      <4>1. crossed[n][k] \in Nat
        BY DEF TypeOK
      <4>2. \A i \in Nat : i + 1 = 1 => i = 0
        OBVIOUS
      <4>. QED
        BY <3>1, <4>1, <4>2
    <3>4. crossed'[n][k] = 1 => \A t \in timers[n] : t.pkt.key # k
      BY <3>2, <3>3
    <3>. QED
      BY <3>1, <3>4
  <2>4. ASSUME NEW n \in Nodes, NEW p \in Packet, HandlePassing(n, p)
        PROVE Cancellable'
    <3>1. p.key \in Keys
      BY DEF Packet
    <3>2. crossed' = [crossed EXCEPT ![n][p.key] = @ + 1]
      BY <2>4 DEF HandlePassing, TakeNew
    <3>3. ScheduleRelay(n, p, crossed'[n][p.key])
      BY <2>4 DEF HandlePassing
    <3>4. \A t \in timers[n] : t.pkt.key # p.key =>
            crossed'[n][t.pkt.key] = crossed[n][t.pkt.key]
      BY <2>3, <3>1, <3>2, ArmedWasTaken
    <3>5. crossed'[n][p.key] \in Nat
      BY <2>0, <3>1
    <3>6. /\ Tracked(timers'[n], pending'[n], crossed'[n])
          /\ \A m \in Nodes : m # n => timers'[m] = timers[m] /\ pending'[m] = pending[m]
      <4>1. /\ crossed'[n] \in [Keys -> Nat]
            /\ crossed'[n][p.key] = 1 => \A t \in timers[n] : t.pkt.key # p.key
        BY <2>0, <2>3, <3>1, <3>2
      <4>2. \E number \in Nat : ScheduleRelay(n, p, number)
        BY <3>3, <3>5
      <4>3. Tracked(timers[n], pending[n], crossed[n])
        BY <2>0
      <4>. QED
        BY <3>4, <4>1, <4>2, <4>3, ArmTracked
    <3>7. \A m \in Nodes : m # n => crossed'[m] = crossed[m]
      BY <2>3, <3>1, <3>2
    <3>. QED
      BY <2>1, <3>6, <3>7
  <2>5. ASSUME NEW n \in Nodes, NEW p \in Packet, HandleForUs(n, p)
        PROVE Cancellable'
    <3>1. p.key \in Keys
      BY DEF Packet
    <3>2. /\ crossed' = [crossed EXCEPT ![n][p.key] = @ + 1]
          /\ timers' = timers /\ pending' = pending
      BY <2>5 DEF HandleForUs, TakeNew
    <3>3. ASSUME NEW t \in timers[n], crossed'[n][t.pkt.key] = 1
          PROVE  pending[n][t.pkt.key] = t
      <4>1. t.pkt.key \in Keys
        BY ArmedWasTaken
      <4>2. t.pkt.key # p.key
        <5>1. crossed'[n][p.key] = 1 => \A o \in timers[n] : o.pkt.key # p.key
          BY <2>3, <3>1, <3>2
        <5>. QED
          BY <3>3, <5>1
      <4>3. crossed[n][t.pkt.key] = 1
        <5>1. \A j \in Keys : j # p.key => crossed'[n][j] = crossed[n][j]
          BY <2>3, <3>1, <3>2
        <5>. QED
          BY <3>3, <4>1, <4>2, <5>1
      <4>. QED
        BY <2>0, <4>3 DEF Tracked
    <3>4. Tracked(timers'[n], pending'[n], crossed'[n])
      BY <3>2, <3>3 DEF Tracked
    <3>5. \A m \in Nodes : m # n => crossed'[m] = crossed[m]
      BY <2>3, <3>1, <3>2
    <3>. QED
      BY <2>1, <3>2, <3>4, <3>5
  <2>6. ASSUME NEW n \in Nodes, DeliverReturns(n) PROVE Cancellable'
    <3> DEFINE p == handling[n]
    <3>1. p \in Packet /\ p # Idle /\ crossed' = crossed
      BY <2>6 DEF DeliverReturns, TypeOK
    <3>2. p.key \in Keys
      BY <3>1 DEF Packet
    <3>3. ScheduleRelay(n, p, crossed[n][p.key])
      BY <2>6 DEF DeliverReturns
    <3>4. crossed[n][p.key] = 1 => \A t \in timers[n] : t.pkt.key # p.key
      BY <3>1, ArmedWasTaken
    <3>5. crossed[n][p.key] \in Nat /\ crossed'[n] \in [Keys -> Nat]
      BY <2>0, <3>2
    <3>6. /\ Tracked(timers'[n], pending'[n], crossed'[n])
          /\ \A m \in Nodes : m # n => timers'[m] = timers[m] /\ pending'[m] = pending[m]
      <4> HIDE DEF p
      <4>1. /\ \E number \in Nat : ScheduleRelay(n, p, number)
            /\ Tracked(timers[n], pending[n], crossed[n])
        BY <2>0, <3>3, <3>5
      <4>. QED
        BY <3>1, <3>4, <3>5, <4>1, ArmTracked
    <3>. QED
      BY <2>1, <3>1, <3>6
  <2>7. ASSUME NEW n \in Nodes, FireRelay(n) PROVE Cancellable'
    <3>1. PICK t \in timers[n] :
            /\ timers' = [timers EXCEPT ![n] = @ \ {t}]
            /\ pending' = [pending EXCEPT ![n][t.pkt.key] = NoTimer]
      BY <2>7 DEF FireRelay
    <3>2. /\ timers'[n] = timers[n] \ {t}
          /\ pending'[n] = [pending[n] EXCEPT ![t.pkt.key] = NoTimer]
          /\ \A m \in Nodes : m # n => timers'[m] = timers[m] /\ pending'[m] = pending[m]
          /\ crossed' = crossed
      <4>1. crossed' = crossed
        BY <2>7 DEF FireRelay
      <4>2. DOMAIN timers = Nodes /\ DOMAIN pending = Nodes
        BY DEF TypeOK
      <4>3. timers'[n] = timers[n] \ {t} /\ \A m \in Nodes : m # n => timers'[m] = timers[m]
        BY <3>1, <4>2
      <4>4. /\ pending'[n] = [pending[n] EXCEPT ![t.pkt.key] = NoTimer]
            /\ \A m \in Nodes : m # n => pending'[m] = pending[m]
        BY <3>1, <4>2
      <4>. QED
        BY <4>1, <4>3, <4>4
    <3>3. Tracked(timers'[n], pending'[n], crossed'[n])
      BY <2>0, <3>2 DEF Tracked
    <3>. QED
      BY <2>1, <3>2, <3>3
  <2>8. ASSUME NEW n \in Nodes, NEW k \in Keys, MarkOwn(n, k) PROVE Cancellable'
    <3>1. /\ crossed' = [crossed EXCEPT ![n][k] = @ + 1]
          /\ timers' = timers /\ pending' = pending
      BY <2>8 DEF MarkOwn
    <3>2. /\ \A j \in Keys : j # k => crossed'[n][j] = crossed[n][j]
          /\ \A m \in Nodes : m # n => crossed'[m] = crossed[m]
          /\ crossed'[n][k] = 1 => \A t \in timers[n] : t.pkt.key # k
      <4>1. crossed' = [crossed EXCEPT ![n][k] = @ + 1]
        BY <3>1
      <4>2. \A j \in Keys : j # k => crossed'[n][j] = crossed[n][j]
        BY <2>3, <4>1
      <4>3. \A m \in Nodes : m # n => crossed'[m] = crossed[m]
        BY <2>3, <4>1
      <4>4. crossed'[n][k] = 1 => \A t \in timers[n] : t.pkt.key # k
        BY <2>3, <4>1
      <4>. QED
        BY <4>2, <4>3, <4>4
    <3>3. ASSUME NEW t \in timers[n], crossed'[n][t.pkt.key] = 1
          PROVE  pending[n][t.pkt.key] = t
      <4>1. t.pkt.key \in Keys
        BY ArmedWasTaken
      <4>2. t.pkt.key # k
        BY <3>2, <3>3
      <4>3. crossed[n][t.pkt.key] = 1
        BY <3>2, <3>3, <4>1, <4>2
      <4>. QED
        BY <2>0, <4>3 DEF Tracked
    <3>4. Tracked(timers'[n], pending'[n], crossed'[n])
      BY <3>1, <3>3 DEF Tracked
    <3>. QED
      BY <2>1, <3>1, <3>2, <3>4
  <2>9. ASSUME NEW n \in Nodes, Stop(n) PROVE Cancellable'
    <3>1. /\ timers'[n] = timers[n] \ {pending[n][k] : k \in Keys}
          /\ crossed' = crossed
          /\ \A m \in Nodes : m # n => timers'[m] = timers[m] /\ pending'[m] = pending[m]
      BY <2>9 DEF Stop, TypeOK
    <3>2. \A t \in timers'[n] : crossed[n][t.pkt.key] # 1
      BY <2>0, <3>1, ArmedWasTaken DEF Tracked
    <3>. QED
      BY <2>1, <3>1, <3>2 DEF Tracked
  <2>10. ASSUME NEW n \in Nodes, Start(n) PROVE Cancellable'
    <3>1. /\ timers'[n] = {}
          /\ \A m \in Nodes : m # n =>
                 /\ timers'[m] = timers[m] /\ pending'[m] = pending[m]
                 /\ crossed'[m] = crossed[m]
      BY <2>10 DEF Start, TypeOK
    <3>. QED
      BY <2>1, <3>1 DEF Tracked
  <2>11. CASE UNCHANGED <<timers, pending, crossed>>
    BY <2>11 DEF Cancellable
  <2>12. ASSUME NEW n \in Nodes, DeliverRaises(n) \/ RelaySent(n) \/ RelayFails(n)
         PROVE  Cancellable'
    BY <2>11, <2>12 DEF DeliverRaises, RelaySent, RelayFails
  <2>. QED
    BY <2>2, <2>4, <2>5, <2>6, <2>7, <2>8, <2>9, <2>10, <2>11, <2>12
       DEF Next, Tick, vars, Originate, OriginateFails
<1>. QED
  BY <1>1, <1>2, TypeCorrect, StormInvariant, PTL DEF Spec

-----------------------------------------------------------------------------
(* How a message is cut *)

\* A set of numbers has a smallest one.
LEMMA SmallestNumber ==
  ASSUME NEW K, K \subseteq Nat, K # {}
  PROVE  \E x \in K : \A y \in K : x <= y
<1> DEFINE R == OpToRel(<, Nat)
<1>1. IsWellFoundedOn(R, Nat)
  BY NatLessThanWellFounded
<1>2. \A x, y \in Nat : x < y => <<x, y>> \in R
  BY DEF OpToRel
<1> HIDE DEF R
<1>3. PICK x \in K : \A y \in K : ~(<<y, x>> \in R)
  BY <1>1, WFMin
<1>4. ASSUME NEW y \in K PROVE x <= y
  <2>1. x \in Nat /\ y \in Nat
    OBVIOUS
  <2>2. ~(y < x)
    BY <1>2, <1>3, <2>1
  <2>. QED
    BY <2>1, <2>2
<1>. QED
  BY <1>4

\* The indices of the fragments are the numbers below some number.
LEMMA IndicesBelow ==
  ASSUME NEW len \in Nat, NEW c \in Nat \ {0}
  PROVE  \E k \in Nat \ {0} :
           /\ Path!Indices(len, c) = 0 .. k - 1
           /\ len <= k * c
<1> DEFINE K == {n \in Nat : len <= n * c}
<1>1. CASE len = 0
  <2>1. Path!Indices(len, c) = 0 .. 1 - 1
    BY <1>1 DEF Path!Indices
  <2>2. len <= 1 * c
    BY <1>1
  <2>. QED
    BY <2>1, <2>2
<1>2. CASE len # 0
  <2>1. len \in K
    <3>1. len <= len * c
      OBVIOUS
    <3>. QED
      BY <3>1
  <2>2. PICK k \in K : \A y \in K : k <= y
    <3>1. K \subseteq Nat /\ K # {}
      BY <2>1
    <3> HIDE DEF K
    <3>. QED
      BY <3>1, SmallestNumber
  <2>3. k \in Nat /\ len <= k * c /\ k <= len
    BY <2>1, <2>2
  <2>4. k # 0
    BY <1>2, <2>3
  <2>5. ASSUME NEW i \in 0 .. len - 1 PROVE i * c < len <=> i < k
    <3>1. i < k => ~(i \in K)
      BY <2>2, <2>3
    <3>2. i \in Nat /\ i * c \in Nat
      OBVIOUS
    <3>3. i < k => i * c < len
      BY <3>1, <3>2
    <3>4. ~(i < k) => k * c <= i * c
      BY <2>3, <3>2
    <3>5. k * c \in Nat
      BY <2>3
    <3>. QED
      BY <2>3, <3>2, <3>3, <3>4, <3>5
  <2>6. Path!Indices(len, c) = 0 .. k - 1
    <3>1. Path!Indices(len, c) = {i \in 0 .. len - 1 : i * c < len}
      BY <1>2 DEF Path!Indices
    <3>2. \A i \in 0 .. k - 1 : i \in 0 .. len - 1 /\ i < k
      BY <2>3
    <3>3. \A i \in 0 .. len - 1 : i < k => i \in 0 .. k - 1
      BY <2>3
    <3>. QED
      BY <2>5, <3>1, <3>2, <3>3
  <2>. QED
    BY <2>3, <2>4, <2>6
<1>. QED
  BY <1>1, <1>2

\* What a fragment holds: no more than the capacity, within the message.
LEMMA ChunkIs ==
  ASSUME NEW len \in Nat, NEW c \in Nat \ {0}, NEW i \in Path!Indices(len, c), NEW t
  PROVE  LET pk == Path!Chunk(len, c, t, i)
         IN  /\ i \in Nat /\ pk.index = i /\ pk.ttl = t /\ pk.count = Path!Count(len, c)
             /\ pk.from = i * c /\ pk.from \in Nat /\ pk.to \in Nat
             /\ pk.from <= pk.to /\ pk.to <= pk.from + c /\ pk.to <= len
             /\ pk.to = pk.from + c \/ pk.to = len
<1> DEFINE f == i * c
           e == Path!ChunkEnd(len, c, i)
<1>1. i \in Nat
  BY DEF Path!Indices
<1>2. f \in Nat /\ (i + 1) * c = f + c
  BY <1>1
<1>3. f <= len
  <2>1. CASE len = 0
    BY <1>1, <2>1 DEF Path!Indices
  <2>2. CASE len # 0
    BY <1>2, <2>2 DEF Path!Indices
  <2>. QED
    BY <2>1, <2>2
<1>4. e = IF f + c < len THEN f + c ELSE len
  BY <1>2 DEF Path!ChunkEnd
<1> HIDE DEF f, e
<1>5. /\ e \in Nat /\ f <= e /\ e <= f + c /\ e <= len
      /\ e = f + c \/ e = len
  BY <1>2, <1>3, <1>4
<1>6. Path!Chunk(len, c, t, i) =
        [index |-> i, count |-> Path!Count(len, c), from |-> f, to |-> e, ttl |-> t]
  BY DEF Path!Chunk, f, e
<1>. QED
  BY <1>1, <1>2, <1>5, <1>6 DEF f

\* Fragments do not overlap, and the first of them that ends behind a byte
\* holds it.
LEMMA ChunksTile ==
  ASSUME NEW len \in Nat, NEW c \in Nat \ {0}
  PROVE  /\ \A t, u : \A i, j \in Path!Indices(len, c) :
              i < j => Path!Chunk(len, c, t, i).to <= Path!Chunk(len, c, u, j).from
         /\ \A b \in 0 .. len - 1 : \E i \in Path!Indices(len, c) :
              i * c <= b /\ b < Path!ChunkEnd(len, c, i)
<1>1. ASSUME NEW i \in Path!Indices(len, c), NEW j \in Path!Indices(len, c), NEW t, NEW u, i < j
      PROVE  Path!Chunk(len, c, t, i).to <= Path!Chunk(len, c, u, j).from
  <2> DEFINE p == Path!Chunk(len, c, t, i)
             q == Path!Chunk(len, c, u, j)
  <2>1. i \in Nat /\ p.from = i * c /\ p.to <= p.from + c /\ p.to \in Nat
    BY ChunkIs
  <2>2. j \in Nat /\ q.from = j * c
    BY ChunkIs
  <2> HIDE DEF p, q
  <2>3. (i + 1) * c <= j * c
    BY <1>1, <2>1, <2>2
  <2>4. (i + 1) * c = i * c + c /\ i * c \in Nat /\ j * c \in Nat
    BY <2>1, <2>2
  <2>5. p.to <= q.from
    BY <2>1, <2>2, <2>3, <2>4
  <2>. QED
    BY <2>5 DEF p, q
<1>2. ASSUME NEW b \in 0 .. len - 1
      PROVE  \E i \in Path!Indices(len, c) : i * c <= b /\ b < Path!ChunkEnd(len, c, i)
  <2> DEFINE K == {n \in Nat : b < n * c}
  <2>0. b \in Nat /\ b < len
    OBVIOUS
  <2>1. b + 1 \in K
    <3>1. b < (b + 1) * c
      BY <2>0
    <3>. QED
      BY <2>0, <3>1
  <2>2. PICK n \in K : \A y \in K : n <= y
    <3>1. K \subseteq Nat /\ K # {}
      BY <2>1
    <3> HIDE DEF K
    <3>. QED
      BY <3>1, SmallestNumber
  <2>3. n \in Nat /\ b < n * c /\ n <= b + 1
    BY <2>1, <2>2
  <2>4. n # 0
    BY <2>0, <2>3
  <2>5. n - 1 \in Nat /\ n - 1 \notin K
    BY <2>2, <2>3, <2>4
  <2>6. (n - 1) * c <= b /\ (n - 1) * c \in Nat
    BY <2>0, <2>5
  <2>7. n - 1 \in Path!Indices(len, c)
    BY <2>0, <2>3, <2>5, <2>6 DEF Path!Indices
  <2>8. b < Path!ChunkEnd(len, c, n - 1)
    <3>1. (n - 1 + 1) * c = n * c /\ n * c \in Nat
      BY <2>3
    <3>. QED
      BY <2>0, <2>3, <3>1 DEF Path!ChunkEnd
  <2>. QED
    BY <2>6, <2>7, <2>8
<1>. QED
  BY <1>1, <1>2

-----------------------------------------------------------------------------
(* One message along a path *)

\* The capacity at the origin, and fragment i as node n transmits it.
Room == Path!Capacity(mtu[1])
ChunkAt(n, i) == Path!Chunk(length, Room, hops + 1 - n, i)
ChunksAt(n) == {ChunkAt(n, i) : i \in Path!Indices(length, Room)}

PathTypes ==
  /\ mtu \in [Path!Nodes -> Nat] /\ length \in Nat /\ hops \in Nat
  /\ toSend = [n \in Path!Nodes |-> toSend[n]] /\ flying = [n \in Path!Nodes |-> flying[n]]
  /\ taken = [n \in Path!Nodes |-> taken[n]] /\ held = [n \in Path!Nodes |-> held[n]]

\* A node that was constructed has room for a payload, and only then is a
\* message cut.
BuiltInv ==
  /\ \A n \in built : Path!Capacity(mtu[n]) > 0
  /\ emitted = "yes" => Room > 0
  /\ emitted # "yes" => \A n \in Path!Nodes :
       toSend[n] = {} /\ flying[n] = {} /\ taken[n] = {} /\ held[n] = {}

\* What a node is about to transmit, transmitted or could not transmit is a
\* fragment as it was cut, with the TTL of its hop.
CutInv ==
  \A n \in Path!Nodes :
    /\ toSend[n] \subseteq ChunksAt(n) /\ held[n] \subseteq ChunksAt(n)
    /\ flying[n] \subseteq [packet : ChunksAt(n), size : Nat]
    /\ \A raw \in flying[n] : Path!Encoded(raw.packet) <= raw.size
    /\ n > 1 /\ toSend[n] \cup flying[n] # {} => hops + 1 - n > 0

TakenInv ==
  \A n \in Path!Nodes :
    /\ taken[n] \subseteq ChunksAt(n - 1)
    /\ n > 2 /\ taken[n] # {} => hops + 2 - n > 0

LinkInv == Path!FitsTheLink

\* On a path that loses nothing, and on which no MTU is smaller than that of the
\* origin, each fragment is somewhere ahead of the last node it reached.
Clear == ~Cuts /\ \A k \in Path!Nodes : mtu[k] >= mtu[1]
Flying(n) == {raw.packet : raw \in flying[n]}
AheadInv ==
  Clear /\ emitted = "yes" =>
    \A n \in Path!Nodes, i \in Path!Indices(length, Room) :
      /\ n + 1 \in Path!Nodes
      /\ n = 1 \/ (ChunkAt(n - 1, i) \in taken[n] /\ hops + 1 - n > 0)
      => ChunkAt(n, i) \in toSend[n] \cup Flying(n) \cup taken[n + 1]

PathInv ==
  Path!FramesAssumption /\ PathTypes /\ BuiltInv /\ CutInv /\ TakenInv /\ LinkInv /\ AheadInv

\* A number that a fragment is encoded to.
LEMMA ChunkFits ==
  ASSUME Path!FramesAssumption, PathTypes, Room > 0, NEW n \in Path!Nodes, NEW pk \in ChunksAt(n)
  PROVE  /\ \E i \in Path!Indices(length, Room) : pk = ChunkAt(n, i)
         /\ pk.from \in Nat /\ pk.to \in Nat /\ pk.from <= pk.to /\ pk.ttl = hops + 1 - n
         /\ Path!Encoded(pk) \in Nat /\ Path!Encoded(pk) <= mtu[1]
<1>1. PICK i \in Path!Indices(length, Room) : pk = ChunkAt(n, i)
  BY DEF ChunksAt
<1>2. /\ mtu[1] \in Nat /\ length \in Nat /\ HeaderLen \in Nat
  BY DEF PathTypes, Path!FramesAssumption, Path!Nodes
<1>3. Room = mtu[1] - HeaderLen
  BY DEF Room, Path!Capacity
<1>4. Room \in Nat \ {0}
  BY <1>2, <1>3
<1>5. /\ pk.from \in Nat /\ pk.to \in Nat /\ pk.from <= pk.to
      /\ pk.to <= pk.from + Room /\ pk.ttl = hops + 1 - n
  BY <1>1, <1>2, <1>4, ChunkIs DEF ChunkAt
<1>6. Path!Encoded(pk) = HeaderLen + pk.to - pk.from
  BY DEF Path!Encoded
<1>. QED
  BY <1>1, <1>2, <1>3, <1>5, <1>6

\* Padding takes a frame to no size its link refuses, and takes nothing away.
LEMMA PaddedFits ==
  ASSUME Path!FramesAssumption, NEW len \in Nat, NEW m \in Nat, NEW pol, len <= m
  PROVE  /\ Path!PaddedSize(len, m, pol) \in Nat
         /\ len <= Path!PaddedSize(len, m, pol) /\ Path!PaddedSize(len, m, pol) <= m
<1> DEFINE F == {b \in Buckets : b >= len}
           b0 == Path!Min(F)
<1>1. F # {} => b0 \in Nat /\ len <= b0
  <2> SUFFICES ASSUME F # {} PROVE b0 \in Nat /\ len <= b0
    OBVIOUS
  <2>1. F \subseteq Nat /\ \A b \in F : len <= b
    BY DEF Path!FramesAssumption
  <2>2. \E x \in F : \A y \in F : x <= y
    <3> HIDE DEF F
    <3>. QED
      BY <2>1, SmallestNumber
  <2>3. b0 \in F
    <3> HIDE DEF F
    <3>. QED
      BY <2>2 DEF Path!Min
  <2>. QED
    BY <2>1, <2>3
<1>2. Path!PaddedSize(len, m, pol) =
        CASE pol = "none" -> len
          [] pol = "strict" -> m
          [] OTHER -> IF F = {} \/ b0 > m THEN m ELSE b0
  BY DEF Path!PaddedSize
<1> HIDE DEF F, b0
<1>3. CASE pol = "none"
  BY <1>2, <1>3
<1>4. CASE pol = "strict"
  BY <1>2, <1>4
<1>5. CASE pol # "none" /\ pol # "strict"
  <2>1. Path!PaddedSize(len, m, pol) = IF F = {} \/ b0 > m THEN m ELSE b0
    BY <1>2, <1>5
  <2>. QED
    BY <1>1, <2>1
<1>. QED
  BY <1>3, <1>4, <1>5

\* A node refuses a fragment only if its link is narrower than the origin's.
LEMMA RaisesOnly ==
  ASSUME Path!FramesAssumption, PathTypes, Room > 0, NEW n \in Path!Nodes, NEW pk \in ChunksAt(n)
  PROVE  /\ Path!Raises(n, pk) => mtu[n] < mtu[1]
         /\ ~Path!Raises(n, pk) =>
              /\ Path!PaddedSize(Path!Encoded(pk), mtu[n], policy[n]) \in Nat
              /\ Path!Encoded(pk) <= Path!PaddedSize(Path!Encoded(pk), mtu[n], policy[n])
<1>1. Path!Encoded(pk) \in Nat /\ Path!Encoded(pk) <= mtu[1]
  BY ChunkFits
<1>2. mtu[n] \in Nat /\ mtu[1] \in Nat
  BY DEF PathTypes, Path!Nodes, Path!FramesAssumption
<1>3. CASE Path!Encoded(pk) <= mtu[n]
  <2>1. /\ Path!PaddedSize(Path!Encoded(pk), mtu[n], policy[n]) \in Nat
        /\ Path!Encoded(pk) <= Path!PaddedSize(Path!Encoded(pk), mtu[n], policy[n])
        /\ Path!PaddedSize(Path!Encoded(pk), mtu[n], policy[n]) <= mtu[n]
    BY <1>1, <1>2, <1>3, PaddedFits
  <2>2. ~Path!Raises(n, pk)
    <3> DEFINE e == Path!Encoded(pk)
               z == Path!PaddedSize(e, mtu[n], policy[n])
    <3>1. Path!Raises(n, pk) <=> e > mtu[n] \/ z > mtu[n]
      BY DEF Path!Raises
    <3>2. e \in Nat /\ e <= mtu[n] /\ z \in Nat /\ z <= mtu[n]
      BY <1>1, <1>3, <2>1
    <3> HIDE DEF e, z
    <3>. QED
      BY <1>2, <3>1, <3>2
  <2>. QED
    BY <2>1, <2>2
<1>4. CASE ~(Path!Encoded(pk) <= mtu[n])
  <2>1. Path!Raises(n, pk)
    BY <1>1, <1>2, <1>4 DEF Path!Raises
  <2>. QED
    BY <1>1, <1>2, <1>4, <2>1
<1>. QED
  BY <1>3, <1>4

\* What a node decodes is the packet that was encoded; a frame of which nothing
\* is missing is decoded.
LEMMA DecodedIs ==
  ASSUME Path!FramesAssumption, PathTypes, Room > 0, NEW n \in Path!Nodes,
         NEW raw \in [packet : ChunksAt(n), size : Nat],
         NEW got \in Path!Arriving(raw)
  PROVE  /\ Path!Decodes(got) => Path!Decoded(got) = raw.packet
         /\ ~Cuts /\ Path!Encoded(raw.packet) <= raw.size => Path!Decodes(got)
<1> DEFINE pk == raw.packet
<1>1. /\ pk.from \in Nat /\ pk.to \in Nat /\ pk.from <= pk.to
      /\ Path!Encoded(pk) = HeaderLen + pk.to - pk.from
      /\ \E i : pk = ChunkAt(n, i)
  BY ChunkFits DEF Path!Encoded
<1>2. pk = [index |-> pk.index, count |-> pk.count, from |-> pk.from, to |-> pk.to, ttl |-> pk.ttl]
  BY <1>1 DEF ChunkAt, Path!Chunk
<1>3. PICK s \in Nat : got = [raw EXCEPT !.size = s] /\ (~Cuts => s = raw.size)
  BY DEF Path!Arriving
<1>4. got.packet = pk /\ got.size = s
  BY <1>3
<1>5. HeaderLen \in Nat
  BY DEF Path!FramesAssumption
<1>6. ASSUME Path!Decodes(got) PROVE Path!Decoded(got) = pk
  <2> DEFINE there == pk.from + s - HeaderLen
  <2>1. HeaderLen + pk.to - pk.from <= s
    BY <1>1, <1>4, <1>6 DEF Path!Decodes
  <2>2. ~(there < pk.to)
    BY <1>1, <1>3, <1>5, <2>1
  <2>3. Path!Decoded(got) = [pk EXCEPT !.to = pk.to]
    BY <1>4, <2>2 DEF Path!Decoded
  <2> HIDE DEF pk
  <2>. QED
    BY <1>2, <2>3
<1>7. ASSUME ~Cuts, Path!Encoded(pk) <= raw.size PROVE Path!Decodes(got)
  <2>1. s = raw.size
    BY <1>3, <1>7
  <2>2. HeaderLen <= s
    BY <1>1, <1>3, <1>5, <1>7, <2>1
  <2>. QED
    BY <1>4, <1>7, <2>1, <2>2 DEF Path!Decodes
<1>. QED
  BY <1>6, <1>7

\* Nothing changes the configurations and the message.
LEMMA SameChunks ==
  ASSUME UNCHANGED <<mtu, length, hops>>
  PROVE  /\ Room' = Room
         /\ \A n : ChunksAt(n)' = ChunksAt(n)
         /\ \A n, i : ChunkAt(n, i)' = ChunkAt(n, i)
  BY DEF Room, ChunksAt, ChunkAt

\* Init establishes it.
LEMMA PathInit ==
  ASSUME Path!FramesAssumption, Path!Init
  PROVE  PathInv
<1>1. PathTypes
  BY DEF Path!Init, PathTypes, Path!FramesAssumption
<1>2. BuiltInv /\ LinkInv /\ AheadInv
  BY DEF Path!Init, BuiltInv, LinkInv, Path!FitsTheLink, AheadInv
<1>3. CutInv /\ TakenInv
  BY DEF Path!Init, CutInv, TakenInv
<1>. QED
  BY <1>1, <1>2, <1>3 DEF PathInv

\* A node is constructed, or its constructor raises.
LEMMA ConstructStep ==
  ASSUME PathInv, NEW n \in Path!Nodes, Path!Construct(n)
  PROVE  PathInv'
<1>1. UNCHANGED <<mtu, policy, length, hops, emitted, toSend, flying, taken, held>>
  BY DEF Path!Construct, Path!config
<1>2. built' = built \/ (built' = built \cup {n} /\ Path!Capacity(mtu[n]) > 0)
  BY DEF Path!Construct
<1>3. BuiltInv'
  BY <1>1, <1>2, SameChunks DEF PathInv, BuiltInv
<1>4. CutInv' /\ TakenInv'
  BY <1>1, SameChunks DEF PathInv, CutInv, TakenInv
<1>5. PathTypes' /\ LinkInv' /\ Path!FramesAssumption'
  BY <1>1 DEF PathInv, PathTypes, LinkInv, Path!FitsTheLink
<1>6. AheadInv'
  BY <1>1, SameChunks DEF PathInv, AheadInv, Clear, Flying
<1>. QED
  BY <1>3, <1>4, <1>5, <1>6 DEF PathInv

\* The origin cuts the message, or raises.
LEMMA EmitStep ==
  ASSUME PathInv, Path!Emit
  PROVE  PathInv'
<1>1. /\ UNCHANGED <<mtu, policy, length, hops, built, flying, taken, held>>
      /\ emitted = "no" /\ 1 \in built
  BY DEF Path!Emit, Path!config
<1>2. /\ 1 \in Path!Nodes /\ Room > 0 /\ hops \in Nat /\ PathTypes
      /\ \A n \in Path!Nodes :
           toSend[n] = {} /\ flying[n] = {} /\ taken[n] = {} /\ held[n] = {}
  BY <1>1 DEF PathInv, BuiltInv, Room, Path!Nodes, Path!FramesAssumption, PathTypes
<1>3. CASE emitted' = "raised" /\ UNCHANGED toSend
  <2>1. BuiltInv'
    BY <1>1, <1>2, <1>3, SameChunks DEF PathInv, BuiltInv
  <2>2. CutInv' /\ TakenInv'
    BY <1>1, <1>3, SameChunks DEF PathInv, CutInv, TakenInv
  <2>3. PathTypes' /\ LinkInv' /\ Path!FramesAssumption'
    BY <1>1, <1>3 DEF PathInv, PathTypes, LinkInv, Path!FitsTheLink
  <2>4. AheadInv'
    BY <1>3 DEF AheadInv
  <2>. QED
    BY <2>1, <2>2, <2>3, <2>4 DEF PathInv
<1>4. CASE /\ emitted' = "yes"
           /\ toSend' = [toSend EXCEPT ![1] = Path!Fragment(length, Path!Capacity(mtu[1]), hops)]
  <2>1. Path!Fragment(length, Path!Capacity(mtu[1]), hops) = ChunksAt(1)
    <3>1. hops + 1 - 1 = hops
      BY <1>2
    <3>. QED
      BY <3>1 DEF Path!Fragment, ChunksAt, ChunkAt, Room
  <2>2. /\ toSend'[1] = ChunksAt(1) /\ toSend' = [n \in Path!Nodes |-> toSend'[n]]
        /\ \A n \in Path!Nodes : n # 1 => toSend'[n] = {}
    BY <1>2, <1>4, <2>1 DEF PathTypes
  <2>3. BuiltInv'
    BY <1>1, <1>2, <1>4, SameChunks DEF PathInv, BuiltInv
  <2>4. CutInv' /\ TakenInv'
    BY <1>1, <1>2, <2>2, SameChunks DEF PathInv, CutInv, TakenInv
  <2>5. PathTypes' /\ LinkInv' /\ Path!FramesAssumption'
    BY <1>1, <2>2 DEF PathInv, PathTypes, LinkInv, Path!FitsTheLink
  <2>6. AheadInv'
    <3> SUFFICES ASSUME NEW n \in Path!Nodes, NEW i \in Path!Indices(length, Room),
                        n = 1 \/ ChunkAt(n - 1, i) \in taken[n]
                 PROVE  ChunkAt(n, i) \in toSend'[n]
      BY <1>1, SameChunks DEF AheadInv
    <3>1. n = 1
      BY <1>2
    <3>. QED
      BY <2>2, <3>1 DEF ChunksAt
  <2>. QED
    BY <2>3, <2>4, <2>5, <2>6 DEF PathInv
<1>. QED
  BY <1>3, <1>4 DEF Path!Emit

\* Whoever transmits or takes something, the message was cut.
LEMMA IsCut ==
  ASSUME PathInv, NEW n \in Path!Nodes, toSend[n] # {} \/ flying[n] # {}
  PROVE  emitted = "yes" /\ Room > 0
  BY DEF PathInv, BuiltInv

\* A frame is transmitted.
LEMMA TransmitStep ==
  ASSUME PathInv, NEW n \in Path!Nodes, Path!Transmit(n)
  PROVE  PathInv'
<1> DEFINE Frame(pk) == [packet |-> pk,
                         size |-> Path!PaddedSize(Path!Encoded(pk), mtu[n], policy[n])]
<1>1. UNCHANGED <<mtu, policy, length, hops, built, emitted, taken, held>>
  BY DEF Path!Transmit, Path!config
<1>2. PICK pk \in toSend[n] :
        /\ ~Path!Raises(n, pk)
        /\ toSend' = [toSend EXCEPT ![n] = @ \ {pk}]
        /\ flying' = [flying EXCEPT ![n] = @ \cup {Frame(pk)}]
  BY DEF Path!Transmit
<1>3. emitted = "yes" /\ Room > 0
  BY <1>2, IsCut
<1>4. pk \in ChunksAt(n) /\ PathTypes /\ Path!FramesAssumption
  BY <1>2 DEF PathInv, CutInv
<1>5. /\ Frame(pk) \in [packet : ChunksAt(n), size : Nat]
      /\ Frame(pk).packet = pk /\ Path!Encoded(pk) <= Frame(pk).size
  BY <1>2, <1>3, <1>4, RaisesOnly
<1> HIDE DEF Frame
<1>6. /\ toSend'[n] = toSend[n] \ {pk} /\ flying'[n] = flying[n] \cup {Frame(pk)}
      /\ toSend' = [k \in Path!Nodes |-> toSend'[k]]
      /\ flying' = [k \in Path!Nodes |-> flying'[k]]
      /\ \A k \in Path!Nodes : k # n => toSend'[k] = toSend[k] /\ flying'[k] = flying[k]
  BY <1>2, <1>4 DEF PathTypes
<1>7. BuiltInv'
  BY <1>1, <1>3, SameChunks DEF PathInv, BuiltInv
<1>8. CutInv'
  <2> SUFFICES ASSUME NEW k \in Path!Nodes
               PROVE  /\ toSend'[k] \subseteq ChunksAt(k) /\ held[k] \subseteq ChunksAt(k)
                      /\ flying'[k] \subseteq [packet : ChunksAt(k), size : Nat]
                      /\ \A raw \in flying'[k] : Path!Encoded(raw.packet) <= raw.size
                      /\ k > 1 /\ toSend'[k] \cup flying'[k] # {} => hops + 1 - k > 0
    BY <1>1, SameChunks DEF CutInv
  <2>1. /\ toSend[k] \subseteq ChunksAt(k) /\ held[k] \subseteq ChunksAt(k)
        /\ flying[k] \subseteq [packet : ChunksAt(k), size : Nat]
        /\ \A raw \in flying[k] : Path!Encoded(raw.packet) <= raw.size
        /\ k > 1 /\ toSend[k] \cup flying[k] # {} => hops + 1 - k > 0
    BY DEF PathInv, CutInv
  <2>2. CASE k # n
    BY <1>6, <2>1, <2>2
  <2>3. CASE k = n
    <3>1. toSend'[k] \subseteq ChunksAt(k)
      BY <1>6, <2>1, <2>3
    <3>2. flying'[k] \subseteq [packet : ChunksAt(k), size : Nat]
      BY <1>5, <1>6, <2>1, <2>3
    <3>3. \A raw \in flying'[k] : Path!Encoded(raw.packet) <= raw.size
      BY <1>5, <1>6, <2>1, <2>3
    <3>4. k > 1 => hops + 1 - k > 0
      BY <1>2, <2>1, <2>3
    <3>. QED
      BY <2>1, <3>1, <3>2, <3>3, <3>4
  <2>. QED
    BY <2>2, <2>3
<1>9. TakenInv'
  BY <1>1, SameChunks DEF PathInv, TakenInv
<1>10. PathTypes' /\ LinkInv' /\ Path!FramesAssumption'
  BY <1>1, <1>6 DEF PathInv, PathTypes, LinkInv, Path!FitsTheLink
<1>11. AheadInv'
  <2>1. \A k \in Path!Nodes : toSend[k] \cup Flying(k) \subseteq toSend'[k] \cup Flying(k)'
    <3> SUFFICES ASSUME NEW k \in Path!Nodes
                 PROVE  toSend[k] \cup Flying(k) \subseteq toSend'[k] \cup Flying(k)'
      OBVIOUS
    <3>1. CASE k # n
      BY <1>6, <3>1 DEF Flying
    <3>2. CASE k = n
      BY <1>5, <1>6, <3>2 DEF Flying
    <3>. QED
      BY <3>1, <3>2
  <2>. QED
    BY <1>1, <2>1, SameChunks DEF PathInv, AheadInv, Clear
<1>. QED
  BY <1>7, <1>8, <1>9, <1>10, <1>11 DEF PathInv

\* A link refuses a frame.
LEMMA RefuseStep ==
  ASSUME PathInv, NEW n \in Path!Nodes, Path!TransmitRaises(n)
  PROVE  PathInv'
<1>1. UNCHANGED <<mtu, policy, length, hops, built, emitted, taken, flying>>
  BY DEF Path!TransmitRaises, Path!config
<1>2. PICK pk \in toSend[n] :
        /\ Path!Raises(n, pk)
        /\ toSend' = [toSend EXCEPT ![n] = IF n = 1 THEN {} ELSE @ \ {pk}]
        /\ held' = [held EXCEPT ![n] = @ \cup {pk}]
  BY DEF Path!TransmitRaises
<1>3. emitted = "yes" /\ Room > 0
  BY <1>2, IsCut
<1>4. pk \in ChunksAt(n) /\ PathTypes /\ Path!FramesAssumption
  BY <1>2 DEF PathInv, CutInv
<1>5. mtu[n] < mtu[1]
  BY <1>2, <1>3, <1>4, RaisesOnly
<1>6. /\ toSend'[n] \subseteq toSend[n] /\ held'[n] = held[n] \cup {pk}
      /\ toSend' = [k \in Path!Nodes |-> toSend'[k]]
      /\ held' = [k \in Path!Nodes |-> held'[k]]
      /\ \A k \in Path!Nodes : k # n => toSend'[k] = toSend[k] /\ held'[k] = held[k]
  BY <1>2, <1>4 DEF PathTypes
<1>7. BuiltInv'
  BY <1>1, <1>3, SameChunks DEF PathInv, BuiltInv
<1>8. CutInv'
  <2> SUFFICES ASSUME NEW k \in Path!Nodes
               PROVE  /\ toSend'[k] \subseteq ChunksAt(k) /\ held'[k] \subseteq ChunksAt(k)
                      /\ flying[k] \subseteq [packet : ChunksAt(k), size : Nat]
                      /\ \A raw \in flying[k] : Path!Encoded(raw.packet) <= raw.size
                      /\ k > 1 /\ toSend'[k] \cup flying[k] # {} => hops + 1 - k > 0
    BY <1>1, SameChunks DEF CutInv
  <2>1. /\ toSend[k] \subseteq ChunksAt(k) /\ held[k] \subseteq ChunksAt(k)
        /\ flying[k] \subseteq [packet : ChunksAt(k), size : Nat]
        /\ \A raw \in flying[k] : Path!Encoded(raw.packet) <= raw.size
        /\ k > 1 /\ toSend[k] \cup flying[k] # {} => hops + 1 - k > 0
    BY DEF PathInv, CutInv
  <2>2. CASE k # n
    BY <1>6, <2>1, <2>2
  <2>3. CASE k = n
    BY <1>4, <1>6, <2>1, <2>3
  <2>. QED
    BY <2>2, <2>3
<1>9. TakenInv'
  BY <1>1, SameChunks DEF PathInv, TakenInv
<1>10. PathTypes' /\ Path!FramesAssumption'
  BY <1>1, <1>6 DEF PathInv, PathTypes
<1>11. LinkInv'
  BY <1>1, <1>5, <1>6 DEF PathInv, LinkInv, Path!FitsTheLink
<1>12. AheadInv'
  <2>1. ~Clear'
    <3>1. mtu[n] \in Nat /\ mtu[1] \in Nat
      BY <1>4 DEF PathTypes, Path!Nodes, Path!FramesAssumption
    <3>. QED
      BY <1>1, <1>5, <3>1 DEF Clear
  <2>. QED
    BY <2>1 DEF AheadInv
<1>. QED
  BY <1>7, <1>8, <1>9, <1>10, <1>11, <1>12 DEF PathInv

\* A relay changes nothing of a fragment but its TTL.
LEMMA OneHopLess ==
  ASSUME NEW t, NEW j
  PROVE  Path!Decremented(Path!Chunk(length, Room, t, j)) = Path!Chunk(length, Room, t - 1, j)
<1> DEFINE c == Path!Count(length, Room)
           f == j * Room
           e == Path!ChunkEnd(length, Room, j)
<1>1. \A u : Path!Chunk(length, Room, u, j) =
               [index |-> j, count |-> c, from |-> f, to |-> e, ttl |-> u]
  BY DEF Path!Chunk
<1> HIDE DEF c, f, e
<1>2. \A pk : Path!Decremented(pk) = [pk EXCEPT !.ttl = pk.ttl - 1]
  BY DEF Path!Decremented
<1>3. [[index |-> j, count |-> c, from |-> f, to |-> e, ttl |-> t] EXCEPT !.ttl = t - 1]
        = [index |-> j, count |-> c, from |-> f, to |-> e, ttl |-> t - 1]
  OBVIOUS
<1>. QED
  BY <1>1, <1>2, <1>3

\* A node takes a frame and relays it, or drops it.
LEMMA ReceiveStep ==
  ASSUME PathInv, NEW n \in Path!Nodes, Path!Receive(n)
  PROVE  PathInv'
<1>1. UNCHANGED <<mtu, policy, length, hops, built, emitted, held>>
  BY DEF Path!Receive, Path!config
<1> DEFINE Took(raw, got) ==
        /\ flying' = [flying EXCEPT ![n - 1] = @ \ {raw}]
        /\ IF Path!Decodes(got)
           THEN /\ taken' = [taken EXCEPT ![n] = @ \cup {Path!Decoded(got)}]
                /\ toSend' = [toSend EXCEPT ![n] = @ \cup
                     IF Path!Expires(Path!Decoded(got)) THEN {}
                     ELSE {Path!Decremented(Path!Decoded(got))}]
           ELSE UNCHANGED <<taken, toSend>>
<1>21. PICK raw \in flying[n - 1] : \E got \in Path!Arriving(raw) : Took(raw, got)
  BY DEF Path!Receive
<1>2. PICK got \in Path!Arriving(raw) : Took(raw, got)
  BY <1>21
<1>3. /\ n \in Nat /\ n > 1 /\ n - 1 \in Path!Nodes /\ n - 1 # n
      /\ n - 1 + 1 = n /\ 1 \in Path!Nodes /\ hops \in Nat
  BY DEF PathInv, Path!Receive, Path!Nodes, Path!FramesAssumption, PathTypes
<1>4. emitted = "yes" /\ Room > 0
  BY <1>21, <1>3, IsCut
<1>5. /\ raw \in [packet : ChunksAt(n - 1), size : Nat]
      /\ Path!Encoded(raw.packet) <= raw.size /\ PathTypes /\ Path!FramesAssumption
      /\ n - 1 > 1 => hops + 1 - (n - 1) > 0
  BY <1>2, <1>3 DEF PathInv, CutInv
<1>6. PICK j \in Path!Indices(length, Room) : raw.packet = ChunkAt(n - 1, j)
  BY <1>5 DEF ChunksAt
<1>7. /\ Path!Decodes(got) => Path!Decoded(got) = ChunkAt(n - 1, j)
      /\ ~Cuts => Path!Decodes(got)
  BY <1>2, <1>3, <1>4, <1>5, <1>6, DecodedIs
<1>8. /\ Path!Expires(ChunkAt(n - 1, j)) <=> ~(hops + 1 - n > 0)
      /\ Path!Decremented(ChunkAt(n - 1, j)) = ChunkAt(n, j)
  <2>1. hops + 1 - (n - 1) = hops + 2 - n /\ (hops + 2 - n) - 1 = hops + 1 - n
    BY <1>3
  <2>2. ChunkAt(n - 1, j).ttl = hops + 2 - n
    BY <2>1 DEF ChunkAt, Path!Chunk
  <2>3. Path!Expires(ChunkAt(n - 1, j)) <=> ~(hops + 1 - n > 0)
    BY <1>3, <2>2 DEF Path!Expires
  <2>4. Path!Decremented(ChunkAt(n - 1, j)) = ChunkAt(n, j)
    <3>1. /\ ChunkAt(n - 1, j) = Path!Chunk(length, Room, hops + 2 - n, j)
          /\ ChunkAt(n, j) = Path!Chunk(length, Room, hops + 1 - n, j)
      BY <2>1 DEF ChunkAt
    <3>2. Path!Decremented(Path!Chunk(length, Room, hops + 2 - n, j)) =
            Path!Chunk(length, Room, (hops + 2 - n) - 1, j)
      BY OneHopLess
    <3>. QED
      BY <2>1, <3>1, <3>2
  <2>. QED
    BY <2>3, <2>4
<1>9. /\ flying'[n - 1] = flying[n - 1] \ {raw}
      /\ flying' = [k \in Path!Nodes |-> flying'[k]]
      /\ \A k \in Path!Nodes : k # n - 1 => flying'[k] = flying[k]
  BY <1>2, <1>3, <1>5 DEF PathTypes
<1>10. /\ \A k \in Path!Nodes : k # n => taken'[k] = taken[k] /\ toSend'[k] = toSend[k]
       /\ taken' = [k \in Path!Nodes |-> taken'[k]] /\ toSend' = [k \in Path!Nodes |-> toSend'[k]]
       /\ taken[n] \subseteq taken'[n] /\ taken'[n] \subseteq taken[n] \cup {ChunkAt(n - 1, j)}
       /\ toSend[n] \subseteq toSend'[n]
       /\ \/ toSend'[n] = toSend[n]
          \/ hops + 1 - n > 0 /\ toSend'[n] = toSend[n] \cup {ChunkAt(n, j)}
       /\ ~Cuts => ChunkAt(n - 1, j) \in taken'[n]
       /\ ChunkAt(n - 1, j) \in taken'[n] \ taken[n] /\ hops + 1 - n > 0 =>
            ChunkAt(n, j) \in toSend'[n]
  <2>1. CASE Path!Decodes(got)
    <3>1. /\ taken' = [taken EXCEPT ![n] = @ \cup {ChunkAt(n - 1, j)}]
          /\ toSend' = [toSend EXCEPT ![n] = @ \cup
               IF ~(hops + 1 - n > 0) THEN {} ELSE {ChunkAt(n, j)}]
      BY <1>2, <1>7, <1>8, <2>1
    <3>2. /\ taken'[n] = taken[n] \cup {ChunkAt(n - 1, j)}
          /\ toSend'[n] = toSend[n] \cup
               IF ~(hops + 1 - n > 0) THEN {} ELSE {ChunkAt(n, j)}
          /\ taken' = [k \in Path!Nodes |-> taken'[k]]
          /\ toSend' = [k \in Path!Nodes |-> toSend'[k]]
          /\ \A k \in Path!Nodes : k # n => taken'[k] = taken[k] /\ toSend'[k] = toSend[k]
      BY <1>5, <3>1 DEF PathTypes
    <3>. QED
      BY <3>2
  <2>2. CASE ~Path!Decodes(got)
    <3>1. taken' = taken /\ toSend' = toSend
      BY <1>2, <2>2
    <3>. QED
      BY <1>5, <1>7, <2>2, <3>1 DEF PathTypes
  <2>. QED
    BY <2>1, <2>2
<1>11. BuiltInv'
  BY <1>1, <1>4, SameChunks DEF PathInv, BuiltInv
<1>12. CutInv'
  <2> SUFFICES ASSUME NEW k \in Path!Nodes
               PROVE  /\ toSend'[k] \subseteq ChunksAt(k) /\ held[k] \subseteq ChunksAt(k)
                      /\ flying'[k] \subseteq [packet : ChunksAt(k), size : Nat]
                      /\ \A r \in flying'[k] : Path!Encoded(r.packet) <= r.size
                      /\ k > 1 /\ toSend'[k] \cup flying'[k] # {} => hops + 1 - k > 0
    BY <1>1, SameChunks DEF CutInv
  <2>1. /\ toSend[k] \subseteq ChunksAt(k) /\ held[k] \subseteq ChunksAt(k)
        /\ flying[k] \subseteq [packet : ChunksAt(k), size : Nat]
        /\ \A r \in flying[k] : Path!Encoded(r.packet) <= r.size
        /\ k > 1 /\ toSend[k] \cup flying[k] # {} => hops + 1 - k > 0
    BY DEF PathInv, CutInv
  <2>2. flying'[k] \subseteq flying[k]
    <3>1. CASE k = n - 1
      BY <1>9, <3>1
    <3>2. CASE k # n - 1
      BY <1>9, <3>2
    <3>. QED
      BY <3>1, <3>2
  <2>3. \/ toSend'[k] = toSend[k]
        \/ k = n /\ hops + 1 - n > 0 /\ toSend'[k] = toSend[k] \cup {ChunkAt(n, j)}
    BY <1>10
  <2>4. ChunkAt(n, j) \in ChunksAt(n)
    BY DEF ChunksAt
  <2>5. CASE toSend'[k] = toSend[k]
    BY <2>1, <2>2, <2>5
  <2>6. CASE k = n /\ hops + 1 - n > 0 /\ toSend'[k] = toSend[k] \cup {ChunkAt(n, j)}
    BY <2>1, <2>2, <2>4, <2>6
  <2>. QED
    BY <2>3, <2>5, <2>6
<1>13. TakenInv'
  <2> SUFFICES ASSUME NEW k \in Path!Nodes
               PROVE  /\ taken'[k] \subseteq ChunksAt(k - 1)
                      /\ k > 2 /\ taken'[k] # {} => hops + 2 - k > 0
    BY <1>1, SameChunks DEF TakenInv
  <2>1. /\ taken[k] \subseteq ChunksAt(k - 1)
        /\ k > 2 /\ taken[k] # {} => hops + 2 - k > 0
    BY DEF PathInv, TakenInv
  <2>2. CASE k # n
    BY <1>10, <2>1, <2>2
  <2>3. CASE k = n
    <3>1. ChunkAt(n - 1, j) \in ChunksAt(n - 1)
      BY DEF ChunksAt
    <3>2. k > 2 => hops + 2 - k > 0
      BY <1>3, <1>5, <2>3
    <3>. QED
      BY <1>10, <2>1, <2>3, <3>1, <3>2
  <2>. QED
    BY <2>2, <2>3
<1>14. PathTypes' /\ LinkInv' /\ Path!FramesAssumption'
  BY <1>1, <1>5, <1>9, <1>10 DEF PathInv, PathTypes, LinkInv, Path!FitsTheLink
<1>15. AheadInv'
  <2> SUFFICES ASSUME Clear, NEW k \in Path!Nodes, NEW i \in Path!Indices(length, Room),
                      k + 1 \in Path!Nodes,
                      k = 1 \/ (ChunkAt(k - 1, i) \in taken'[k] /\ hops + 1 - k > 0)
               PROVE  ChunkAt(k, i) \in toSend'[k] \cup Flying(k)' \cup taken'[k + 1]
    BY <1>1, SameChunks DEF AheadInv, Clear
  <2>1. k \in Nat /\ (k + 1 = n => k = n - 1) /\ (k = n - 1 => k + 1 = n)
    BY <1>3 DEF Path!Nodes
  <2>2. CASE k = 1 \/ ChunkAt(k - 1, i) \in taken[k]
    <3>1. ChunkAt(k, i) \in toSend[k] \cup Flying(k) \cup taken[k + 1]
      BY <1>4, <2>2 DEF PathInv, AheadInv
    <3>2. toSend[k] \subseteq toSend'[k] /\ taken[k + 1] \subseteq taken'[k + 1]
      BY <1>10
    <3>3. CASE ChunkAt(k, i) \in Flying(k)
      <4>1. CASE k # n - 1
        <5>1. Flying(k)' = Flying(k)
          BY <1>9, <4>1 DEF Flying
        <5>. QED
          BY <3>3, <5>1
      <4>2. CASE k = n - 1 /\ ChunkAt(k, i) = raw.packet
        BY <1>6, <1>10, <2>1, <4>2 DEF Clear
      <4>3. CASE k = n - 1 /\ ChunkAt(k, i) # raw.packet
        <5>1. PICK r \in flying[k] : ChunkAt(k, i) = r.packet
          BY <3>3 DEF Flying
        <5>2. r \in flying'[k]
          BY <1>9, <4>3, <5>1
        <5>. QED
          BY <5>1, <5>2 DEF Flying
      <4>. QED
        BY <4>1, <4>2, <4>3
    <3>. QED
      BY <3>1, <3>2, <3>3
  <2>3. CASE k # 1 /\ ChunkAt(k - 1, i) \notin taken[k]
    <3>1. k = n /\ ChunkAt(k - 1, i) = ChunkAt(n - 1, j) /\ hops + 1 - n > 0
      BY <1>10, <2>3
    <3>2. i = j
      BY <3>1 DEF ChunkAt, Path!Chunk
    <3>. QED
      BY <1>10, <2>3, <3>1, <3>2
  <2>. QED
    BY <2>2, <2>3
<1>. QED
  BY <1>11, <1>12, <1>13, <1>14, <1>15 DEF PathInv

\* The invariant is inductive.
LEMMA PathStep ==
  ASSUME PathInv, [Path!Next]_(Path!vars)
  PROVE  PathInv'
<1>1. CASE UNCHANGED Path!vars
  <2>1. UNCHANGED <<mtu, policy, length, hops, built, refused, emitted, toSend, flying, taken, held>>
    BY <1>1 DEF Path!vars
  <2>2. BuiltInv' /\ CutInv' /\ TakenInv'
    BY <2>1, SameChunks DEF PathInv, BuiltInv, CutInv, TakenInv
  <2>3. PathTypes' /\ LinkInv' /\ Path!FramesAssumption'
    BY <2>1 DEF PathInv, PathTypes, LinkInv, Path!FitsTheLink
  <2>4. AheadInv'
    BY <2>1, SameChunks DEF PathInv, AheadInv, Clear, Flying
  <2>. QED
    BY <2>2, <2>3, <2>4 DEF PathInv
<1>. QED
  BY <1>1, ConstructStep, EmitStep, TransmitStep, RefuseStep, ReceiveStep DEF Path!Next

-----------------------------------------------------------------------------

\* Whatever the MTUs and the padding of the nodes on the way are, and whatever is
\* cut off a frame, what a node decodes is a fragment as the origin cut it, with
\* the TTL of its hop (Packet.encode and decode, decrement_ttl).
THEOREM EveryHopDecodesTheCut ==
  Path!FramesAssumption /\ Path!Spec => []Path!ArrivesAsCut
<1>1. Path!FramesAssumption /\ Path!Init => PathInv
  BY PathInit
<1>2. PathInv => Path!ArrivesAsCut
  <2> SUFFICES ASSUME PathInv, NEW n \in Path!Nodes, NEW pk \in taken[n]
               PROVE  /\ pk.ttl = hops + 2 - n /\ (n > 2 => pk.ttl > 0)
                      /\ [pk EXCEPT !.ttl = hops] \in
                           Path!Fragment(length, Path!Capacity(mtu[1]), hops)
    BY DEF Path!ArrivesAsCut
  <2>1. PICK i \in Path!Indices(length, Room) : pk = ChunkAt(n - 1, i)
    BY DEF PathInv, TakenInv, ChunksAt
  <2>2. hops \in Nat /\ n \in Nat
    BY DEF PathInv, PathTypes, Path!Nodes
  <2>3. pk.ttl = hops + 1 - (n - 1)
    BY <2>1 DEF ChunkAt, Path!Chunk
  <2>4. pk.ttl = hops + 2 - n /\ (n > 2 => pk.ttl > 0)
    BY <2>2, <2>3 DEF PathInv, TakenInv
  <2>5. [pk EXCEPT !.ttl = hops] = Path!Chunk(length, Room, hops, i)
    BY <2>1 DEF ChunkAt, Path!Chunk
  <2>. QED
    BY <2>4, <2>5 DEF Path!Fragment, Room
<1>. QED
  BY <1>1, <1>2, PathStep, PTL DEF Path!Spec

\* A node never cuts, pads or relays to a size its own link refuses; only a frame
\* of an origin with a larger MTU is too large for it (capacity_for, fragment,
\* padded_size).
THEOREM OnlyNarrowLinksRefuse ==
  Path!FramesAssumption /\ Path!Spec => []Path!FitsTheLink
<1>1. Path!FramesAssumption /\ Path!Init => PathInv
  BY PathInit
<1>2. PathInv => Path!FitsTheLink
  BY DEF PathInv, LinkInv
<1>. QED
  BY <1>1, <1>2, PathStep, PTL DEF Path!Spec

\* The fragments of a message, counted.
LEMMA CountOf ==
  ASSUME NEW len \in Nat, NEW c \in Nat \ {0}
  PROVE  \E k \in Nat \ {0} :
           /\ Path!Indices(len, c) = 0 .. k - 1 /\ IsFiniteSet(Path!Indices(len, c))
           /\ Path!Count(len, c) = k /\ Cardinality(Path!Indices(len, c)) = k
<1>1. \A S : Path!Cardinality(S) = Cardinality(S)
  BY DEF Path!Cardinality, Cardinality
<1>2. PICK k \in Nat \ {0} : Path!Indices(len, c) = 0 .. k - 1
  BY IndicesBelow
<1>3. IsFiniteSet(0 .. k - 1) /\ Cardinality(0 .. k - 1) = k
  BY FS_Interval
<1>. QED
  BY <1>1, <1>2, <1>3 DEF Path!Count

\* A constructed origin has room.
LEMMA RoomIs ==
  ASSUME PathInv, emitted = "yes"
  PROVE  Room \in Nat \ {0} /\ length \in Nat /\ hops \in Nat
<1>1. Room > 0 /\ length \in Nat /\ hops \in Nat
  BY DEF PathInv, BuiltInv, PathTypes
<1>2. mtu[1] \in Nat /\ HeaderLen \in Nat
  BY DEF PathInv, PathTypes, Path!FramesAssumption, Path!Nodes
<1>3. Room = mtu[1] - HeaderLen
  BY DEF Room, Path!Capacity
<1>. QED
  BY <1>1, <1>2, <1>3

\* Once every index of a message is there, so is every byte of it, each once and
\* in the order of the indices (fragment, _Partial.assemble).
THEOREM EveryIndexIsEveryByte ==
  Path!FramesAssumption /\ Path!Spec => []Path!TilesMessage
<1>1. Path!FramesAssumption /\ Path!Init => PathInv
  BY PathInit
<1>2. PathInv => Path!TilesMessage
  <2> SUFFICES ASSUME PathInv, NEW n \in Path!Nodes, NEW z \in taken[n]
               PROVE  /\ \A x, y \in taken[n] : x.index < y.index => x.to <= y.from
                      /\ \A x \in taken[n] :
                           {pk.index : pk \in taken[n]} = 0 .. x.count - 1
                             => Path!Bytes(taken[n]) = 0 .. length - 1
    BY DEF Path!TilesMessage
  <2>1. emitted = "yes"
    BY DEF PathInv, BuiltInv
  <2>2. Room \in Nat \ {0} /\ length \in Nat
    BY <2>1, RoomIs
  <2>3. \A x \in taken[n] : \E i \in Path!Indices(length, Room) : x = ChunkAt(n - 1, i)
    BY DEF PathInv, TakenInv, ChunksAt
  <2>4. ASSUME NEW x \in taken[n], NEW y \in taken[n], x.index < y.index
        PROVE  x.to <= y.from
    <3>1. PICK i \in Path!Indices(length, Room) : x = ChunkAt(n - 1, i)
      BY <2>3
    <3>2. PICK j \in Path!Indices(length, Room) : y = ChunkAt(n - 1, j)
      BY <2>3
    <3>3. i < j
      BY <2>4, <3>1, <3>2 DEF ChunkAt, Path!Chunk
    <3>. QED
      BY <2>2, <3>1, <3>2, <3>3, ChunksTile DEF ChunkAt
  <2>5. ASSUME NEW x \in taken[n], {pk.index : pk \in taken[n]} = 0 .. x.count - 1
        PROVE  Path!Bytes(taken[n]) = 0 .. length - 1
    <3>1. PICK k \in Nat \ {0} : /\ Path!Indices(length, Room) = 0 .. k - 1
                                 /\ Path!Count(length, Room) = k
      BY <2>2, CountOf
    <3>2. x.count = k
      BY <2>3, <3>1 DEF ChunkAt, Path!Chunk
    <3>3. ASSUME NEW i \in Path!Indices(length, Room)
          PROVE  ChunkAt(n - 1, i) \in taken[n]
      <4>1. PICK pk \in taken[n] : pk.index = i
        BY <2>5, <3>1, <3>2
      <4>2. PICK j \in Path!Indices(length, Room) : pk = ChunkAt(n - 1, j)
        BY <2>3
      <4>3. j = i
        BY <4>1, <4>2 DEF ChunkAt, Path!Chunk
      <4>. QED
        BY <4>2, <4>3
    <3>4. ASSUME NEW b \in Path!Bytes(taken[n])
          PROVE  b \in 0 .. length - 1
      <4>1. PICK pk \in taken[n] : b \in pk.from .. pk.to - 1
        BY DEF Path!Bytes
      <4>2. PICK i \in Path!Indices(length, Room) : pk = ChunkAt(n - 1, i)
        BY <2>3
      <4>3. pk.from \in Nat /\ pk.to \in Nat /\ pk.to <= length
        BY <2>2, <4>2, ChunkIs DEF ChunkAt
      <4>. QED
        BY <2>2, <4>1, <4>3
    <3>5. ASSUME NEW b \in 0 .. length - 1
          PROVE  b \in Path!Bytes(taken[n])
      <4>1. PICK i \in Path!Indices(length, Room) :
              i * Room <= b /\ b < Path!ChunkEnd(length, Room, i)
        BY <2>2, ChunksTile
      <4> DEFINE pk == ChunkAt(n - 1, i)
      <4>2. /\ pk \in taken[n] /\ pk.from = i * Room
            /\ pk.to = Path!ChunkEnd(length, Room, i)
        BY <3>3 DEF ChunkAt, Path!Chunk
      <4>3. pk.from \in Nat /\ pk.to \in Nat
        BY <2>2, ChunkIs DEF ChunkAt
      <4> HIDE DEF pk
      <4>4. b \in pk.from .. pk.to - 1
        BY <4>1, <4>2, <4>3
      <4>. QED
        BY <4>2, <4>4 DEF Path!Bytes
    <3>. QED
      BY <3>4, <3>5
  <2>. QED
    BY <2>4, <2>5
<1>. QED
  BY <1>1, <1>2, PathStep, PTL DEF Path!Spec

\* On a path whose MTUs are not smaller than the origin's, and that loses
\* nothing, a message that was cut has in the end reached every node its TTL
\* allows, as a whole (_emit, _transmit, _do_relay).
THEOREM ClearPathCarriesAll ==
  Path!FramesAssumption /\ Path!Spec => []Path!CrossesPath
<1>1. Path!FramesAssumption /\ Path!Init => PathInv
  BY PathInit
<1>2. PathInv => Path!CrossesPath
  <2> SUFFICES ASSUME PathInv, Path!Quiet, emitted = "yes", Clear, refused = {},
                      NEW n \in Path!Nodes, n # 1, n - 1 <= hops
               PROVE  Cardinality(taken[n]) = Path!Count(length, Room)
    <3>1. \A S : Path!Cardinality(S) = Cardinality(S)
      BY DEF Path!Cardinality, Cardinality
    <3>. QED
      BY <3>1 DEF Path!CrossesPath, Clear, Room
  <2>1. Room \in Nat \ {0} /\ length \in Nat /\ hops \in Nat
    BY RoomIs
  <2>2. PathLength \in Nat \ {0} /\ Path!Nodes = 1 .. PathLength
    BY DEF PathInv, Path!FramesAssumption, Path!Nodes
  <2>3. \A k \in Path!Nodes : k + 1 \in Path!Nodes => toSend[k] = {} /\ Flying(k) = {}
    BY <2>2 DEF Path!Quiet, Flying
  <2> DEFINE Missed == {k \in Path!Nodes : k # 1 /\ k - 1 <= hops
                          /\ \E i \in Path!Indices(length, Room) : ChunkAt(k - 1, i) \notin taken[k]}
  <2>4. Missed = {}
    <3> SUFFICES ASSUME Missed # {} PROVE FALSE
      OBVIOUS
    <3>1. Missed \subseteq Nat
      BY <2>2
    <3>2. PICK m \in Missed : \A y \in Missed : m <= y
      <4> HIDE DEF Missed
      <4>. QED
        BY <3>1, SmallestNumber
    <3>3. PICK i \in Path!Indices(length, Room) : ChunkAt(m - 1, i) \notin taken[m]
      OBVIOUS
    <3>4. /\ m \in Nat /\ m - 1 \in Path!Nodes /\ m - 1 + 1 = m /\ m \in Path!Nodes
          /\ hops + 1 - (m - 1) > 0 /\ (m - 1) - 1 <= hops
      BY <2>1, <2>2
    <3>5. m - 1 \notin Missed
      BY <3>1, <3>2, <3>4
    <3>6. m - 1 = 1 \/ ChunkAt((m - 1) - 1, i) \in taken[m - 1]
      BY <3>4, <3>5
    <3>7. ChunkAt(m - 1, i) \in toSend[m - 1] \cup Flying(m - 1) \cup taken[m]
      BY <3>4, <3>6 DEF PathInv, AheadInv
    <3>. QED
      BY <2>3, <3>3, <3>4, <3>7
  <2>5. taken[n] = ChunksAt(n - 1)
    <3>1. \A i \in Path!Indices(length, Room) : ChunkAt(n - 1, i) \in taken[n]
      BY <2>4
    <3>. QED
      BY <3>1 DEF PathInv, TakenInv, ChunksAt
  <2>6. Cardinality(ChunksAt(n - 1)) = Cardinality(Path!Indices(length, Room))
    <3> DEFINE I == Path!Indices(length, Room)
               C == ChunksAt(n - 1)
               f == [i \in I |-> ChunkAt(n - 1, i)]
    <3>1. \A i, j \in I : ChunkAt(n - 1, i) = ChunkAt(n - 1, j) => i = j
      BY DEF ChunkAt, Path!Chunk
    <3>2. \A pk \in C : \E i \in I : pk = ChunkAt(n - 1, i)
      BY DEF ChunksAt
    <3>3. \A i \in I : ChunkAt(n - 1, i) \in C
      BY DEF ChunksAt
    <3>4. IsFiniteSet(I)
      BY <2>1, CountOf
    <3> HIDE DEF I, C
    <3>5. f \in Bijection(I, C)
      BY <3>1, <3>2, <3>3 DEF Bijection, Injection, Surjection, IsInjective
    <3>6. ExistsBijection(I, C)
      BY <3>5 DEF ExistsBijection
    <3>. QED
      BY <3>4, <3>6, FS_Bijection DEF I, C
  <2>. QED
    BY <2>1, <2>5, <2>6, CountOf
<1>. QED
  BY <1>1, <1>2, PathStep, PTL DEF Path!Spec

-----------------------------------------------------------------------------
(* A group that hears itself.  The salt of a datagram is that of the node  *)
(* whose frame it carries, so what a node leaves in its queue is another's. *)

\* An item of an inbox without what node n sent.
NotOf(n, item) == \A i \in DOMAIN item : item[i] \in Group!Frame => item[i][1] # n

\* A datagram that carries a frame has the salt of who sent the frame, and
\* what node n queued is not its own.
GroupInv ==
  /\ Group!UdpAssumption /\ Group!TypeOK
  /\ \A n \in Members : \A d \in wire[n] : d[2] \in Group!Frame => d[1] = salt[d[2][1]]
  /\ \A n \in Members : \A i \in DOMAIN box[n].queue : NotOf(n, box[n].queue[i])
  /\ Group!NoEcho

Items == {Group!None} \cup {<<f>> : f \in Group!Frame \cup {Group!Junk}}

\* Datagrams and frames.
LEMMA DatagramIs ==
  /\ Group!Junk \notin Group!Frame
  /\ \A d \in Group!Datagram : d[2] \in Group!Frame \cup {Group!Junk} /\ d[1] \in Salts
  /\ \A s \in Salts : <<s, Group!Junk>> \in Group!Datagram
  /\ \A s \in Salts, f \in Group!Frame : <<s, f>> \in Group!Datagram
  BY DEF Group!Junk, Group!Frame, Group!Datagram

\* The steps of an inbox keep its type; they bring no item in but the one that is put.
LEMMA InboxSteps ==
  ASSUME NEW b \in Group!InboxOf(Items)
  PROVE  /\ Group!Started(b) \in Group!InboxOf(Items) /\ Group!Started(b).queue = b.queue
         /\ \A f \in Group!Frame \cup {Group!Junk} :
              /\ Group!Filled(b, f) \in Group!InboxOf(Items)
              /\ Group!Filled(b, f).queue = Append(b.queue, <<f>>)
         /\ Group!Readable(b) =>
              /\ Group!Taken(b) \in Group!InboxOf(Items)
              /\ Group!Taken(b).queue = Tail(b.queue) /\ b.queue # <<>>
              /\ Group!Next1(b) = b.queue[1]
         /\ Group!Handled(b) \in Group!InboxOf(Items) /\ Group!Handled(b).queue = b.queue
         /\ Group!Cancelled(b) \in Group!InboxOf(Items) /\ Group!Cancelled(b).queue = b.queue
         /\ Group!Stopped(b) \in Group!InboxOf(Items)
         /\ Group!Stopped(b).queue = Append(b.queue, Group!None)
<1>0. /\ b = [running |-> b.running, queue |-> b.queue, loop |-> b.loop]
      /\ b.running \in BOOLEAN /\ b.queue \in Seq(Items)
      /\ b.loop \in {"off", "waits", "busy", "ended"}
  BY DEF Group!InboxOf
<1>1. Group!Started(b) \in Group!InboxOf(Items) /\ Group!Started(b).queue = b.queue
  BY <1>0 DEF Group!InboxOf, Group!Started
<1>2. ASSUME NEW f \in Group!Frame \cup {Group!Junk}
      PROVE  /\ Group!Filled(b, f) \in Group!InboxOf(Items)
             /\ Group!Filled(b, f).queue = Append(b.queue, <<f>>)
  <2>1. <<f>> \in Items
    BY DEF Items
  <2>2. Append(b.queue, <<f>>) \in Seq(Items)
    BY <1>0, <2>1
  <2>. QED
    BY <1>0, <2>2 DEF Group!InboxOf, Group!Filled
<1>3. ASSUME Group!Readable(b)
      PROVE  /\ Group!Taken(b) \in Group!InboxOf(Items)
             /\ Group!Taken(b).queue = Tail(b.queue) /\ b.queue # <<>>
             /\ Group!Next1(b) = b.queue[1]
  <2>1. b.queue # <<>>
    BY <1>3 DEF Group!Readable
  <2>2. Tail(b.queue) \in Seq(Items) /\ Head(b.queue) = b.queue[1]
    BY <1>0, <2>1
  <2>. QED
    BY <1>0, <2>1, <2>2 DEF Group!InboxOf, Group!Taken, Group!Next1
<1>4. Group!Handled(b) \in Group!InboxOf(Items) /\ Group!Handled(b).queue = b.queue
  BY <1>0 DEF Group!InboxOf, Group!Handled
<1>5. Group!Cancelled(b) \in Group!InboxOf(Items) /\ Group!Cancelled(b).queue = b.queue
  BY <1>0 DEF Group!InboxOf, Group!Cancelled
<1>6. /\ Group!Stopped(b) \in Group!InboxOf(Items)
      /\ Group!Stopped(b).queue = Append(b.queue, Group!None)
  <2>1. Append(b.queue, Group!None) \in Seq(Items)
    BY <1>0 DEF Items
  <2>. QED
    BY <1>0, <2>1 DEF Group!InboxOf, Group!Stopped
<1>. QED
  BY <1>1, <1>2, <1>3, <1>4, <1>5, <1>6

\* A step of one member's inbox alone.
LEMMA OneInbox ==
  ASSUME GroupInv, NEW n \in Members, NEW b \in Group!InboxOf(Items),
         box' = [box EXCEPT ![n] = b],
         \A i \in DOMAIN b.queue : NotOf(n, b.queue[i])
  PROVE  /\ box' \in [Members -> Group!InboxOf(Items)]
         /\ \A k \in Members : \A i \in DOMAIN box'[k].queue : NotOf(k, box'[k].queue[i])
<1>1. box \in [Members -> Group!InboxOf(Items)]
  BY DEF GroupInv, Group!TypeOK, Items
<1>2. /\ box' \in [Members -> Group!InboxOf(Items)] /\ box'[n] = b
      /\ \A k \in Members : k # n => box'[k] = box[k]
  BY <1>1
<1>. QED
  BY <1>2 DEF GroupInv

\* What is put behind a queue joins it; what is taken from its front leaves it.
LEMMA QueueIs ==
  ASSUME NEW n, NEW q \in Seq(Items), \A i \in DOMAIN q : NotOf(n, q[i])
  PROVE  /\ \A x \in Items : NotOf(n, x) =>
              \A i \in DOMAIN Append(q, x) : NotOf(n, Append(q, x)[i])
         /\ q # <<>> => \A i \in DOMAIN Tail(q) : NotOf(n, Tail(q)[i])
<1>1. ASSUME NEW x \in Items, NotOf(n, x), NEW i \in DOMAIN Append(q, x)
      PROVE  NotOf(n, Append(q, x)[i])
  <2>1. i \in 1 .. Len(q) + 1
    OBVIOUS
  <2>2. CASE i = Len(q) + 1
    BY <1>1, <2>2
  <2>3. CASE i \in 1 .. Len(q)
    <3>1. Append(q, x)[i] = q[i] /\ i \in DOMAIN q
      BY <2>3
    <3>. QED
      BY <3>1
  <2>. QED
    BY <2>1, <2>2, <2>3
<1>2. ASSUME q # <<>>, NEW i \in DOMAIN Tail(q)
      PROVE  NotOf(n, Tail(q)[i])
  <2>1. i + 1 \in DOMAIN q /\ Tail(q)[i] = q[i + 1]
    BY <1>2
  <2>. QED
    BY <2>1
<1>. QED
  BY <1>1, <1>2

\* Starting, stopping, cancelling and handling: the queue changes by a None at most.
LEMMA InboxActions ==
  ASSUME GroupInv, NEW n \in Members,
         Group!Start(n) \/ Group!Handle(n) \/ Group!Cancel(n) \/ Group!Stop(n)
  PROVE  GroupInv'
<1>1. box[n] \in Group!InboxOf(Items) /\ \A i \in DOMAIN box[n].queue : NotOf(n, box[n].queue[i])
  BY DEF GroupInv, Group!TypeOK, Items
<1>2. PICK b \in Group!InboxOf(Items) :
        /\ box' = [box EXCEPT ![n] = b]
        /\ \A i \in DOMAIN b.queue : NotOf(n, b.queue[i])
  <2>1. CASE Group!Start(n)
    BY <1>1, <2>1, InboxSteps DEF Group!Start
  <2>2. CASE Group!Handle(n)
    BY <1>1, <2>2, InboxSteps DEF Group!Handle
  <2>3. CASE Group!Cancel(n)
    BY <1>1, <2>3, InboxSteps DEF Group!Cancel
  <2>4. CASE Group!Stop(n)
    <3>1. NotOf(n, Group!None) /\ Group!None \in Items
      BY DEF NotOf, Items, Group!None
    <3>2. box[n].queue \in Seq(Items)
      BY <1>1 DEF Group!InboxOf
    <3>3. \A i \in DOMAIN Append(box[n].queue, Group!None) :
            NotOf(n, Append(box[n].queue, Group!None)[i])
      BY <1>1, <3>1, <3>2, QueueIs
    <3>. QED
      BY <1>1, <2>4, <3>3, InboxSteps DEF Group!Stop
  <2>. QED
    BY <2>1, <2>2, <2>3, <2>4
<1>3. /\ box' \in [Members -> Group!InboxOf(Items)]
      /\ \A k \in Members : \A i \in DOMAIN box'[k].queue : NotOf(k, box'[k].queue[i])
  BY <1>2, OneInbox
<1>4. /\ UNCHANGED <<salt, sends, heard, repeats, foreign>>
      /\ starts' \in [Members -> 0 .. MaxStarts]
      /\ owed' \in [Group!Frame -> SUBSET Members]
      /\ wire' \in [Members -> SUBSET Group!Datagram]
      /\ \A k \in Members : wire'[k] \subseteq wire[k]
  <2>1. /\ starts \in [Members -> 0 .. MaxStarts] /\ wire \in [Members -> SUBSET Group!Datagram]
        /\ owed \in [Group!Frame -> SUBSET Members] /\ MaxStarts \in Nat
    BY DEF GroupInv, Group!TypeOK, Group!UdpAssumption
  <2>2. CASE Group!Start(n)
    BY <2>1, <2>2 DEF Group!Start
  <2>3. CASE Group!Handle(n)
    BY <2>1, <2>3 DEF Group!Handle
  <2>4. CASE Group!Cancel(n)
    BY <2>1, <2>4 DEF Group!Cancel
  <2>5. CASE Group!Stop(n)
    BY <2>1, <2>5 DEF Group!Stop
  <2>. QED
    BY <2>2, <2>3, <2>4, <2>5
<1>. QED
  BY <1>3, <1>4 DEF GroupInv, Group!TypeOK, Group!NoEcho, Items, Group!UdpAssumption

\* A frame, or a datagram of another program, is on its way.
LEMMA OnTheWire ==
  ASSUME GroupInv, NEW n \in Members, Group!Send(n) \/ Group!Foreign(n)
  PROVE  GroupInv'
<1>0. /\ salt \in [Members -> Salts] /\ sends \in [Members -> 0 .. MaxSends]
      /\ wire \in [Members -> SUBSET Group!Datagram] /\ owed \in [Group!Frame -> SUBSET Members]
      /\ MaxSends \in Nat /\ MaxForeign \in Nat /\ foreign \in 0 .. MaxForeign
  BY DEF GroupInv, Group!TypeOK, Group!UdpAssumption
<1>1. UNCHANGED <<salt, box, starts, heard, repeats>>
  BY DEF Group!Send, Group!Foreign
<1>2. CASE Group!Send(n)
  <2> DEFINE f == <<n, sends[n] + 1>>
  <2>1. f \in Group!Frame
    BY <1>0, <1>2 DEF Group!Send, Group!Frame
  <2>2. <<salt[n], f>> \in Group!Datagram
    BY <1>0, <2>1, DatagramIs
  <2>3. \A k \in Members : wire'[k] \subseteq wire[k] \cup {<<salt[n], f>>}
    BY <1>2 DEF Group!Send
  <2>4. wire' \in [Members -> SUBSET Group!Datagram]
    BY <1>0, <1>2, <2>2 DEF Group!Send
  <2>5. \A k \in Members : \A d \in wire'[k] : d[2] \in Group!Frame => d[1] = salt[d[2][1]]
    BY <2>3 DEF GroupInv
  <2>6. /\ sends' \in [Members -> 0 .. MaxSends] /\ UNCHANGED foreign
        /\ owed' \in [Group!Frame -> SUBSET Members]
    <3>1. owed' = [owed EXCEPT ![f] = {k \in Members \ {n} : Group!Up(k)}]
      BY <1>2 DEF Group!Send
    <3>2. sends' = [sends EXCEPT ![n] = @ + 1] /\ sends[n] < MaxSends /\ UNCHANGED foreign
      BY <1>2 DEF Group!Send
    <3>3. sends' \in [Members -> 0 .. MaxSends]
      <4>1. sends[n] + 1 \in 0 .. MaxSends
        BY <1>0, <3>2
      <4>. QED
        BY <1>0, <3>2, <4>1
    <3>4. {k \in Members \ {n} : Group!Up(k)} \in SUBSET Members
      OBVIOUS
    <3>5. owed' \in [Group!Frame -> SUBSET Members]
      BY <1>0, <3>1, <3>4
    <3>. QED
      BY <3>2, <3>3, <3>5
  <2>. QED
    BY <1>1, <2>4, <2>5, <2>6 DEF GroupInv, Group!TypeOK, Group!NoEcho
<1>3. CASE Group!Foreign(n)
  <2>1. PICK s \in Salts : wire' = [wire EXCEPT ![n] = @ \cup {<<s, Group!Junk>>}]
    BY <1>3 DEF Group!Foreign
  <2>2. <<s, Group!Junk>> \in Group!Datagram /\ Group!Junk \notin Group!Frame
    BY DatagramIs
  <2>3. \A k \in Members : wire'[k] \subseteq wire[k] \cup {<<s, Group!Junk>>}
    BY <1>0, <2>1
  <2>4. wire' \in [Members -> SUBSET Group!Datagram]
    BY <1>0, <2>1, <2>2
  <2>5. \A k \in Members : \A d \in wire'[k] : d[2] \in Group!Frame => d[1] = salt[d[2][1]]
    BY <2>2, <2>3 DEF GroupInv
  <2>6. foreign' \in 0 .. MaxForeign /\ UNCHANGED <<sends, owed>>
    BY <1>0, <1>3 DEF Group!Foreign
  <2>. QED
    BY <1>1, <2>4, <2>5, <2>6 DEF GroupInv, Group!TypeOK, Group!NoEcho
<1>. QED
  BY <1>2, <1>3

\* A datagram arrives, or does not.
LEMMA OffTheWire ==
  ASSUME GroupInv, NEW n \in Members, Group!Deliver(n) \/ Group!Lose(n)
  PROVE  GroupInv'
<1>0. /\ salt \in [Members -> Salts] /\ wire \in [Members -> SUBSET Group!Datagram]
      /\ MaxRepeats \in Nat /\ repeats \in 0 .. MaxRepeats
  BY DEF GroupInv, Group!TypeOK, Group!UdpAssumption
<1>1. /\ UNCHANGED <<salt, sends, starts, heard, owed, foreign>>
      /\ wire' \in [Members -> SUBSET Group!Datagram] /\ \A k \in Members : wire'[k] \subseteq wire[k]
      /\ repeats' \in 0 .. MaxRepeats
  BY <1>0 DEF Group!Deliver, Group!Lose
<1>2. /\ box' \in [Members -> Group!InboxOf(Items)]
      /\ \A k \in Members : \A i \in DOMAIN box'[k].queue : NotOf(k, box'[k].queue[i])
  <2>1. CASE box' = box
    BY <2>1 DEF GroupInv, Group!TypeOK, Items
  <2>2. CASE Group!Deliver(n) /\ box' # box
    <3>1. PICK d \in wire[n] : /\ ~Group!Echo(n, d)
                               /\ box' = [box EXCEPT ![n] = Group!Filled(@, Group!Content(d))]
      BY <2>2 DEF Group!Deliver
    <3>2. /\ d[2] \in Group!Frame \cup {Group!Junk} /\ d[1] # salt[n]
          /\ d[2] \in Group!Frame => d[1] = salt[d[2][1]]
      BY <1>0, <3>1, DatagramIs DEF GroupInv, Group!Echo
    <3>3. NotOf(n, <<d[2]>>) /\ <<d[2]>> \in Items
      BY <3>2 DEF NotOf, Items
    <3>4. box[n] \in Group!InboxOf(Items) /\ box[n].queue \in Seq(Items)
      BY DEF GroupInv, Group!TypeOK, Items, Group!InboxOf
    <3> DEFINE b == Group!Filled(box[n], d[2])
    <3>5. b \in Group!InboxOf(Items) /\ b.queue = Append(box[n].queue, <<d[2]>>)
      BY <3>2, <3>4, InboxSteps
    <3>6. \A i \in DOMAIN b.queue : NotOf(n, b.queue[i])
      BY <3>3, <3>4, <3>5, QueueIs DEF GroupInv
    <3>7. box' = [box EXCEPT ![n] = b]
      BY <3>1 DEF Group!Content
    <3> HIDE DEF b
    <3>. QED
      BY <3>5, <3>6, <3>7, OneInbox
  <2>. QED
    BY <2>1, <2>2 DEF Group!Lose
<1>. QED
  BY <1>1, <1>2 DEF GroupInv, Group!TypeOK, Group!NoEcho, Items, Group!UdpAssumption

\* The loop over frames() is given what is at the front of the queue.
LEMMA ReadStep ==
  ASSUME GroupInv, NEW n \in Members, Group!Read(n)
  PROVE  GroupInv'
<1>0. /\ box[n] \in Group!InboxOf(Items) /\ box[n].queue \in Seq(Items)
      /\ heard \in [Members -> SUBSET (Group!Frame \cup {Group!Junk})]
  BY DEF GroupInv, Group!TypeOK, Items, Group!InboxOf
<1>1. UNCHANGED <<salt, sends, starts, wire, owed, repeats, foreign>>
  BY DEF Group!Read
<1> DEFINE x == box[n].queue[1]
           b == Group!Taken(box[n])
<1>2. /\ box[n].queue # <<>> /\ b \in Group!InboxOf(Items) /\ b.queue = Tail(box[n].queue)
      /\ box' = [box EXCEPT ![n] = b]
      /\ heard' = [heard EXCEPT ![n] = @ \cup {x[i] : i \in DOMAIN x}]
  <2>1. /\ Group!Readable(box[n]) /\ box' = [box EXCEPT ![n] = b]
        /\ heard' = [heard EXCEPT ![n] = @ \cup
              {Group!Next1(box[n])[i] : i \in DOMAIN Group!Next1(box[n])}]
    BY DEF Group!Read
  <2>2. Group!Next1(box[n]) = x
    BY <1>0, <2>1, InboxSteps
  <2>3. box[n].queue # <<>> /\ b \in Group!InboxOf(Items) /\ b.queue = Tail(box[n].queue)
    BY <1>0, <2>1, InboxSteps
  <2>. QED
    BY <2>1, <2>2, <2>3
<1>3. x \in Items /\ NotOf(n, x)
  BY <1>0, <1>2 DEF GroupInv
<1>4. \A i \in DOMAIN b.queue : NotOf(n, b.queue[i])
  BY <1>0, <1>2, QueueIs DEF GroupInv
<1> HIDE DEF x, b
<1>5. /\ box' \in [Members -> Group!InboxOf(Items)]
      /\ \A k \in Members : \A i \in DOMAIN box'[k].queue : NotOf(k, box'[k].queue[i])
  BY <1>2, <1>4, OneInbox
<1>6. {x[i] : i \in DOMAIN x} \subseteq Group!Frame \cup {Group!Junk}
  BY <1>3 DEF Items, Group!None
<1>7. heard' \in [Members -> SUBSET (Group!Frame \cup {Group!Junk})]
  BY <1>0, <1>2, <1>6
<1>8. Group!NoEcho'
  BY <1>0, <1>2, <1>3 DEF GroupInv, Group!NoEcho, NotOf
<1>. QED
  BY <1>1, <1>5, <1>7, <1>8 DEF GroupInv, Group!TypeOK, Items

\* A node never hears what it sent itself, however late or often the group
\* brings it back, in a group of any size that draws any salts, also where two
\* drew the same one (the salt; send, _deliver).
THEOREM NeverOneself ==
  Group!UdpAssumption /\ Group!Spec => [](Group!TypeOK /\ Group!NoEcho)
<1>1. Group!UdpAssumption /\ Group!Init => GroupInv
  <2> SUFFICES ASSUME Group!UdpAssumption, Group!Init PROVE GroupInv
    OBVIOUS
  <2>1. Group!NewInbox \in Group!InboxOf(Items) /\ Group!NewInbox.queue = <<>>
    BY DEF Group!NewInbox, Group!InboxOf
  <2>2. Group!TypeOK
    <3>1. 0 \in 0 .. MaxSends /\ 0 \in 0 .. MaxStarts /\ 0 \in 0 .. MaxRepeats /\ 0 \in 0 .. MaxForeign
      BY DEF Group!UdpAssumption
    <3>. QED
      BY <2>1, <3>1 DEF Group!Init, Group!TypeOK, Items
  <2>. QED
    BY <2>1, <2>2 DEF Group!Init, GroupInv, Group!NoEcho
<1>2. GroupInv /\ [Group!Next]_(Group!vars) => GroupInv'
  <2> SUFFICES ASSUME GroupInv, [Group!Next]_(Group!vars)
               PROVE  GroupInv'
    OBVIOUS
  <2>1. CASE UNCHANGED Group!vars
    BY <2>1 DEF Group!vars, GroupInv, Group!TypeOK, Group!NoEcho
  <2>2. CASE Group!Next
    BY <2>2, InboxActions, OnTheWire, OffTheWire, ReadStep DEF Group!Next
  <2>. QED
    BY <2>1, <2>2
<1>3. GroupInv => Group!TypeOK /\ Group!NoEcho
  BY DEF GroupInv
<1>. QED
  BY <1>1, <1>2, <1>3, PTL DEF Group!Spec
=============================================================================
