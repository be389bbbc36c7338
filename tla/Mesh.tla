-------------------------------- MODULE Mesh --------------------------------
(***************************************************************************)
(* The flood of frames through the routers of a mesh: chatbit/mesh/        *)
(* router.py on every node, over the broadcast medium of                   *)
(* chatbit/radio/loopback.py.                                              *)
(*                                                                         *)
(* A frame is known by its dedup key (msg_id, frag_index), which is drawn  *)
(* at random and taken to be unique.  Every router object has a bounded    *)
(* and timed memory of the keys it has seen, at most one frame it is       *)
(* handling (its receive loop is serial), the jittered relay timers it has *)
(* armed, the dictionary _pending_relays by which it can cancel them, the  *)
(* relay tasks it has started and the frames it stored because a relay     *)
(* could not be sent.                                                      *)
(*                                                                         *)
(* Time is counted in ticks.  A timer fires at most JitterMax ticks after  *)
(* it was armed; deliveries, transmissions and relay tasks take any time.  *)
(***************************************************************************)
EXTENDS Integers, Sequences, FiniteSets

CONSTANTS
  Nodes,            \* the routers
  Keys,             \* the dedup keys of the frames that are originated
  Neighbours,       \* Neighbours[n]: the other nodes that hear n  (Medium.topology)
  ForUs,            \* ForUs[k]: the nodes whose is_for_us accepts frame k
  Hops,             \* Hops[o][n]: how many hops n is away from o
  InitTTL,          \* MeshConfig.default_ttl
  DedupCapacity,    \* MeshConfig.dedup_cache_size
  DedupTTL,         \* MeshConfig.dedup_ttl_seconds
  JitterMax,        \* MeshConfig.relay_jitter_max
  StoreForward,     \* MeshConfig.store_forward
  StoreCapacity,    \* MeshConfig.store_capacity
  Copies,           \* how often one transmission may reach one neighbour
  SendMayFail,      \* whether transport.send may raise
  DeliverMayRaise,  \* whether the deliver callback may raise
  Idle,             \* no frame            (a model value)
  NoTimer,          \* no timer            (a model value)
  NoNode,           \* no node             (a model value)
  MaxTime,          \* bound on the clock
  MaxStops         \* bound on how often one node is stopped

ASSUME MeshAssumption ==
  /\ Neighbours \in [Nodes -> SUBSET Nodes]
  /\ ForUs \in [Keys -> SUBSET Nodes]
  /\ IsFiniteSet(Keys)
  /\ Hops \in [Nodes -> [Nodes -> Nat]]
  /\ \A o \in Nodes : Hops[o][o] = 0
  /\ \A o, n \in Nodes : \A m \in Neighbours[n] : Hops[o][m] <= Hops[o][n] + 1
  /\ InitTTL \in Nat \ {0}
  /\ DedupCapacity \in Nat \ {0}
  /\ DedupTTL \in Nat
  /\ JitterMax \in Nat
  /\ StoreForward \in BOOLEAN
  /\ StoreCapacity \in Nat \ {0}
  /\ Copies \in SUBSET Nat
  /\ SendMayFail \in BOOLEAN
  /\ DeliverMayRaise \in BOOLEAN
  /\ MaxTime \in Nat
  /\ MaxStops \in Nat
  /\ NoNode \notin Nodes

VARIABLES
  now,        \* the clock, in ticks
  stops,      \* stops[n]: how often node n has been stopped
  up,         \* up[n]: the node runs
  air,        \* air[n][p]: copies of p on their way to n, or in its queue
  seen,       \* seen[n][k]: when DedupCache recorded k, or Never
  handling,   \* handling[n]: the frame whose delivery handle() awaits, or Idle
  timers,     \* timers[n]: the relay timers armed in the event loop
  pending,    \* pending[n][k]: the timer _pending_relays holds for k
  relays,     \* relays[n]: the running _do_relay tasks
  store,      \* store[n]: Router._store
  origin,     \* origin[k]: the node that originated k      (history)
  crossed,    \* crossed[n][k]: times this router recorded k as new (history)
  sent        \* sent[n][k]: times this router transmitted k      (history)

vars == <<now, stops, up, air, seen, handling, timers, pending, relays,
          store, origin, crossed, sent>>

Never == -1

Packet == [key : Keys, ttl : 1 .. InitTTL]

\* A timer is the handle of one call_later: the forwarded frame, when it was
\* armed, and the number of the crossing it belongs to (its identity).
Timer == [pkt : Packet, at : 0 .. MaxTime, no : Nat]

ASSUME NoValueAssumption ==
  /\ Idle \notin Packet
  /\ NoTimer \notin Timer

\* The variables hold what the router's fields can hold.
TypeOK ==
  /\ now \in 0 .. MaxTime
  /\ stops \in [Nodes -> 0 .. MaxStops]
  /\ up \in [Nodes -> BOOLEAN]
  /\ air \in [Nodes -> [Packet -> Nat]]
  /\ seen \in [Nodes -> [Keys -> {Never} \cup (0 .. MaxTime)]]
  /\ handling \in [Nodes -> Packet \cup {Idle}]
  /\ timers \in [Nodes -> SUBSET Timer]
  /\ pending \in [Nodes -> [Keys -> Timer \cup {NoTimer}]]
  /\ relays \in [Nodes -> SUBSET Timer]
  /\ store \in [Nodes -> Seq(Packet)]
  /\ origin \in [Keys -> Nodes \cup {NoNode}]
  /\ crossed \in [Nodes -> [Keys -> Nat]]
  /\ sent \in [Nodes -> [Keys -> Nat]]

-----------------------------------------------------------------------------
(* DedupCache *)

\* Variant: an entry exactly dedup_ttl_seconds old is dropped too.
ExpiredEarly(memory) ==
  [k \in Keys |-> IF memory[k] + DedupTTL <= now THEN Never ELSE memory[k]]

\* _expire: the entries older than the time to live are gone.
Expired(memory) ==
  [k \in Keys |-> IF memory[k] + DedupTTL < now THEN Never ELSE memory[k]]

Knows(memory, k) == Expired(memory)[k] # Never

\* seen() for a key that is not there: it is recorded with the time, and past
\* the capacity the oldest entry leaves (either one of two of the same tick).
Recorded(memory, k) ==
  LET full  == [Expired(memory) EXCEPT ![k] = now]
      known == {j \in Keys : full[j] # Never}
      oldest == {j \in known \ {k} : \A i \in known : full[j] <= full[i]}
  IN  IF Cardinality(known) <= DedupCapacity
      THEN {full}
      ELSE {[full EXCEPT ![j] = Never] : j \in oldest}

-----------------------------------------------------------------------------
(* The medium: every running neighbour gets its own number of copies. *)

Transmit(n, p) ==
  /\ \E copies \in [{m \in Neighbours[n] : up[m]} -> Copies] :
       air' = [m \in Nodes |->
                 IF m \in DOMAIN copies
                 THEN [air[m] EXCEPT ![p] = @ + copies[m]]
                 ELSE air[m]]
  /\ sent' = [sent EXCEPT ![n][p.key] = @ + 1]

\* The receive loop takes a frame only when the handler of the last returned.
Takes(n, p) ==
  /\ up[n]
  /\ handling[n] = Idle
  /\ air[n][p] > 0
  /\ air' = [air EXCEPT ![n][p] = @ - 1]

-----------------------------------------------------------------------------
(* Router.handle and _schedule_relay *)

\* The timer armed for the crossing of that number, to send p with this ttl.
RelayTimer(p, ttl, number) ==
  [pkt |-> [key |-> p.key, ttl |-> ttl], at |-> now, no |-> number]

Arm(n, t) ==
  /\ timers'  = [timers EXCEPT ![n] = @ \cup {t}]
  /\ pending' = [pending EXCEPT ![n][t.pkt.key] = t]

\* Variant: a frame with one hop left is relayed with none.
ScheduleRelayAtEnd(n, p, number) ==
  IF p.ttl < 1
  THEN UNCHANGED <<timers, pending>>
  ELSE Arm(n, RelayTimer(p, p.ttl - 1, number))

\* Variant: the frame dies one hop early.
ScheduleRelayShort(n, p, number) ==
  IF p.ttl <= 2
  THEN UNCHANGED <<timers, pending>>
  ELSE Arm(n, RelayTimer(p, p.ttl - 1, number))

\* Variant: the frame keeps its ttl.
ScheduleRelayUndiminished(n, p, number) ==
  IF p.ttl <= 1
  THEN UNCHANGED <<timers, pending>>
  ELSE Arm(n, RelayTimer(p, p.ttl, number))

\* Variant: the handle of call_later is not kept.
ScheduleRelayUntracked(n, p, number) ==
  /\ IF p.ttl <= 1
     THEN UNCHANGED timers
     ELSE timers' = [timers EXCEPT ![n] =
                       @ \cup {RelayTimer(p, p.ttl - 1, number)}]
  /\ UNCHANGED pending

\* decrement_ttl gives nothing for a frame at the end of its life; otherwise a
\* timer is armed and takes the key's place in _pending_relays, whatever was
\* there before.
ScheduleRelay(n, p, number) ==
  IF p.ttl <= 1
  THEN UNCHANGED <<timers, pending>>
  ELSE Arm(n, RelayTimer(p, p.ttl - 1, number))

\* A frame already seen is dropped and a pending relay of it is cancelled.
HandleDuplicate(n, p) ==
  /\ Takes(n, p)
  /\ Knows(seen[n], p.key)
  /\ seen' = [seen EXCEPT ![n] = Expired(@)]
  /\ timers'  = [timers EXCEPT ![n] = @ \ {pending[n][p.key]}]
  /\ pending' = [pending EXCEPT ![n][p.key] = NoTimer]
  /\ UNCHANGED <<now, stops, up, handling, relays, store, origin, crossed,
                 sent>>

TakeNew(n, p) ==
  /\ Takes(n, p)
  /\ ~Knows(seen[n], p.key)
  /\ \E memory \in Recorded(seen[n], p.key) : seen' = [seen EXCEPT ![n] = memory]
  /\ crossed' = [crossed EXCEPT ![n][p.key] = @ + 1]
  /\ UNCHANGED <<now, stops, up, relays, store, origin, sent>>

\* A new frame for somebody else is scheduled at once.
HandlePassing(n, p) ==
  /\ TakeNew(n, p)
  /\ n \notin ForUs[p.key]
  /\ ScheduleRelay(n, p, crossed'[n][p.key])
  /\ UNCHANGED handling

\* A new frame for this node is delivered first; handle() waits for that.
HandleForUs(n, p) ==
  /\ TakeNew(n, p)
  /\ n \in ForUs[p.key]
  /\ handling' = [handling EXCEPT ![n] = p]
  /\ UNCHANGED <<timers, pending>>

DeliverReturns(n) ==
  /\ up[n]
  /\ handling[n] # Idle
  /\ ScheduleRelay(n, handling[n], crossed[n][handling[n].key])
  /\ handling' = [handling EXCEPT ![n] = Idle]
  /\ UNCHANGED <<now, stops, up, air, seen, relays, store, origin, crossed,
                 sent>>

\* An exception from the delivery ends handle() before it schedules; the
\* receive loop suppresses it.
DeliverRaises(n) ==
  /\ DeliverMayRaise
  /\ up[n]
  /\ handling[n] # Idle
  /\ handling' = [handling EXCEPT ![n] = Idle]
  /\ UNCHANGED <<now, stops, up, air, seen, timers, pending, relays, store,
                 origin, crossed, sent>>

-----------------------------------------------------------------------------
(* The relay itself *)

\* _fire_relay: the key leaves _pending_relays, whichever timer it named.
FireRelay(n) ==
  /\ \E t \in timers[n] :
       /\ timers'  = [timers EXCEPT ![n] = @ \ {t}]
       /\ pending' = [pending EXCEPT ![n][t.pkt.key] = NoTimer]
       /\ relays'  = [relays EXCEPT ![n] = @ \cup {t}]
  /\ UNCHANGED <<now, stops, up, air, seen, handling, store, origin, crossed,
                 sent>>

\* Variant: a relay that went out is tried again.
RelaySentAgain(n) ==
  /\ \E t \in relays[n] : Transmit(n, t.pkt)
  /\ UNCHANGED <<now, stops, up, seen, handling, timers, pending, relays, store,
                 origin, crossed>>

RelaySent(n) ==
  /\ \E t \in relays[n] :
       /\ relays' = [relays EXCEPT ![n] = @ \ {t}]
       /\ Transmit(n, t.pkt)
  /\ UNCHANGED <<now, stops, up, seen, handling, timers, pending, store,
                 origin, crossed>>

\* store(): at the capacity the oldest stored frame makes room.
Held(frames, p) ==
  Append(IF Len(frames) >= StoreCapacity THEN Tail(frames) ELSE frames, p)

RelayFails(n) ==
  /\ SendMayFail
  /\ \E t \in relays[n] :
       /\ relays' = [relays EXCEPT ![n] = @ \ {t}]
       /\ store' = IF StoreForward
                   THEN [store EXCEPT ![n] = Held(@, t.pkt)]
                   ELSE store
  /\ UNCHANGED <<now, stops, up, air, seen, handling, timers, pending,
                 origin, crossed, sent>>

-----------------------------------------------------------------------------
(* originate: the key is marked as seen before the frame is sent.  Nothing  *)
(* can be heard of the frame before it is sent, so the two are one step.    *)

MarkOwn(n, k) ==
  /\ up[n]
  /\ origin[k] = NoNode
  /\ origin' = [origin EXCEPT ![k] = n]
  /\ \E memory \in Recorded(seen[n], k) : seen' = [seen EXCEPT ![n] = memory]
  /\ crossed' = [crossed EXCEPT ![n][k] = @ + 1]
  /\ UNCHANGED <<now, stops, up, handling, timers, pending, relays, store>>

Originate(n, k) ==
  /\ MarkOwn(n, k)
  /\ Transmit(n, [key |-> k, ttl |-> InitTTL])

OriginateFails(n, k) ==
  /\ SendMayFail
  /\ MarkOwn(n, k)
  /\ UNCHANGED <<air, sent>>

-----------------------------------------------------------------------------
(* Life of a node and of time *)

\* Node.stop: the receive loop is cancelled, shutdown cancels the timers that
\* _pending_relays names and the relay tasks, and the transport leaves the
\* medium.  A timer that lost its place in _pending_relays goes on.
Stop(n) ==
  /\ up[n]
  /\ stops[n] < MaxStops
  /\ stops' = [stops EXCEPT ![n] = @ + 1]
  /\ up' = [up EXCEPT ![n] = FALSE]
  /\ handling' = [handling EXCEPT ![n] = Idle]
  /\ timers' = [timers EXCEPT ![n] = @ \ {pending[n][k] : k \in Keys}]
  /\ pending' = [pending EXCEPT ![n] = [k \in Keys |-> NoTimer]]
  /\ relays' = [relays EXCEPT ![n] = {}]
  /\ air' = [air EXCEPT ![n] = [p \in Packet |-> 0]]
  /\ UNCHANGED <<now, seen, store, origin, crossed, sent>>

\* A node that starts again is a new process: its memory is empty.
Start(n) ==
  /\ ~up[n]
  /\ up' = [up EXCEPT ![n] = TRUE]
  /\ seen' = [seen EXCEPT ![n] = [k \in Keys |-> Never]]
  /\ store' = [store EXCEPT ![n] = <<>>]
  /\ timers' = [timers EXCEPT ![n] = {}]
  /\ pending' = [pending EXCEPT ![n] = [k \in Keys |-> NoTimer]]
  /\ relays' = [relays EXCEPT ![n] = {}]
  /\ crossed' = [crossed EXCEPT ![n] = [k \in Keys |-> 0]]
  /\ sent' = [sent EXCEPT ![n] = [k \in Keys |-> 0]]
  /\ UNCHANGED <<now, stops, air, handling, origin>>

\* Time does not pass a timer that is due.
Tick ==
  /\ now < MaxTime
  /\ \A n \in Nodes : \A t \in timers[n] : now < t.at + JitterMax
  /\ now' = now + 1
  /\ UNCHANGED <<stops, up, air, seen, handling, timers, pending, relays,
                 store, origin, crossed, sent>>

-----------------------------------------------------------------------------
Init ==
  /\ now = 0
  /\ stops = [n \in Nodes |-> 0]
  /\ up = [n \in Nodes |-> TRUE]
  /\ air = [n \in Nodes |-> [p \in Packet |-> 0]]
  /\ seen = [n \in Nodes |-> [k \in Keys |-> Never]]
  /\ handling = [n \in Nodes |-> Idle]
  /\ timers = [n \in Nodes |-> {}]
  /\ pending = [n \in Nodes |-> [k \in Keys |-> NoTimer]]
  /\ relays = [n \in Nodes |-> {}]
  /\ store = [n \in Nodes |-> <<>>]
  /\ origin = [k \in Keys |-> NoNode]
  /\ crossed = [n \in Nodes |-> [k \in Keys |-> 0]]
  /\ sent = [n \in Nodes |-> [k \in Keys |-> 0]]

Handle(n) ==
  \E p \in Packet :
    HandleDuplicate(n, p) \/ HandlePassing(n, p) \/ HandleForUs(n, p)

Next ==
  \/ \E n \in Nodes, p \in Packet : HandleDuplicate(n, p)
  \/ \E n \in Nodes, p \in Packet : HandlePassing(n, p)
  \/ \E n \in Nodes, p \in Packet : HandleForUs(n, p)
  \/ \E n \in Nodes : DeliverReturns(n)
  \/ \E n \in Nodes : DeliverRaises(n)
  \/ \E n \in Nodes : FireRelay(n)
  \/ \E n \in Nodes : RelaySent(n)
  \/ \E n \in Nodes : RelayFails(n)
  \/ \E n \in Nodes, k \in Keys : Originate(n, k)
  \/ \E n \in Nodes, k \in Keys : OriginateFails(n, k)
  \/ \E n \in Nodes : Stop(n)
  \/ \E n \in Nodes : Start(n)
  \/ Tick

Spec == Init /\ [][Next]_vars

\* The event loop serves the queue of a running node, its timers and its
\* tasks; nothing makes a node originate, fail, stop or start.
Fairness ==
  \A n \in Nodes :
    /\ WF_vars(Handle(n))
    /\ WF_vars(DeliverReturns(n))
    /\ WF_vars(FireRelay(n))
    /\ WF_vars(RelaySent(n))

FairSpec == Spec /\ Fairness

-----------------------------------------------------------------------------
(* Properties *)

\* TTL bounds the diameter of the flood (router.py, module comment): no copy
\* of a frame is ever further from its origin than the hops it has spent, and
\* no router beyond the initial TTL takes it up, whatever is lost, duplicated,
\* stored or forgotten on the way.
WithinRadius ==
  \A n \in Nodes, k \in Keys : origin[k] # NoNode =>
    /\ \A ttl \in 1 .. InitTTL :
         air[n][[key |-> k, ttl |-> ttl]] > 0 =>
           Hops[origin[k]][n] + ttl <= InitTTL + 1
    /\ crossed[n][k] > 0 => Hops[origin[k]][n] <= InitTTL

\* A frame crosses a node once while the node remembers it (DedupCache): a
\* router that never has to evict records a key as new at most once in every
\* window longer than dedup_ttl_seconds.
CrossRate ==
  DedupCapacity >= Cardinality(Keys) =>
    \A n \in Nodes, k \in Keys :
      crossed[n][k] > 0 => (crossed[n][k] - 1) * (DedupTTL + 1) <= now

\* The flood is no storm (test_relay_does_not_storm): a router transmits a
\* frame at most once for every time it recorded it as new, what is stored,
\* waiting or being relayed included, and it never relays a frame of its own
\* that it still remembers.
NoStorm ==
  \A n \in Nodes, k \in Keys :
    LET of(timerSet) == Cardinality({t \in timerSet : t.pkt.key = k})
    IN  sent[n][k] + of(timers[n]) + of(relays[n]) <= crossed[n][k]

\* Every armed relay can still be cancelled: while a key has been new to the
\* router only once, its armed timer is the one _pending_relays names.
Cancellable ==
  \A n \in Nodes : \A t \in timers[n] :
    crossed[n][t.pkt.key] = 1 => pending[n][t.pkt.key] = t

\* The mesh carries a frame hop by hop to every node the TTL lets it reach
\* (router.py: every node that hears a new frame rebroadcasts it; suppression
\* is harmless because the other relay "reached the same neighbours").
FloodReaches ==
  \A k \in Keys, o, n \in Nodes :
    (sent[o][k] > 0 /\ origin[k] = o /\ Hops[o][n] <= InitTTL)
      ~> crossed[n][k] > 0
=============================================================================
