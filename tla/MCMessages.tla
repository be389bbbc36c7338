----------------------------- MODULE MCMessages -----------------------------
(***************************************************************************)
(* What becomes of messages, fragments and frames within the nodes, for    *)
(* TLC.  component says what a behaviour is about:                         *)
(*   "late"   the Reassembler (Reassembly), fragments of four messages at  *)
(*            any time, each once;                                         *)
(*   "mixed"  the Reassembler, fragments that contradict each other and    *)
(*            come again;                                                  *)
(*   "path"   one message on a path that loses nothing (Frames);           *)
(*   "cut"    one message on a path whose frames lose their end;           *)
(*   "store"  the frames a router could not relay (RelayStore).            *)
(***************************************************************************)
EXTENDS Reassembly, TLC

CONSTANTS m1, m2, m3, m4,  \* four messages
          Idle             \* no replay under way  (model values)

VARIABLES
  component,
  mtu, policy, length, ttl, up, refused, emitted, toSend, air, taken, held,
  clock, lists, made, replaying, buffered, replayed, evicted, outdated, interfered

framesVars == <<mtu, policy, length, ttl, up, refused, emitted, toSend, air,
                taken, held>>
storeVars == <<clock, lists, made, replaying, buffered, replayed, evicted,
               outdated, interfered>>

Part(id, index, count, type, size) ==
  [id |-> id, index |-> index, count |-> count, type |-> type, size |-> size]

\* Four messages of two fragments each, which are alike.
Messages4 == {Part(id, i, 2, "DATA", 1) : id \in {m1, m2, m3, m4}, i \in 0 .. 1}
Symmetric == Permutations({m1, m2, m3, m4})

\* A message of two and one of one, and fragments that claim to belong to the
\* first but disagree about its count, its type or its size.
Contradicting ==
  {Part("x", 0, 2, "DATA", 1), Part("x", 1, 2, "DATA", 2),
   Part("x", 2, 3, "DATA", 1), Part("x", 1, 2, "BEACON", 1),
   Part("x", 0, 2, "DATA", 3), Part("y", 0, 1, "DATA", 1)}

Mixed == INSTANCE Reassembly
  WITH Fragments <- Contradicting, Timeout <- 0, MaxTime <- 1, MaxCopies <- 2

\* A header of 2 bytes, and MTUs with room for one byte or for a few.
Path == INSTANCE Frames
  WITH Hops <- 3, HeaderLen <- 2, MaxFragments <- 3, MaxTtl <- 2,
       Buckets <- {4, 7}, Mtus <- {3, 5, 6}, Lengths <- {0, 3, 4},
       Ttls <- 0 .. 3, Cuts <- FALSE

\* The same with MTUs of which one leaves no room.
Cut == INSTANCE Frames
  WITH Hops <- 3, HeaderLen <- 2, MaxFragments <- 3, MaxTtl <- 2,
       Buckets <- {4, 7}, Mtus <- {2, 3, 5}, Lengths <- {0, 3, 4},
       Ttls <- 0 .. 2, Cuts <- TRUE

\* Three frames, room for two, and two replays that may overlap.
Store == INSTANCE RelayStore
  WITH Frames <- {"f1", "f2", "f3"}, Replays <- {"r1", "r2"},
       StoreForward <- TRUE, StoreCapacity <- 2, StoreTTL <- 0,
       MaxLists <- 3, MaxTime <- 1,
       now <- clock, stored <- buffered, sent <- replayed

ASSUME Store!RelayStoreAssumption
ASSUME Store!IdleAssumption
ASSUME Mixed!ReassemblyAssumption
ASSUME Path!FramesAssumption
ASSUME Cut!FramesAssumption

\* Where Frames takes no steps, one configuration is enough.
OneConfiguration ==
  /\ mtu = <<3, 3, 3>> /\ policy = <<"none", "none", "none">>
  /\ length = 0 /\ ttl = 0

MCInit ==
  /\ Store!Init
  /\ \/ component \in {"late", "store"} /\ Init /\ OneConfiguration /\ Path!Init
     \/ component = "mixed" /\ Mixed!Init /\ OneConfiguration /\ Path!Init
     \/ component = "path" /\ Init /\ Path!Init
     \/ component = "cut" /\ Init /\ Cut!Init

MCNext ==
  /\ UNCHANGED component
  /\ \/ component = "late" /\ Next /\ UNCHANGED <<framesVars, storeVars>>
     \/ component = "mixed" /\ Mixed!Next /\ UNCHANGED <<framesVars, storeVars>>
     \/ component = "path" /\ Path!Next /\ UNCHANGED <<vars, storeVars>>
     \/ component = "cut" /\ Cut!Next /\ UNCHANGED <<vars, storeVars>>
     \/ component = "store" /\ Store!Next /\ UNCHANGED <<vars, framesVars>>

MCSpec == MCInit /\ [][MCNext]_<<component, vars, framesVars, storeVars>>

-----------------------------------------------------------------------------
(* Properties of the modules, under the names the run uses *)

\* No message that had its room and its time is lost to the sweep, an eviction
\* or a leftover of another one (Reassembler.add).
InTime == component = "late" => InTimeComesOut

\* Whatever contradicts, repeats or is too large: what comes out is one message,
\* no more often than its fragments came in, and the buffer stays within its
\* three bounds (Reassembler.add, _expire).
OnceAndWhole ==
  /\ component = "late" => TypeOK /\ Bounded
  /\ component = "mixed" => Mixed!TypeOK /\ Mixed!OneMessage /\ Mixed!NoEcho

\* Only a frame of a link with a larger MTU is ever too large for a node's own
\* link (capacity_for, fragment, padded_size).
FitsTheLink == component = "path" => Path!FitsTheLink

\* A message that was cut reaches every node its TTL allows, as a whole, where no
\* MTU on the way is smaller (_emit, _transmit, _do_relay).
CrossesPath == component = "path" => Path!CrossesPath

\* What a node decodes is a fragment as it was cut, and all of them together are
\* the message, each byte once, also where frames lose their end (decode,
\* fragment, _Partial.assemble).
ArrivesAsCut ==
  /\ component = "path" => Path!ArrivesAsCut /\ Path!TilesMessage
  /\ component = "cut" => Cut!TypeOK /\ Cut!ArrivesAsCut /\ Cut!TilesMessage
\* Whatever overlaps, the store of a router stays bounded and in the order of
\* storing; and while nothing but replays changes it, no frame disappears from
\* it without being sent, outdated or making room, and none is sent twice
\* (store, replay_store, purge_store).
StoreSound ==
  component = "store" =>
    /\ Store!TypeOK
    /\ Store!StoreBounded
    /\ Store!OldestFirst
    /\ Store!Accounted
    /\ Store!SentIsNotHeld
=============================================================================
