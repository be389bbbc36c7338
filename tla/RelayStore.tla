----------------------------- MODULE RelayStore -----------------------------
(***************************************************************************)
(* The store-and-forward buffer of one router (chatbit/mesh/router.py):    *)
(* store(), which failing relays call, and replay_store() and              *)
(* purge_store(), which anybody may call, also while a replay waits for    *)
(* the radio.                                                              *)
(*                                                                         *)
(* _store is a reference to a list object.  store() changes the object in  *)
(* place; replay_store() walks over the object it found when it started,   *)
(* by position, as a Python list iterator does, and in the end makes       *)
(* _store refer to the list of what it could not send; purge_store() makes *)
(* it refer to a filtered copy.                                            *)
(***************************************************************************)
EXTENDS Integers, Sequences, FiniteSets

CONSTANTS
  Frames,         \* the frames that relays fail to send, each stored once
  Replays,        \* the calls of replay_store that may overlap
  StoreForward,   \* MeshConfig.store_forward
  StoreCapacity,  \* MeshConfig.store_capacity
  StoreTTL,       \* MeshConfig.store_ttl_seconds
  Idle,           \* no replay under way  (a model value)
  MaxLists,       \* bound on the list objects that are made
  MaxTime         \* bound on the clock

RelayStoreAssumption ==
  /\ StoreForward \in BOOLEAN
  /\ StoreCapacity \in Nat \ {0}
  /\ StoreTTL \in Nat
  /\ MaxLists \in Nat \ {0}
  /\ MaxTime \in Nat

Entry == [frame : Frames, at : 0 .. MaxTime]   \* _StoredFrame

\* A replay that waits for the radio: the list it walks, the position its
\* iterator goes on from, the entry on the radio, what it keeps, and the time
\* it read when it started.
Replay == [list : 1 .. MaxLists, next : Nat, sending : Entry,
           keep : Seq(Entry), now : 0 .. MaxTime]

IdleAssumption == Idle \notin Replay

VARIABLES
  now,         \* the clock
  lists,       \* lists[i]: the contents of list object i
  made,        \* how many list objects there are; the last is Router._store
  replaying,   \* replaying[r]: replay_store call r
  stored,      \* the frames ever stored                          (history)
  sent,        \* the frames a replay transmitted                 (history)
  evicted,     \* the frames that made room at the capacity       (history)
  outdated,    \* the frames dropped for their age                (history)
  interfered   \* whether the store was changed under a replay    (history)

vars == <<now, lists, made, replaying, stored, sent, evicted, outdated,
          interfered>>

\* The variables hold what the code's fields can hold.
TypeOK ==
  /\ now \in 0 .. MaxTime
  /\ lists \in [1 .. MaxLists -> Seq(Entry)]
  /\ made \in 1 .. MaxLists
  /\ replaying \in [Replays -> Replay \cup {Idle}]
  /\ stored \subseteq Frames
  /\ sent \subseteq stored
  /\ evicted \subseteq stored
  /\ outdated \subseteq stored
  /\ interfered \in BOOLEAN

\* Router._store
Store == lists[made]

Active == {r \in Replays : replaying[r] # Idle}

FramesOf(entries) == {entries[i].frame : i \in DOMAIN entries}

Outdated(e, t) == t - e.at > StoreTTL

\* _store = entries
Rebind(entries) ==
  /\ made < MaxLists
  /\ made' = made + 1
  /\ lists' = [lists EXCEPT ![made + 1] = entries]

-----------------------------------------------------------------------------
\* At the capacity the oldest frame is taken out.
Room(entries) == IF Len(entries) >= StoreCapacity THEN Tail(entries) ELSE entries

\* store(): changes the list object _store refers to.
StoreFrame(f) ==
  /\ StoreForward
  /\ f \notin stored
  /\ lists' = [lists EXCEPT ![made] = Append(Room(@), [frame |-> f, at |-> now])]
  /\ stored' = stored \cup {f}
  /\ evicted' = evicted \cup (FramesOf(Store) \ FramesOf(Room(Store)))
  /\ interfered' = (interfered \/ (Active # {} /\ Room(Store) # Store))
  /\ UNCHANGED <<now, made, replaying, sent, outdated>>

-----------------------------------------------------------------------------
(* replay_store() *)

\* The positions from which a replay with that clock finds something to send.
ToSend(list, from, t) ==
  {i \in from .. Len(lists[list]) : ~Outdated(lists[list][i], t)}

\* The replay runs until it waits for the radio again, or to its end.
Proceed(r, list, from, keep, t) ==
  LET todo == ToSend(list, from, t)
      next == CHOOSE i \in todo : \A j \in todo : i <= j
      end  == IF todo = {} THEN Len(lists[list]) + 1 ELSE next
      old  == {lists[list][i].frame : i \in from .. end - 1}
  IN  /\ outdated' = outdated \cup old
      /\ IF todo = {}
         THEN /\ Rebind(keep)
              /\ replaying' = [replaying EXCEPT ![r] = Idle]
         ELSE /\ replaying' = [replaying EXCEPT ![r] =
                   [list |-> list, next |-> next + 1,
                    sending |-> lists[list][next], keep |-> keep, now |-> t]]
              /\ UNCHANGED <<made, lists>>

StartReplay(r) ==
  /\ replaying[r] = Idle
  /\ interfered' = (interfered \/ Active # {})
  /\ Proceed(r, made, 1, <<>>, now)
  /\ UNCHANGED <<now, stored, sent, evicted>>

\* Variant: what cannot be sent is dropped.
KeptNot(me) == me.keep

\* What cannot be sent is kept.
Kept(me) == Append(me.keep, me.sending)

SendSucceeds(r) ==
  /\ replaying[r] # Idle
  /\ LET me == replaying[r]
     IN  /\ sent' = sent \cup {me.sending.frame}
         /\ Proceed(r, me.list, me.next, me.keep, me.now)
  /\ UNCHANGED <<now, stored, evicted, interfered>>

SendFails(r) ==
  /\ replaying[r] # Idle
  /\ LET me == replaying[r]
     IN  Proceed(r, me.list, me.next, Kept(me), me.now)
  /\ UNCHANGED <<now, stored, sent, evicted, interfered>>

-----------------------------------------------------------------------------
\* What a sequence has at the places in I, in their order.
Chosen(p, I) ==
  LET place == CHOOSE f \in [1 .. Cardinality(I) -> I] :
                 \A j, k \in DOMAIN f : j < k => f[j] < f[k]
  IN  [k \in 1 .. Cardinality(I) |-> p[place[k]]]

\* purge_store()
Purge ==
  LET fresh == {i \in DOMAIN Store : ~Outdated(Store[i], now)}
  IN  /\ Rebind(Chosen(Store, fresh))
      /\ outdated' = outdated \cup {Store[i].frame : i \in DOMAIN Store \ fresh}
      /\ interfered' = (interfered \/ Active # {})
      /\ UNCHANGED <<now, replaying, stored, sent, evicted>>

Tick ==
  /\ now < MaxTime
  /\ now' = now + 1
  /\ UNCHANGED <<lists, made, replaying, stored, sent, evicted, outdated,
                 interfered>>

-----------------------------------------------------------------------------
Init ==
  /\ now = 0
  /\ lists = [i \in 1 .. MaxLists |-> <<>>]
  /\ made = 1
  /\ replaying = [r \in Replays |-> Idle]
  /\ stored = {}
  /\ sent = {}
  /\ evicted = {}
  /\ outdated = {}
  /\ interfered = FALSE

Next ==
  \/ \E f \in Frames : StoreFrame(f)
  \/ \E r \in Replays : StartReplay(r)
  \/ \E r \in Replays : SendSucceeds(r)
  \/ \E r \in Replays : SendFails(r)
  \/ Purge
  \/ Tick

Spec == Init /\ [][Next]_vars

-----------------------------------------------------------------------------
(* Properties *)

\* A long outage does not grow memory without bound (test_store_respects_
\* capacity), whatever overlaps: neither the store nor what a replay has put
\* aside for it is ever larger than the capacity.
StoreBounded ==
  /\ Len(Store) <= StoreCapacity
  /\ \A r \in Active : Len(replaying[r].keep) <= StoreCapacity

\* "Oldest out": the list stays in the order in which frames were stored, so
\* what is taken from its front is the oldest, also after a replay has put
\* back what it kept.
OldestFirst ==
  \A i, j \in DOMAIN Store : i <= j => Store[i].at <= Store[j].at

\* While nothing takes a frame out of the list under a replay, every frame
\* that was stored is held, was sent, or left for its age or for room.
Accounted ==
  ~interfered =>
    stored \subseteq
      FramesOf(Store) \cup sent \cup evicted \cup outdated
        \cup UNION {FramesOf(replaying[r].keep) : r \in Active}

\* A frame is not held twice once it was replayed (test_failed_relay_is_
\* stored_then_replayed): without interference, no sent frame is still in the
\* store when the replay is over, and none is put aside to be sent again.
SentIsNotHeld ==
  ~interfered =>
    /\ Active = {} => FramesOf(Store) \cap sent = {}
    /\ \A r \in Active : FramesOf(replaying[r].keep) \cap sent = {}

\* "Replay attempts must not silently discard the backlog"
\* (test_frames_are_held_while_the_link_stays_down): when no replay is under
\* way, a stored frame is held, was sent, made room for another or is too old.
\* A relay that fails during a replay and finds the store full breaks it: the
\* list moves under the iterator, which skips a frame and then drops it.
BacklogKept ==
  Active = {} =>
    stored \subseteq FramesOf(Store) \cup sent \cup evicted \cup outdated
=============================================================================
