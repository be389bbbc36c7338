----------------------------- MODULE Reassembly -----------------------------
(***************************************************************************)
(* The Reassembler of a node (wire/fragment.py): fragments come in any     *)
(* order, late, more than once, or never, and a partial message is kept    *)
(* within bounds on their number, their bytes and their age.               *)
(***************************************************************************)
EXTENDS Integers, Sequences, FiniteSetsExt

CONSTANTS
  Fragments,   \* the fragments there are, as Fragment records
  MaxPending,  \* MAX_PENDING_MESSAGES
  MaxBytes,    \* MAX_MESSAGE_BYTES
  Timeout,     \* REASSEMBLY_TIMEOUT
  MaxTime,     \* bound on the clock
  MaxCopies    \* bound on how often one fragment arrives

\* What add() looks at in a packet; validate() has checked the numbers.
Fragment(f) ==
  /\ DOMAIN f = {"id", "index", "count", "type", "size"}
  /\ f.count \in Nat \ {0} /\ f.index \in 0 .. f.count - 1 /\ f.size \in Nat

ASSUME ReassemblyAssumption ==
  /\ IsFiniteSet(Fragments)
  /\ \A f \in Fragments : Fragment(f)
  /\ MaxPending \in Nat \ {0}
  /\ {MaxBytes, Timeout, MaxTime, MaxCopies} \subseteq Nat

Ids == {f.id : f \in Fragments}

\* _Partial, with its key.  _pending is a dictionary, in the order in which
\* its entries were made.
Partial == [id : Ids, count : Nat, type : {f.type : f \in Fragments},
            fragments : SUBSET Fragments, bytes : Nat, first : 0 .. MaxTime]

VARIABLES
  pending,   \* Reassembler._pending
  now,       \* the clock
  swept,     \* when _expire last ran
  arrived,   \* when each fragment arrived                (history)
  returned   \* the messages returned, as sets of fragments, with how often
             \* each was                                  (history)

vars == <<pending, now, swept, arrived, returned>>

\* The variables hold what the fields of the code can hold.
TypeOK ==
  /\ pending \in Seq(Partial)
  /\ now \in 0 .. MaxTime /\ swept \in 0 .. now
  /\ arrived \in [Fragments -> Seq(0 .. MaxTime)]
  /\ \A m \in DOMAIN returned : m \subseteq Fragments /\ returned[m] \in Nat \ {0}

-----------------------------------------------------------------------------
SumSizes(fs) == MapThenSumSet(LAMBDA f : f.size, fs)

\* What a sequence has at the places in I, in their order.
Chosen(p, I) ==
  LET place == CHOOSE f \in [1 .. Cardinality(I) -> I] :
                 \A j, k \in DOMAIN f : j < k => f[j] < f[k]
  IN  [k \in 1 .. Cardinality(I) |-> p[place[k]]]

\* _expire
Unexpired(p) == Chosen(p, {i \in DOMAIN p : now - p[i].first <= Timeout})

\* The entry of an id, and the others.
HasEntry(p, id) == \E i \in DOMAIN p : p[i].id = id
EntryOf(p, id) == p[CHOOSE i \in DOMAIN p : p[i].id = id]
Without(p, id) == Chosen(p, {i \in DOMAIN p : p[i].id # id})

\* Variant: the newest is dropped.
EvictedNewest(p) == IF Len(p) < MaxPending THEN p ELSE SubSeq(p, 1, Len(p) - 1)

\* Room for one more: the entry with the smallest first_seen goes, the one that
\* was made first if there are several.
Evicted(p) ==
  IF Len(p) < MaxPending THEN p
  ELSE LET oldest == {i \in DOMAIN p : \A j \in DOMAIN p : p[i].first <= p[j].first}
       IN  Without(p, p[Min(oldest)].id)

\* The entries with one for f: the one there is, or a new one.
WithEntry(p, f) ==
  IF HasEntry(p, f.id) THEN p
  ELSE Append(Evicted(p), [id |-> f.id, count |-> f.count, type |-> f.type,
                           fragments |-> {}, bytes |-> 0, first |-> now])

Added(e, f) == [e EXCEPT !.fragments = @ \cup {f}, !.bytes = @ + f.size]

Replaced(p, e) == [i \in DOMAIN p |-> IF p[i].id = e.id THEN e ELSE p[i]]

Inconsistent(e, f) == e.count # f.count \/ e.type # f.type
TooLarge(e, f) == e.bytes + f.size > MaxBytes
Has(e, f) == \E g \in e.fragments : g.index = f.index

Complete(e) == Cardinality(e.fragments) = e.count

Return(fs) ==
  returned' = [m \in DOMAIN returned \cup {fs} |->
                 (IF m \in DOMAIN returned THEN returned[m] ELSE 0)
                   + (IF m = fs THEN 1 ELSE 0)]

\* What every call does first.
Call(f) ==
  /\ Len(arrived[f]) < MaxCopies
  /\ arrived' = [arrived EXCEPT ![f] = Append(@, now)]
  /\ swept' = now
  /\ UNCHANGED now

\* The entries when the fragment is looked at, and its own.
Entries(f) == WithEntry(Unexpired(pending), f)
Entry(f) == EntryOf(Entries(f), f.id)

AddWhole(f) ==
  /\ f.count = 1
  /\ Call(f)
  /\ pending' = Unexpired(pending)
  /\ Return({f})

\* ReassemblyError: the partial message is discarded.
AddRaises(f) ==
  /\ f.count > 1
  /\ Call(f)
  /\ \/ Inconsistent(Entry(f), f)
     \/ ~Has(Entry(f), f) /\ TooLarge(Entry(f), f)
  /\ pending' = Without(Entries(f), f.id)
  /\ UNCHANGED returned

AddDuplicate(f) ==
  /\ f.count > 1
  /\ Call(f)
  /\ ~Inconsistent(Entry(f), f) /\ Has(Entry(f), f)
  /\ pending' = Entries(f)
  /\ UNCHANGED returned

\* Variant: the rest of a complete message stays behind.
AddPartLeaves(f) ==
  LET e == Added(Entry(f), f)
  IN  /\ f.count > 1
      /\ Call(f)
      /\ ~Inconsistent(Entry(f), f) /\ ~Has(Entry(f), f) /\ ~TooLarge(Entry(f), f)
      /\ IF Complete(e)
         THEN /\ pending' = Entries(f)
              /\ Return(e.fragments)
         ELSE /\ pending' = Replaced(Entries(f), e)
              /\ UNCHANGED returned

AddPart(f) ==
  LET e == Added(Entry(f), f)
  IN  /\ f.count > 1
      /\ Call(f)
      /\ ~Inconsistent(Entry(f), f) /\ ~Has(Entry(f), f) /\ ~TooLarge(Entry(f), f)
      /\ IF Complete(e)
         THEN /\ pending' = Without(Entries(f), f.id)
              /\ Return(e.fragments)
         ELSE /\ pending' = Replaced(Entries(f), e)
              /\ UNCHANGED returned

Tick ==
  /\ now < MaxTime
  /\ now' = now + 1
  /\ UNCHANGED <<pending, swept, arrived, returned>>

Init ==
  /\ pending = << >>
  /\ now = 0 /\ swept = 0
  /\ arrived = [f \in Fragments |-> << >>]
  /\ returned = << >>

Next ==
  \/ \E f \in Fragments : AddWhole(f)
  \/ \E f \in Fragments : AddRaises(f)
  \/ \E f \in Fragments : AddDuplicate(f)
  \/ \E f \in Fragments : AddPart(f)
  \/ Tick

Spec == Init /\ [][Next]_vars

-----------------------------------------------------------------------------
(* Properties *)

\* The buffer is bounded three ways, as the module says: in partial messages, in
\* the bytes each really holds, and in their age when it was last used.
Bounded ==
  /\ Len(pending) <= MaxPending
  /\ \A i \in DOMAIN pending :
       /\ SumSizes(pending[i].fragments) <= MaxBytes
       /\ swept - pending[i].first <= Timeout

\* What add() returns is one message: every index once, all fragments of one
\* count and type, within the limit, whatever other fragments of the msg_id came
\* between.
OneMessage ==
  \A m \in DOMAIN returned : \A f, g \in m :
    /\ f.id = g.id /\ f.count = g.count /\ f.type = g.type
    /\ f.index = g.index => f = g
    /\ Cardinality(m) = f.count
    /\ f.count > 1 => SumSizes(m) <= MaxBytes

\* Every return uses up an arrival of each of its fragments: a late copy of a
\* fragment does not bring a message out again.
NoEcho ==
  \A f \in Fragments :
    MapThenSumSet(LAMBDA m : returned[m], {m \in DOMAIN returned : f \in m})
      <= Len(arrived[f])

\* The fragments of a message, and the time from the first to the last of them.
Message(id) == {f \in Fragments : f.id = id}
Times(id) == {arrived[f][1] : f \in Message(id)}

\* Another message of which a fragment arrived in that time.
Busy(id, other) ==
  /\ other # id
  /\ \E f \in Message(other) :
       /\ f.count > 1
       /\ \E i \in DOMAIN arrived[f] : arrived[f][i] \in Min(Times(id)) .. Max(Times(id))

\* A message whose fragments all came, once each, within the timeout, while
\* fewer than MAX_PENDING_MESSAGES others were under way, comes out: neither
\* the sweep nor an eviction nor a leftover of another message takes it
\* (Reassembler.add).
InTimeComesOut ==
  \A id \in Ids :
    /\ \A f, g \in Message(id) :
         /\ Len(arrived[f]) = 1
         /\ f.count = g.count /\ f.type = g.type
         /\ f.index = g.index => f = g
    /\ \A f \in Message(id) : Cardinality(Message(id)) = f.count
    /\ Max(Times(id)) - Min(Times(id)) <= Timeout
    /\ Cardinality({other \in Ids : Busy(id, other)}) < MaxPending
    /\ SumSizes(Message(id)) <= MaxBytes
    => Message(id) \in DOMAIN returned
=============================================================================
