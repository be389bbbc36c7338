------------------------------ MODULE UdpGroup ------------------------------
(***************************************************************************)
(* The UDP multicast transport (radio/udp.py): every process of the group  *)
(* hears every datagram, its own included, and tells its own by a salt     *)
(* chosen when the transport is made.  The network may lose, repeat and    *)
(* delay datagrams, and others may send to the group too.                  *)
(***************************************************************************)
EXTENDS Integers, FiniteSets, Inbox

CONSTANTS
  Nodes,
  Salts,       \* what getrandbits(32) may be
  MaxSends,    \* frames one node sends
  MaxStarts,   \* starts of one node
  Lossless,    \* the network and the loss parameter drop nothing
  MaxRepeats,  \* datagrams the network delivers once more
  MaxForeign   \* datagrams from outside the group

UdpAssumption ==
  /\ IsFiniteSet(Nodes) /\ Salts # {}
  /\ MaxSends \in Nat /\ MaxStarts \in Nat
  /\ Lossless \in BOOLEAN
  /\ MaxRepeats \in Nat /\ MaxForeign \in Nat

\* A frame is its sender and a number; a datagram is a salt and a frame.
Frame == Nodes \X (1 .. MaxSends)
Junk == <<>>
Datagram == (Salts \X Frame) \cup {<<s, Junk>> : s \in Salts}

VARIABLES
  salt,     \* _session_salt
  box,      \* _queue, _running and the loop over frames()
  sends,    \* how many frames a node sent
  starts,   \* how often a node started
  wire,     \* datagrams on their way to a node
  heard,    \* the frames the loop was given
  owed,     \* who was up when a frame was sent, and must hear it without loss
  repeats, foreign

vars == <<salt, box, sends, starts, wire, heard, owed, repeats, foreign>>

Up(n) == box[n].running

-----------------------------------------------------------------------------
(* Steps *)

\* start
Start(n) ==
  /\ ~Up(n) /\ starts[n] < MaxStarts
  /\ box[n].loop \in {"off", "ended"}
  /\ box' = [box EXCEPT ![n] = Started(@)]
  /\ starts' = [starts EXCEPT ![n] = @ + 1]
  /\ UNCHANGED <<salt, sends, wire, heard, owed, repeats, foreign>>

\* send: the datagram is on its way to every member, by IP_MULTICAST_LOOP to
\* the sender too.
Send(n) ==
  /\ Up(n) /\ sends[n] < MaxSends
  /\ LET f == <<n, sends[n] + 1>>
         d == <<salt[n], f>>
     IN  /\ wire' = [k \in Nodes |-> IF Up(k) THEN wire[k] \cup {d} ELSE wire[k]]
         /\ owed' = [owed EXCEPT ![f] = {k \in Nodes \ {n} : Up(k)}]
  /\ sends' = [sends EXCEPT ![n] = @ + 1]
  /\ UNCHANGED <<salt, box, starts, heard, repeats, foreign>>

\* A datagram of another program, with anything in the place of the salt.
Foreign(n) ==
  /\ Up(n) /\ foreign < MaxForeign
  /\ \E s \in Salts : wire' = [wire EXCEPT ![n] = @ \cup {<<s, Junk>>}]
  /\ foreign' = foreign + 1
  /\ UNCHANGED <<salt, box, sends, starts, heard, owed, repeats>>

\* Variant: there is no salt to tell an echo by.
EchoNever(n, d) == FALSE

\* A datagram of one's own; what a datagram holds behind the salt.
Echo(n, d) == d[1] = salt[n]
Content(d) == d[2]

\* _deliver, reached from datagram_received.
Deliver(n) ==
  /\ \E d \in wire[n] :
       /\ \/ wire' = [wire EXCEPT ![n] = @ \ {d}] /\ UNCHANGED repeats
          \/ /\ repeats < MaxRepeats /\ repeats' = repeats + 1
             /\ UNCHANGED wire
       /\ box' = IF ~Up(n) \/ Echo(n, d) THEN box
                 ELSE [box EXCEPT ![n] = Filled(@, Content(d))]
  /\ UNCHANGED <<salt, sends, starts, heard, owed, foreign>>

\* The network, or _deliver by its loss parameter.
Lose(n) ==
  /\ ~Lossless
  /\ \E d \in wire[n] : wire' = [wire EXCEPT ![n] = @ \ {d}]
  /\ UNCHANGED <<salt, box, sends, starts, heard, owed, repeats, foreign>>

\* frames: the loop is given what get returned.
Read(n) ==
  /\ Readable(box[n])
  /\ heard' = [heard EXCEPT ![n] = @ \cup {Next1(box[n])[i] : i \in DOMAIN Next1(box[n])}]
  /\ box' = [box EXCEPT ![n] = Taken(@)]
  /\ UNCHANGED <<salt, sends, starts, wire, owed, repeats, foreign>>

Handle(n) ==
  /\ box[n].loop = "busy"
  /\ box' = [box EXCEPT ![n] = Handled(@)]
  /\ UNCHANGED <<salt, sends, starts, wire, heard, owed, repeats, foreign>>

\* Node.stop cancels its loop; whoever uses a transport alone does not.
Cancel(n) ==
  /\ Up(n) /\ box[n].loop \in {"waits", "busy"}
  /\ box' = [box EXCEPT ![n] = Cancelled(@)]
  /\ UNCHANGED <<salt, sends, starts, wire, heard, owed, repeats, foreign>>

\* stop: the socket is closed with whatever it holds.
Stop(n) ==
  /\ Up(n)
  /\ box' = [box EXCEPT ![n] = Stopped(@)]
  /\ wire' = [wire EXCEPT ![n] = {}]
  /\ owed' = [f \in Frame |-> owed[f] \ {n}]
  /\ UNCHANGED <<salt, sends, starts, heard, repeats, foreign>>

Init ==
  /\ salt \in [Nodes -> Salts]
  /\ box = [n \in Nodes |-> NewInbox]
  /\ sends = [n \in Nodes |-> 0]
  /\ starts = [n \in Nodes |-> 0]
  /\ wire = [n \in Nodes |-> {}]
  /\ heard = [n \in Nodes |-> {}]
  /\ owed = [f \in Frame |-> {}]
  /\ repeats = 0 /\ foreign = 0

Next ==
  \E n \in Nodes : \/ Start(n) \/ Send(n) \/ Foreign(n) \/ Deliver(n) \/ Lose(n)
                   \/ Read(n) \/ Handle(n) \/ Cancel(n) \/ Stop(n)

Spec == Init /\ [][Next]_vars

\* The event loop hands over what arrived and resumes who waits for it.
Fairness ==
  \A n \in Nodes : WF_vars(Deliver(n)) /\ WF_vars(Read(n)) /\ WF_vars(Handle(n))

FairSpec == Spec /\ Fairness

-----------------------------------------------------------------------------
(* Properties *)

\* The variables hold what the code's fields can hold; what is queued is a frame
\* without its salt (_deliver).
TypeOK ==
  /\ salt \in [Nodes -> Salts]
  /\ box \in [Nodes -> InboxOf({None} \cup {<<f>> : f \in Frame \cup {Junk}})]
  /\ sends \in [Nodes -> 0 .. MaxSends] /\ starts \in [Nodes -> 0 .. MaxStarts]
  /\ wire \in [Nodes -> SUBSET Datagram]
  /\ heard \in [Nodes -> SUBSET (Frame \cup {Junk})]
  /\ owed \in [Frame -> SUBSET Nodes]
  /\ repeats \in 0 .. MaxRepeats /\ foreign \in 0 .. MaxForeign

\* A node never hears what it sent itself, however late or often the group
\* brings it back (the salt; send, _deliver).
NoEcho == \A n \in Nodes : \A f \in heard[n] \cap Frame : f[1] # n

\* On a network that loses nothing, a frame is heard by every node that was up
\* when it was sent and has not been stopped, unless its loop was cancelled or
\* the two chose the same salt (send, _deliver, frames).
HearsOthers ==
  \A n \in Nodes : \A f \in Frame :
    n \in owed[f] /\ salt[n] # salt[f[1]]
      ~> f \in heard[n] \/ n \notin owed[f] \/ box[n].loop = "off"

\* A loop that waits for frames when the transport is stopped ends: nobody is
\* left waiting for a closed link (stop, frames).
StopEndsLoop ==
  \A n \in Nodes : ~Up(n) ~> Up(n) \/ box[n].loop \in {"off", "ended"}
=============================================================================
