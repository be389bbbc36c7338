----------------------------- MODULE SerialLink -----------------------------
(***************************************************************************)
(* How frames come off a serial radio with the SLIP driver (radio/lora.py):*)
(* the board writes each frame between END bytes, the serial line loses    *)
(* bytes and carries bytes of nobody, a thread reads and decodes them into *)
(* a queue, a task moves them to the queue of the event loop, and frames() *)
(* gives them to the receive loop.                                         *)
(***************************************************************************)
EXTENDS Integers, FiniteSets, SequencesExt, Inbox

CONSTANTS
  End, Esc, EscEnd, EscEsc,  \* SLIP_END, SLIP_ESC, SLIP_ESC_END, SLIP_ESC_ESC
  Plain,       \* a byte that is none of them
  Payloads,    \* the frames the board may write
  MaxFrames,   \* frames the board writes
  MaxNoise     \* bytes lost, and bytes of nobody

ASSUME SerialAssumption ==
  /\ Cardinality({End, Esc, EscEnd, EscEsc, Plain}) = 5
  /\ Payloads \subseteq Seq({End, Esc, EscEnd, EscEsc, Plain})
  /\ <<>> \notin Payloads
  /\ MaxFrames \in Nat /\ MaxNoise \in Nat

Bytes == {End, Esc, EscEnd, EscEsc, Plain}

\* A byte on the line, the frame it is of (0: nobody's) and whether it is the
\* frame's first or last.
Nobody == 0
OnLine == [byte : Bytes, of : 0 .. MaxFrames, first : BOOLEAN, last : BOOLEAN]

VARIABLES
  written,  \* the frames the board wrote
  line,     \* the bytes on their way
  whole,    \* the frames no byte of which was lost or preceded by a stranger
  read,     \* the frames whose last byte was read
  buf, escaped,  \* SlipCodec._buf, _escaped
  out,      \* what the decoder gave, and with the last byte of which frame
  reader,   \* _read_loop: "off", "runs", or "dead"
  rx,       \* _rx_queue
  pump,     \* _pump: "off", "asks", "puts", or "cancelled"
  hand,     \* what the thread of _pump got
  box,      \* _async_queue, _running and the loop over frames()
  heard,    \* what the loop was given
  noise

codec == <<buf, escaped>>
vars == <<written, line, whole, read, codec, out, reader, rx, pump, hand, box, heard, noise>>

-----------------------------------------------------------------------------
(* The codec *)

Escaped(b) ==
  CASE b = End -> <<Esc, EscEnd>>
    [] b = Esc -> <<Esc, EscEsc>>
    [] OTHER -> <<b>>

\* Variant: a frame has no END before it.
EncodedNoLead(p) == FlattenSeq([i \in DOMAIN p |-> Escaped(p[i])]) \o <<End>>

\* SlipCodec.encode, and the sketch of docs/firmware.md.
Encoded(p) == <<End>> \o FlattenSeq([i \in DOMAIN p |-> Escaped(p[i])]) \o <<End>>

\* SlipCodec.feed: what an END brings out.
Ended(so) == IF so = <<>> THEN <<>> ELSE <<so>>

\* A step of SlipCodec.feed: what _buf and _escaped become, and what comes out.
Fed(b, so, esc) ==
  IF esc THEN
    [buf |-> CASE b = EscEnd -> Append(so, End)
               [] b = EscEsc -> Append(so, Esc)
               [] OTHER -> <<>>,
     escaped |-> FALSE, frames |-> <<>>]
  ELSE CASE b = Esc -> [buf |-> so, escaped |-> TRUE, frames |-> <<>>]
         [] b = End -> [buf |-> <<>>, escaped |-> FALSE, frames |-> Ended(so)]
         [] OTHER -> [buf |-> Append(so, b), escaped |-> FALSE, frames |-> <<>>]

-----------------------------------------------------------------------------
(* The board and the line *)

Write ==
  /\ Len(written) < MaxFrames
  /\ \E p \in Payloads :
       LET bytes == Encoded(p)
           k == Len(written) + 1
       IN  /\ written' = Append(written, p)
           /\ line' = line \o [i \in DOMAIN bytes |->
                [byte |-> bytes[i], of |-> k, first |-> i = 1, last |-> i = Len(bytes)]]
           /\ whole' = whole \cup {k}
  /\ UNCHANGED <<read, codec, out, reader, rx, pump, hand, box, heard, noise>>

\* A byte is lost on its way.
LoseByte ==
  /\ line # <<>> /\ noise < MaxNoise
  /\ whole' = whole \ {Head(line).of}
  /\ line' = Tail(line)
  /\ noise' = noise + 1
  /\ UNCHANGED <<written, read, codec, out, reader, rx, pump, hand, box, heard>>

\* A byte of nobody comes before the next one; the board prints something.
StrangeByte ==
  /\ noise < MaxNoise
  /\ \E b \in Bytes :
       line' = <<[byte |-> b, of |-> Nobody, first |-> FALSE, last |-> FALSE]>> \o line
  /\ whole' = IF line = <<>> \/ Head(line).first THEN whole ELSE whole \ {Head(line).of}
  /\ noise' = noise + 1
  /\ UNCHANGED <<written, read, codec, out, reader, rx, pump, hand, box, heard>>

-----------------------------------------------------------------------------
(* The transport *)

Start ==
  /\ reader = "off" /\ ~box.running /\ box.queue = <<>>
  /\ reader' = "runs" /\ pump' = "asks"
  /\ box' = Started(box)
  /\ UNCHANGED <<written, line, whole, read, codec, out, rx, hand, heard, noise>>

\* _read_loop, one byte of a chunk.
Feed ==
  /\ reader = "runs" /\ line # <<>>
  /\ LET b == Head(line)
         fed == Fed(b.byte, buf, escaped)
     IN  /\ buf' = fed.buf /\ escaped' = fed.escaped
         /\ rx' = rx \o fed.frames
         /\ out' = out \o [i \in DOMAIN fed.frames |-> [data |-> fed.frames[i], of |-> b.of]]
         /\ read' = IF b.last THEN read \cup {b.of} ELSE read
  /\ line' = Tail(line)
  /\ UNCHANGED <<written, whole, reader, pump, hand, box, heard, noise>>

\* _read_loop leaves its loop: stopped, or read() raised.
ReaderEnds ==
  /\ reader = "runs" /\ (~box.running \/ noise < MaxNoise)
  /\ reader' = "dead"
  /\ noise' = IF box.running THEN noise + 1 ELSE noise
  /\ UNCHANGED <<written, line, whole, read, codec, out, rx, pump, hand, box, heard>>

\* _pump: the thread gets an item.
PumpGets ==
  /\ pump = "asks" /\ rx # <<>>
  /\ hand' = <<Head(rx)>> /\ rx' = Tail(rx)
  /\ pump' = "puts"
  /\ UNCHANGED <<written, line, whole, read, codec, out, reader, box, heard, noise>>

\* Variant: the item goes in only if nothing waits there.
PumpPutsIfEmpty ==
  /\ pump = "puts"
  /\ box' = IF box.queue = <<>> THEN Filled(box, hand[1]) ELSE box
  /\ hand' = <<>> /\ pump' = "asks"
  /\ UNCHANGED <<written, line, whole, read, codec, out, reader, rx, heard, noise>>

\* _pump: the item goes to the event loop's queue.
PumpPuts ==
  /\ pump = "puts"
  /\ box' = Filled(box, hand[1])
  /\ hand' = <<>> /\ pump' = "asks"
  /\ UNCHANGED <<written, line, whole, read, codec, out, reader, rx, heard, noise>>

\* frames
Read ==
  /\ Readable(box)
  /\ heard' = heard \o Next1(box)
  /\ box' = Taken(box)
  /\ UNCHANGED <<written, line, whole, read, codec, out, reader, rx, pump, hand, noise>>

Handle ==
  /\ box.loop = "busy"
  /\ box' = Handled(box)
  /\ UNCHANGED <<written, line, whole, read, codec, out, reader, rx, pump, hand, heard, noise>>

\* Node.stop cancels its loop first.
Cancel ==
  /\ box.running /\ box.loop \in {"waits", "busy"}
  /\ box' = Cancelled(box)
  /\ UNCHANGED <<written, line, whole, read, codec, out, reader, rx, pump, hand, heard, noise>>

\* stop: the pump is cancelled, with what its thread got; the reader is joined
\* for a second at most, the port is closed and None is put.
Stop ==
  /\ box.running /\ pump \in {"asks", "puts"}
  /\ box' = [box EXCEPT !.running = FALSE]
  /\ pump' = "cancelled" /\ hand' = <<>>
  /\ UNCHANGED <<written, line, whole, read, codec, out, reader, rx, heard, noise>>

StopReturns ==
  /\ pump = "cancelled"
  /\ box' = Stopped(box)
  /\ pump' = "off"
  /\ UNCHANGED <<written, line, whole, read, codec, out, reader, rx, hand, heard, noise>>

Init ==
  /\ written = <<>> /\ line = <<>>
  /\ whole = {} /\ read = {}
  /\ buf = <<>> /\ escaped = FALSE
  /\ out = <<>>
  /\ reader = "off" /\ rx = <<>>
  /\ pump = "off" /\ hand = <<>>
  /\ box = NewInbox
  /\ heard = <<>>
  /\ noise = 0

Next ==
  \/ Write \/ LoseByte \/ StrangeByte
  \/ Start \/ Feed \/ ReaderEnds \/ PumpGets \/ PumpPuts \/ Read \/ Handle
  \/ Cancel \/ Stop \/ StopReturns

Spec == Init /\ [][Next]_vars

\* The reader thread, the pump and the event loop run; a call of stop goes on to
\* its end.
Fairness ==
  /\ WF_vars(Feed) /\ WF_vars(PumpGets) /\ WF_vars(PumpPuts)
  /\ WF_vars(Read) /\ WF_vars(Handle) /\ WF_vars(StopReturns)

FairSpec == Spec /\ Fairness

-----------------------------------------------------------------------------
(* Properties *)

\* The variables hold what the code's fields can hold; a decoded frame has a
\* byte at least, and only a stop takes what is in hand (feed, _pump).
TypeOK ==
  /\ written \in Seq(Payloads) /\ Len(written) <= MaxFrames
  /\ line \in Seq(OnLine)
  /\ whole \subseteq DOMAIN written /\ read \subseteq DOMAIN written
  /\ buf \in Seq(Bytes) /\ escaped \in BOOLEAN
  /\ out \in Seq([data : Seq(Bytes), of : 0 .. MaxFrames])
  /\ \A i \in DOMAIN out : out[i].data # <<>>
  /\ reader \in {"off", "runs", "dead"}
  /\ rx \in Seq(Seq(Bytes))
  /\ pump \in {"off", "asks", "puts", "cancelled"}
  /\ hand \in Seq(Seq(Bytes)) /\ (hand # <<>> <=> pump = "puts")
  /\ box \in InboxOf(Seq(Seq(Bytes)))
  /\ heard \in Seq(Seq(Bytes))
  /\ noise \in 0 .. MaxNoise

\* A frame that crosses the line as it was written is decoded as it was written,
\* whatever came before it and wherever the decoder stood: the END in front
\* closes the damage off (encode, feed).
WholeComesOut ==
  \A k \in whole \cap read :
    \E i \in DOMAIN out : out[i] = [data |-> written[k], of |-> k]

Outs == [i \in DOMAIN out |-> out[i].data]

\* Without noise the decoder gives what was written, in order, and nothing else,
\* whatever bytes it is made of (encode, feed).
Transparent == noise = 0 => IsPrefix(Outs, written)

Queued == FlattenSeq(box.queue)

\* Between the decoder and the loop nothing is lost, repeated or reordered while
\* the transport runs, though three queues and two threads lie between them; a
\* stop cuts off the end only (_read_loop, _pump, frames).
InOrder ==
  /\ box.running => Outs = heard \o Queued \o hand \o rx
  /\ IsPrefix(heard \o Queued, Outs)

\* A frame that stays whole reaches the loop, unless the transport stops, the
\* loop is cancelled or the reader thread dies (_read_loop, _pump, frames).
ReachesLoop ==
  \A k \in 1 .. MaxFrames :
    k \in whole /\ box.running /\ reader = "runs"
      ~> \/ k \in whole /\ Contains(heard, written[k])
         \/ k \notin whole \/ reader = "dead"
         \/ ~box.running \/ box.loop = "off"

\* A loop that waits for frames when the transport is stopped ends (stop, frames).
StopEndsLoop ==
  pump = "cancelled" ~> box.loop \in {"off", "ended"}
=============================================================================
