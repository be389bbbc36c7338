-------------------------------- MODULE Inbox --------------------------------
(***************************************************************************)
(* The receiving end every transport has: an asyncio queue, filled by what *)
(* the link brings, emptied by the one loop that iterates over frames(),   *)
(* and closed by stop() with a None behind whatever is in it               *)
(* (radio/udp.py, radio/lora.py, radio/loopback.py).                       *)
(***************************************************************************)
EXTENDS Sequences

\* An item is a sequence: <<frame>>, or <<>> for None.
None == <<>>

\* The loop is "off" when there is none or it was cancelled, "waits" in get,
\* is "busy" with a frame, or "ended" by itself.
InboxOf(Items) ==
  [running : BOOLEAN, queue : Seq(Items), loop : {"off", "waits", "busy", "ended"}]

\* __init__
NewInbox == [running |-> FALSE, queue |-> <<>>, loop |-> "off"]

\* start(), after which Node.start creates the receive loop.
Started(b) == [b EXCEPT !.running = TRUE, !.loop = "waits"]

\* put of a frame.
Filled(b, f) == [b EXCEPT !.queue = Append(@, <<f>>)]

\* frames(): get returns.
Readable(b) == b.loop = "waits" /\ b.queue # <<>>
Next1(b) == Head(b.queue)
Taken(b) ==
  [b EXCEPT !.queue = Tail(@), !.loop = IF Next1(b) = None THEN "ended" ELSE "busy"]

\* frames(): the body of the loop is done with a frame.
Handled(b) == [b EXCEPT !.loop = IF b.running THEN "waits" ELSE "ended"]

\* Node.stop cancels the loop before it stops the transport.
Cancelled(b) == [b EXCEPT !.loop = IF @ = "ended" THEN @ ELSE "off"]

\* Variant: stop() puts nothing.
StoppedSilently(b) == [b EXCEPT !.running = FALSE]

\* stop()
Stopped(b) == [b EXCEPT !.running = FALSE, !.queue = Append(@, None)]
=============================================================================
