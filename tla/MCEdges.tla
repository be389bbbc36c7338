------------------------------- MODULE MCEdges -------------------------------
(***************************************************************************)
(* What lies between a node and the world, for TLC.  component says what a *)
(* behaviour is about:                                                     *)
(*   "serial"  the serial radio with the SLIP driver (SerialLink);         *)
(*   "udp"     the UDP group on a network without loss (UdpGroup);         *)
(*   "lossy"   the UDP group with loss, and with transports that are       *)
(*             started again;                                              *)
(*   "at"      the configuration of a RYLR module (AtDialogue);            *)
(*   "chat"    the terminal and the event loop (ChatTask).                 *)
(***************************************************************************)
EXTENDS SerialLink

Short == {<<Esc>>, <<End>>}   \* frames of one byte that must be escaped

VARIABLES
  component,
  salt, boxes, sends, starts, wire, heardFrom, owed, repeats, foreign,
  refuses, command, phase, toAnswer, port, collected, late, overheard,
  typed, arrived, lines, eof, frames, runs, chat, stopped

udpVars == <<salt, boxes, sends, starts, wire, heardFrom, owed, repeats, foreign>>
atVars == <<refuses, command, phase, toAnswer, port, collected, late, overheard>>
chatVars == <<typed, arrived, lines, eof, frames, runs, chat, stopped>>

Udp == INSTANCE UdpGroup
  WITH Nodes <- {"a", "b"}, Salts <- {"s", "t"}, MaxSends <- 1, MaxStarts <- 1,
       Lossless <- TRUE, MaxRepeats <- 0, MaxForeign <- 1,
       box <- boxes, heard <- heardFrom

Lossy == INSTANCE UdpGroup
  WITH Nodes <- {"a", "b"}, Salts <- {"s", "t"}, MaxSends <- 1, MaxStarts <- 2,
       Lossless <- FALSE, MaxRepeats <- 1, MaxForeign <- 0,
       box <- boxes, heard <- heardFrom

At == INSTANCE AtDialogue
  WITH Commands <- 3, MaxHeard <- 2, buf <- collected, heard <- overheard

Chat == INSTANCE ChatTask
  WITH MaxLines <- 4, MaxFrames <- 3, HangsUp <- TRUE

ASSUME Udp!UdpAssumption
ASSUME Lossy!UdpAssumption
ASSUME At!AtAssumption
ASSUME Chat!ChatAssumption

\* Salts are drawn and commands refused only where it matters; elsewhere the
\* module is configured and the chat is over, so that nothing waits there.
OneSalt == component \in {"udp", "lossy"} \/ \A n \in DOMAIN salt : salt[n] = "s"

Configured ==
  /\ refuses = {} /\ command = 1 /\ phase = "configured" /\ toAnswer = <<>>
  /\ port = <<>> /\ collected = <<>> /\ late = FALSE /\ overheard = 0

ChatOver ==
  /\ typed = 0 /\ arrived = 0 /\ lines = 0 /\ eof = FALSE /\ frames = 0
  /\ runs = "loop" /\ chat = "left" /\ stopped = TRUE

MCInit ==
  /\ component \in {"serial", "udp", "lossy", "at", "chat"}
  /\ Init /\ Udp!Init /\ OneSalt
  /\ IF component = "at" THEN At!Init ELSE Configured
  /\ IF component = "chat" THEN Chat!Init ELSE ChatOver

MCNext ==
  /\ UNCHANGED component
  /\ \/ component = "serial" /\ Next /\ UNCHANGED <<udpVars, atVars, chatVars>>
     \/ component = "udp" /\ Udp!Next /\ UNCHANGED <<vars, atVars, chatVars>>
     \/ component = "lossy" /\ Lossy!Next /\ UNCHANGED <<vars, atVars, chatVars>>
     \/ component = "at" /\ At!Next /\ UNCHANGED <<vars, udpVars, chatVars>>
     \/ component = "chat" /\ Chat!Next /\ UNCHANGED <<vars, udpVars, atVars>>

\* The fairness of each module; it asks for nothing where the module has
\* nothing to do.
MCSpec ==
  /\ MCInit /\ [][MCNext]_<<component, vars, udpVars, atVars, chatVars>>
  /\ Fairness /\ Udp!Fairness /\ At!Fairness /\ Chat!Fairness

-----------------------------------------------------------------------------
(* Properties of the modules, under the names the run uses *)

\* A node never hears over UDP what it sent itself, however late or often the
\* group brings it back (the salt; send, _deliver).
NoEcho ==
  /\ component = "lossy" => Lossy!TypeOK /\ Lossy!NoEcho
  /\ component = "udp" => Udp!TypeOK /\ Udp!NoEcho

\* A frame comes to the loop over frames(): over UDP, without loss, that of every
\* member that was up when it was sent and is not stopped, unless the two chose
\* the same salt; over the serial line, if it crosses whole (frames, _pump).
ReachesLoops ==
  /\ component = "udp" => Udp!HearsOthers
  /\ component = "serial" => ReachesLoop

\* Nobody waits for ever: a loop over frames() ends when its transport is
\* stopped, and start() of a RYLR module comes to its end whatever the module
\* does (stop, frames, _at).
NobodyWaits ==
  /\ component = "udp" => Udp!StopEndsLoop
  /\ component = "serial" => StopEndsLoop
  /\ component = "at" => At!Ends

\* A frame that crosses the serial line whole is decoded whatever came before
\* it, what is decoded without noise is what was written, and between decoder
\* and loop nothing is lost, repeated or reordered (SlipCodec, _read_loop, _pump).
SerialSound == TypeOK /\ WholeComesOut /\ Transparent /\ InOrder

\* start() raises only over a refusal, and at the first one if the module is in
\* time and hears nothing meanwhile, however its answers are cut (_at).
AtSound == At!TypeOK /\ At!RaisesOverRefusal /\ At!RaisesAtFirst

\* While there is a terminal, every frame that arrives is taken by the receive
\* loop, whatever is typed meanwhile (_receive_loop, _run_chat).
TakenWhileTyping == Chat!TakenWhileTyping
=============================================================================
