----------------------------- MODULE AtDialogue -----------------------------
(***************************************************************************)
(* How LoRaTransport.start configures a RYLR module (radio/lora.py): it    *)
(* writes one AT command after another, and takes what the port gives it   *)
(* up to a line end, or nothing within a second, for the answer.  The      *)
(* module answers in its own time, may refuse a command, and reports every *)
(* frame it hears over the same port.                                      *)
(***************************************************************************)
EXTENDS Integers, SequencesExt

CONSTANTS
  Commands,  \* how many commands there are
  MaxHeard   \* frames the module hears meanwhile

AtAssumption == Commands \in Nat \ {0} /\ MaxHeard \in Nat

\* A line on the port, in two pieces: a read may come between them.
Kinds == {"+OK", "+ERR", "+RCV"}
Piece == Kinds \X {"head", "tail"}
LineOf(k) == <<<<k, "head">>, <<k, "tail">>>>

VARIABLES
  refuses,   \* the commands the module will not accept
  command,   \* the command of the loop of _configure_rylr
  phase,     \* "writes", "reads", "configured", or "raised"
  toAnswer,  \* commands the module has and did not answer
  port,      \* what it wrote and nobody read
  buf,       \* what _at collected
  late, heard

vars == <<refuses, command, phase, toAnswer, port, buf, late, heard>>
module == <<refuses, toAnswer, heard>>

-----------------------------------------------------------------------------
(* The module *)

Answer ==
  /\ toAnswer # <<>>
  /\ port' = port \o LineOf(IF Head(toAnswer) \in refuses THEN "+ERR" ELSE "+OK")
  /\ toAnswer' = Tail(toAnswer)
  /\ UNCHANGED <<refuses, command, phase, buf, late, heard>>

Hear ==
  /\ heard < MaxHeard
  /\ port' = port \o LineOf("+RCV")
  /\ heard' = heard + 1
  /\ UNCHANGED <<refuses, command, phase, toAnswer, buf, late>>

-----------------------------------------------------------------------------
(* The transport *)

\* _at up to its loop.
WriteCommand ==
  /\ phase = "writes"
  /\ toAnswer' = Append(toAnswer, command)
  /\ buf' = <<>>
  /\ phase' = "reads"
  /\ UNCHANGED <<refuses, command, port, late, heard>>

\* _configure_rylr, with what _at returned; None is <<>>.
Goes(reply) ==
  IF reply # <<>> /\ Head(reply) = <<"+ERR", "head">>
  THEN phase' = "raised" /\ UNCHANGED command
  ELSE IF command = Commands
       THEN phase' = "configured" /\ UNCHANGED command
       ELSE phase' = "writes" /\ command' = command + 1

HasLine(pieces) == \E i \in DOMAIN pieces : pieces[i][2] = "tail"

\* Variant: the first read is the answer.
ReadChunkOnce ==
  /\ phase = "reads"
  /\ \E n \in 1 .. Len(port) :
       /\ buf' = SubSeq(port, 1, n)
       /\ port' = SubSeq(port, n + 1, Len(port))
  /\ Goes(buf')
  /\ UNCHANGED <<module, late>>

\* _at: read gives a piece of what is there.
ReadChunk ==
  /\ phase = "reads"
  /\ \E n \in 1 .. Len(port) :
       /\ buf' = buf \o SubSeq(port, 1, n)
       /\ port' = SubSeq(port, n + 1, Len(port))
  /\ IF HasLine(buf') THEN Goes(buf') ELSE UNCHANGED <<phase, command>>
  /\ UNCHANGED <<module, late>>

\* _at returns None; what it collected is gone.
Deadline ==
  /\ phase = "reads"
  /\ buf' = <<>>
  /\ late' = TRUE
  /\ Goes(<<>>)
  /\ UNCHANGED <<module, port>>

Init ==
  /\ refuses \in SUBSET (1 .. Commands)
  /\ command = 1 /\ phase = "writes"
  /\ toAnswer = <<>> /\ port = <<>> /\ buf = <<>>
  /\ late = FALSE /\ heard = 0

Next == Answer \/ Hear \/ WriteCommand \/ ReadChunk \/ Deadline

Spec == Init /\ [][Next]_vars

\* start() goes on; the module need not answer.
Fairness == WF_vars(WriteCommand) /\ WF_vars(Deadline)

FairSpec == Spec /\ Fairness

-----------------------------------------------------------------------------
(* Properties *)

\* The variables hold what the code and the module can hold; what _at keeps while
\* it reads has no line yet (_at).
TypeOK ==
  /\ refuses \subseteq 1 .. Commands /\ command \in 1 .. Commands
  /\ phase \in {"writes", "reads", "configured", "raised"}
  /\ toAnswer \in Seq(1 .. Commands)
  /\ port \in Seq(Piece) /\ buf \in Seq(Piece)
  /\ phase = "reads" => \A i \in DOMAIN buf : buf[i][2] = "head"
  /\ late \in BOOLEAN /\ heard \in 0 .. MaxHeard

\* Whatever is late, cut or heard in between, start raises only over a command the
\* module refused, that one or an earlier one (_configure_rylr).
RaisesOverRefusal == phase = "raised" => \E c \in refuses : c <= command

\* With a module that answers in time and hears nothing meanwhile, start raises at
\* the first command it refuses, and at no other, however the answers are cut
\* (_at, _configure_rylr).
RaisesAtFirst ==
  ~late /\ heard = 0 =>
    /\ phase = "raised" => command \in refuses
    /\ \A c \in refuses : command <= c /\ phase # "configured"

\* start() comes to its end, whatever the module does or leaves undone (_at).
Ends == <>(phase \in {"configured", "raised"})

\* "Push frequency, spreading factor, bandwidth, coding rate and power."
\* (_configure_rylr): a module that was configured took every command.
ConfiguredAccepted == phase = "configured" => refuses = {}
=============================================================================
