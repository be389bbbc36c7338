------------------------------ MODULE ChatTask ------------------------------
(***************************************************************************)
(* The chat of a terminal and the node it runs share one event loop        *)
(* (cli.py, _run_chat; node.py, _receive_loop): a task keeps the loop from *)
(* when it is resumed until it awaits something that is not there yet.     *)
(***************************************************************************)
EXTENDS Integers

CONSTANTS
  MaxLines,   \* lines typed
  MaxFrames,  \* frames that arrive
  HangsUp     \* the terminal may go away; standard input may be a file

ChatAssumption == MaxLines \in Nat /\ MaxFrames \in Nat /\ HangsUp \in BOOLEAN

VARIABLES
  typed, arrived,  \* how many lines and frames there were
  lines,    \* lines in the StreamReader
  eof,      \* feed_eof was called
  frames,   \* frames in the queue of the transport
  runs,     \* the task that has the event loop, or "loop"
  chat,     \* "reads": suspended in readline; "sends": within send_text; "ready"; "left"
  stopped   \* Node.stop was called

vars == <<typed, arrived, lines, eof, frames, runs, chat, stopped>>

-----------------------------------------------------------------------------
(* The world *)

Type ==
  /\ typed < MaxLines /\ ~eof
  /\ typed' = typed + 1 /\ lines' = lines + 1
  /\ UNCHANGED <<arrived, eof, frames, runs, chat, stopped>>

HangUp ==
  /\ HangsUp /\ ~eof
  /\ eof' = TRUE
  /\ UNCHANGED <<typed, arrived, lines, frames, runs, chat, stopped>>

Arrive ==
  /\ arrived < MaxFrames /\ ~stopped
  /\ arrived' = arrived + 1 /\ frames' = frames + 1
  /\ UNCHANGED <<typed, lines, eof, runs, chat, stopped>>

-----------------------------------------------------------------------------
(* The event loop *)

\* What the chat awaits is there.
Resumable == chat \in {"ready", "sends"} \/ (chat = "reads" /\ (lines > 0 \/ eof))

ResumeChat ==
  /\ runs = "loop" /\ Resumable
  /\ runs' = "chat" /\ chat' = "ready"
  /\ UNCHANGED <<typed, arrived, lines, eof, frames, stopped>>

\* _receive_loop takes a frame, and awaits the next.
TakeFrame ==
  /\ runs = "loop" /\ frames > 0 /\ ~stopped
  /\ frames' = frames - 1
  /\ UNCHANGED <<typed, arrived, lines, eof, runs, chat, stopped>>

\* Variant: the chat asks again until there is a line.
AwaitLinePolls ==
  /\ runs = "chat" /\ lines = 0 /\ ~eof
  /\ UNCHANGED vars

\* readline: no line yet; the chat is suspended.
AwaitLine ==
  /\ runs = "chat" /\ lines = 0 /\ ~eof
  /\ runs' = "loop" /\ chat' = "reads"
  /\ UNCHANGED <<typed, arrived, lines, eof, frames, stopped>>

\* readline returns b"" at the end of the input: an empty line, and again.
ReadNothing ==
  /\ runs = "chat" /\ lines = 0 /\ eof
  /\ UNCHANGED vars

\* A line that needs nobody: it is empty, a command, or finds no session.
ReadLine ==
  /\ runs = "chat" /\ lines > 0
  /\ lines' = lines - 1
  /\ UNCHANGED <<typed, arrived, eof, frames, runs, chat, stopped>>

\* A line that is sent; a transport may suspend the chat until it is out.
SendLine ==
  /\ runs = "chat" /\ lines > 0
  /\ lines' = lines - 1
  /\ runs' = "loop" /\ chat' = "sends"
  /\ UNCHANGED <<typed, arrived, eof, frames, stopped>>

\* /quit, or an exception: node.stop ends the receive loop.
Leave ==
  /\ runs = "chat" /\ lines > 0
  /\ lines' = lines - 1
  /\ runs' = "loop" /\ chat' = "left"
  /\ stopped' = TRUE
  /\ UNCHANGED <<typed, arrived, eof, frames>>

Init ==
  /\ typed = 0 /\ arrived = 0
  /\ lines = 0 /\ eof = FALSE /\ frames = 0
  /\ runs = "loop" /\ chat = "ready" /\ stopped = FALSE

Next ==
  \/ Type \/ HangUp \/ Arrive
  \/ ResumeChat \/ TakeFrame
  \/ AwaitLine \/ ReadNothing \/ ReadLine \/ SendLine \/ Leave

Spec == Init /\ [][Next]_vars

\* The event loop resumes in turn every task that can go on, and a task that runs
\* goes on.
Fairness ==
  /\ SF_vars(ResumeChat) /\ SF_vars(TakeFrame)
  /\ WF_vars(AwaitLine \/ ReadLine \/ SendLine \/ Leave)

FairSpec == Spec /\ Fairness

-----------------------------------------------------------------------------
(* Properties *)

\* The variables hold what the tasks and queues can hold; the chat has the loop
\* only while it awaits nothing.
TypeOK ==
  /\ typed \in 0 .. MaxLines /\ arrived \in 0 .. MaxFrames
  /\ lines \in 0 .. typed /\ frames \in 0 .. arrived
  /\ eof \in BOOLEAN /\ stopped \in BOOLEAN
  /\ runs \in {"loop", "chat"}
  /\ chat \in {"reads", "sends", "ready", "left"}
  /\ runs = "chat" => chat = "ready"

\* While there is a terminal, every frame that arrives is taken by the receive
\* loop, whatever is typed meanwhile (_receive_loop, _run_chat).
TakenWhileTyping == frames > 0 ~> frames = 0 \/ stopped \/ eof

\* "Every node that hears a frame it has not seen before rebroadcasts it once"
\* (mesh/router.py): a node that runs takes every frame that arrives.
FramesTaken == frames > 0 ~> frames = 0 \/ stopped
=============================================================================
