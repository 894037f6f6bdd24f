---------------------------- MODULE CommandChannel ----------------------------
(***************************************************************************)
(* What the RF transmit path promises to its callers, without buffers,     *)
(* indices or threads: accepted commands wait in line, are put on the air  *)
(* in the order in which they were accepted, and leave the line only by    *)
(* being put on the air or by a purge of the whole line.                   *)
(*                                                                         *)
(* The promise has a limit.  Some commands purge the line in the middle of *)
(* being sent from it; from then on, what is accepted and what is sent are *)
(* out of step, and nothing is promised until the next purge.              *)
(***************************************************************************)
EXTENDS Naturals, Sequences

CONSTANTS ChannelCommand,   \* commands that can be sent
          Capacity,         \* places in the line
          Nothing,          \* no command was sent yet
          Derailing         \* commands after which line and air are out of step

VARIABLES waiting,          \* commands in line, oldest first
          onAir,            \* the command sent last
          inStep            \* do line and air belong together?

channelVars == <<waiting, onAir, inStep>>

ChannelTypeOK ==
  /\ waiting \in Seq(ChannelCommand)
  /\ Len(waiting) <= Capacity
  /\ onAir \in ChannelCommand \cup {Nothing}
  /\ inStep \in BOOLEAN

ChannelInit == waiting = <<>> /\ onAir = Nothing /\ inStep = TRUE

\* A command joins the end of the line, unless the line is full or holds it.
Accept(c) ==
  /\ inStep
  /\ Len(waiting) < Capacity
  /\ \A i \in 1 .. Len(waiting) : waiting[i] # c
  /\ waiting' = Append(waiting, c)
  /\ UNCHANGED <<onAir, inStep>>

\* The oldest command is sent.
SendOldest ==
  /\ waiting # <<>>
  /\ onAir' = Head(waiting)
  /\ inStep' = (Head(waiting) \notin Derailing)
  /\ waiting' = IF inStep' THEN Tail(waiting) ELSE <<>>

\* A command finds the transmitter free and is sent at once.
SendDirectly(c) == onAir' = c /\ UNCHANGED <<waiting, inStep>>

\* A melody, or a command sent directly, empties the line.
Purge == waiting' = <<>> /\ inStep' = TRUE /\ UNCHANGED onAir

ChannelNext ==
  \/ \E c \in ChannelCommand : Accept(c) \/ SendDirectly(c)
  \/ SendOldest
  \/ Purge

ChannelSpec == ChannelInit /\ [][ChannelNext]_channelVars
=============================================================================
