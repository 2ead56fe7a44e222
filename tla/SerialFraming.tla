--------------------------- MODULE SerialFraming ----------------------------
(***************************************************************************)
(* How f_receive_frame of data_link_io.c cuts the bytes of a serial port   *)
(* into frames with serial_port_read of serial_port.c, one byte per read() *)
(* call, while SIGALRM may strike in the middle of a call or between two.  *)
(*                                                                         *)
(* Byte j of frame i is <<i, j>>; what a frame says is left to FrameCodec. *)
(***************************************************************************)
EXTENDS Integers, Sequences, FiniteSets, SequencesExt

CONSTANTS
  LL_MAX_FRAME_SZ, \* the size of g_buffer
  Lengths,         \* bound: how many bytes a frame has between its flags
  MaxFrames,       \* bound: frames written by the other side
  MaxAlarms,       \* bound: alarms that go off
  MaxErrors        \* bound: reads that fail, other than by a signal

ASSUME BufferAssumption ==
  /\ LL_MAX_FRAME_SZ \in Nat /\ LL_MAX_FRAME_SZ > 2
  /\ Lengths \subseteq 1..LL_MAX_FRAME_SZ - 2
ASSUME BoundsAssumption ==
  /\ MaxFrames \in Nat /\ MaxAlarms \in Nat /\ MaxErrors \in Nat

VARIABLES
  at,             \* where f_receive_frame is: "none", "flag" or "frame", its two loops
  using_timeout,
  g_last_byte,
  buffer,         \* what the serial_port_read in progress has stored
  alarm,          \* is one pending, has one rung, has it done so between two reads?
  line,           \* the bytes on their way
  sent,           \* the frames written: their lengths, and whether write() took all
  received,       \* what was handed to parse_frame_from_array
  alarms, errors  \* how often each happened

vars == <<at, using_timeout, g_last_byte, buffer, alarm, line, sent, received, alarms, errors>>

FLAG == <<0, 0>>
Zero == <<0, 1>>  \* what g_last_byte is at first, and any byte of a frame before
Content(i, n) == [j \in 1..n |-> <<i, j>>]

Silent == [armed |-> FALSE, g_timeout_alarm |-> FALSE, missed |-> FALSE]
Armed  == [Silent EXCEPT !.armed = TRUE]
Rung   == [Silent EXCEPT !.g_timeout_alarm = TRUE]

\* The port is opened while the end of something is on its way.
Init ==
  /\ at = "none"
  /\ using_timeout = FALSE
  /\ g_last_byte = Zero
  /\ buffer = <<>>
  /\ alarm = Silent
  /\ line \in {<<>>, <<Zero>>, <<Zero, FLAG>>}
  /\ sent = <<>>
  /\ received = <<>>
  /\ alarms = 0
  /\ errors = 0

-----------------------------------------------------------------------------
(* The other side.                                                         *)

\* f_send_frame writes a frame. write() may take less than all of it, which
\* nobody looks at.
serial_port_write ==
  /\ Len(sent) < MaxFrames
  /\ \E n \in Lengths :
       LET frame == <<FLAG>> \o Content(Len(sent) + 1, n) \o <<FLAG>>
       IN \E m \in 1..Len(frame) :
            /\ line' = line \o SubSeq(frame, 1, m)
            /\ sent' = Append(sent, [length |-> n, whole |-> m = Len(frame)])
  /\ UNCHANGED <<at, using_timeout, g_last_byte, buffer, alarm, received, alarms, errors>>

-----------------------------------------------------------------------------
(* f_receive_frame.                                                        *)

\* Mutant: the search for a flag starts afresh every time.
SearchAgain(b) == "flag"

\* The flag that ended one frame also begins the next.
LoopAfter(b) == IF b = FLAG THEN "frame" ELSE "flag"

\* A program that has once used a timeout does so until its end.
f_receive_frame ==
  /\ at = "none"
  /\ using_timeout' \in {using_timeout, TRUE}
  /\ alarm' = IF using_timeout' THEN Armed ELSE alarm
  /\ at' = LoopAfter(g_last_byte)
  /\ buffer' = <<>>
  /\ UNCHANGED <<g_last_byte, line, sent, received, alarms, errors>>

\* It goes on with another read, in loop l. Before one of a frame it sets the
\* alarm anew.
Again(l, al) ==
  /\ at' = l
  /\ buffer' = <<>>
  /\ alarm' = IF l = "frame" /\ using_timeout THEN Armed ELSE al
  /\ UNCHANGED received

\* It returns, with a frame for the parser or without; the alarm runs on.
Returns(frames, al) ==
  /\ at' = "none"
  /\ buffer' = <<>>
  /\ alarm' = al
  /\ received' = received \o frames

\* Mutants: one of the two loops does not look at the alarm.
InFlagLoop(al)  == al.g_timeout_alarm /\ using_timeout /\ at = "flag"
InFrameLoop(al) == al.g_timeout_alarm /\ using_timeout /\ at = "frame"

TimedOut(al) == al.g_timeout_alarm /\ using_timeout

\* A flag alone is skipped.
IsFrame(b) == Len(b) > 1

\* serial_port_read has returned bytes b, the last byte is last.
ReadReturns(b, last, al) ==
  /\ g_last_byte' = last
  /\ CASE TimedOut(al) -> Returns(<<>>, al)
       [] ~TimedOut(al) /\ at = "flag" -> Again(LoopAfter(last), al)
       [] ~TimedOut(al) /\ at = "frame" /\ ~IsFrame(b) -> Again("frame", al)
       [] ~TimedOut(al) /\ at = "frame" /\ IsFrame(b) /\ last = FLAG -> Returns(<<Front(b)>>, al)
       [] ~TimedOut(al) /\ at = "frame" /\ IsFrame(b) /\ last # FLAG -> Again("flag", al)

\* Mutant: a frame may fill the buffer behind its opening flag and one byte more.
FullBuffer == LL_MAX_FRAME_SZ

\* The opening flag of a frame has its place in g_buffer already.
maxc == IF at = "flag" THEN LL_MAX_FRAME_SZ ELSE LL_MAX_FRAME_SZ - 1

\* Byte b goes to the buffer, and may end serial_port_read.
Store(b) ==
  \/ /\ Len(buffer) + 1 = maxc \/ b = FLAG
     /\ ReadReturns(Append(buffer, b), b, alarm)
  \/ /\ Len(buffer) + 1 < maxc /\ b # FLAG
     /\ g_last_byte' = b
     /\ buffer' = Append(buffer, b)
     /\ UNCHANGED <<at, alarm, received>>

\* read() brings a byte.
read_byte ==
  /\ at # "none"
  /\ line # <<>>
  /\ Store(Head(line))
  /\ line' = Tail(line)
  /\ UNCHANGED <<using_timeout, sent, alarms, errors>>

\* read() fails, and the byte before is stored once more.
read_error ==
  /\ at # "none"
  /\ errors < MaxErrors
  /\ errors' = errors + 1
  /\ Store(g_last_byte)
  /\ UNCHANGED <<using_timeout, line, sent, alarms>>

\* The alarm goes off.
Ring == alarm.armed /\ alarms < MaxAlarms /\ alarms' = alarms + 1

\* During read(): serial_port_read returns 0 and what it has stored is forgotten.
interrupt ==
  /\ at # "none"
  /\ Ring
  /\ ReadReturns(<<>>, g_last_byte, Rung)
  /\ UNCHANGED <<using_timeout, line, sent, errors>>

\* Between two reads, or between two calls.
ring_unheard ==
  /\ Ring
  /\ alarm' = [Rung EXCEPT !.missed = at # "none"]
  /\ UNCHANGED <<at, using_timeout, g_last_byte, buffer, line, sent, received, errors>>

Next == serial_port_write \/ f_receive_frame \/ read_byte \/ read_error
          \/ interrupt \/ ring_unheard

\* A read() returns when there is a byte; an alarm goes off in time.
Spec == Init /\ [][Next]_vars /\ WF_vars(read_byte) /\ WF_vars(interrupt)

-----------------------------------------------------------------------------
(* Properties.                                                             *)

Byte == {FLAG, Zero} \cup {<<i, j>> : i \in 1..MaxFrames, j \in 1..LL_MAX_FRAME_SZ}

TypeOK ==
  /\ at \in {"none", "flag", "frame"}
  /\ using_timeout \in BOOLEAN
  /\ g_last_byte \in Byte
  /\ buffer \in Seq(Byte \ {FLAG})
  /\ Len(buffer) + (IF at = "frame" THEN 1 ELSE 0) < LL_MAX_FRAME_SZ
  /\ alarm \in [armed : BOOLEAN, g_timeout_alarm : BOOLEAN, missed : BOOLEAN]
  /\ line \in Seq(Byte)
  /\ sent \in Seq([length : Lengths, whole : BOOLEAN])
  /\ received \in Seq(Seq(Byte))
  /\ alarms \in 0..MaxAlarms
  /\ errors \in 0..MaxErrors

\* What the parser gets is a frame as it was written, or as much of it as was
\* written, never the rest of one that an alarm cut or two of them in one, as
\* long as no read fails.
WholeFrames ==
  errors = 0 =>
    \A k \in DOMAIN received :
      \E i \in DOMAIN sent : \E n \in 1..sent[i].length :
        /\ received[k] = Content(i, n)
        /\ sent[i].whole => n = sent[i].length

Handed(i) == \E k \in DOMAIN received : received[k] = Content(i, sent[i].length)
Dropped == {i \in DOMAIN sent : sent[i].whole /\ ~Handed(i)}

\* Nothing but an alarm, a failed read or its own truncation costs a frame, and
\* each costs at most one: the flags bring the reader back into step at once.
OneFrameEach ==
  line = <<>> /\ buffer = <<>> => Cardinality(Dropped) <= alarms + errors

\* A call with a timeout returns, unless its alarm has gone off between two reads
\* or the bound on alarms is reached.
CallReturns ==
  at # "none" /\ using_timeout ~> at = "none" \/ alarm.missed \/ alarms = MaxAlarms
=============================================================================
