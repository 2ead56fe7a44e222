------------------------------ MODULE DataLink ------------------------------
(***************************************************************************)
(* The data link protocol of data_link.c over the frame exchange of        *)
(* data_link_io.c: one session of a transmitter T and a receiver R over a  *)
(* full-duplex serial line.                                                *)
(*                                                                         *)
(* Each side runs one program and one call at a time. A call sends a frame *)
(* and waits for the reply (transmitter_connect, transmitter_write,        *)
(* disconnect, handle_disconnect) or waits for frames and answers them     *)
(* (receiver_listen, receiver_read). A step of a call runs from the return *)
(* of one f_receive_frame to the beginning of the next.                    *)
(*                                                                         *)
(* The line is a FIFO of frames in each direction. It may lose a frame,    *)
(* damage it or add noise; what a damaged frame does to the parser is the  *)
(* subject of module FrameCodec, here it is the result BADFRAME with the   *)
(* control byte the parser left behind.                                    *)
(***************************************************************************)
EXTENDS DataLinkCodes, Sequences, FiniteSets

CONSTANTS
  NumRetransmissions, \* connection.num_retransmissions
  MaxNumFrames,       \* receiver_read's max_num_frames, 0 for "no limit"
  MaxPackets,         \* bound: calls of transmitter_write
  MaxConnects,        \* bound: calls of transmitter_connect
  MaxFaults,          \* bound: how often each kind of fault happens
  FaultySides,        \* the sides whose incoming frames the line may harm
  Misread,            \* control bytes that a damaged header may turn into
  Premature,          \* may the alarm fire while a frame is on its way?
  Policies            \* what the clients of the data link may do

Side   == {"T", "R"}
Faults == {"lost", "damaged", "unwritten", "port"}
Peer(s) == IF s = "T" THEN "R" ELSE "T"

ASSUME RetransmissionsAssumption == NumRetransmissions \in Nat \ {0}
ASSUME BoundsAssumption ==
  /\ MaxNumFrames \in Nat
  /\ MaxPackets \in Nat
  /\ MaxConnects \in Nat
  /\ MaxFaults \in [Faults -> Nat]
ASSUME LineAssumption ==
  /\ FaultySides \subseteq Side
  /\ Misread \subseteq 0..255
  /\ Premature \in BOOLEAN
ASSUME PoliciesAssumption ==
  Policies \subseteq {"retry_after_failure", "receiver_disconnects", "receiver_waits",
               "receiver_first"}

VARIABLES
  op,           \* the call each side is in; "none" between calls, "left_open" when
                \* one has disconnected but could not close the port
  ntries,       \* attempts left of the exchange in progress, 0 outside one
  frame_number, \* connection.frame_number
  is_active,    \* connection.is_active
  retval,       \* what the last call returned: 0 (or a size) or -1
  num_frames,   \* frames accepted by the receiver_read in progress
  line,         \* the frames on their way to each side
  connects,     \* calls of transmitter_connect so far
  packet,       \* calls of transmitter_write so far: the k-th writes packet k
  confirmed,    \* the packets whose transmitter_write returned 0
  delivered,    \* the packets receiver_read put in its caller's buffer
  faults        \* how often each kind of fault happened

vars == <<op, ntries, frame_number, is_active, retval, num_frames, line,
          connects, packet, confirmed, delivered, faults>>

Exchanges == {"transmitter_connect", "transmitter_write", "disconnect",
              "handle_disconnect"}
Ops == Exchanges \cup {"start", "none", "receiver_listen", "receiver_read",
                       "wait_for_disconnect", "closed", "left_open", "crashed"}

NoPacket == 0
FRAME(c) == [control |-> c, data |-> NoPacket]
Replies == {data_reply_byte(0, TRUE), data_reply_byte(1, TRUE),
            data_reply_byte(0, FALSE), data_reply_byte(1, FALSE)}
SupervisionFrame == {FRAME(c) : c \in {C_SET, C_DISC, C_UA} \cup Replies}
DataFrame == [control : {data_control_byte(0), data_control_byte(1)}, data : 1..MaxPackets]
Frame == SupervisionFrame \cup DataFrame
IsData(f) == f.data # NoPacket

Init ==
  /\ op = [s \in Side |-> "start"]
  /\ ntries = [s \in Side |-> 0]
  /\ frame_number = [s \in Side |-> 0]
  /\ is_active = [s \in Side |-> FALSE]
  /\ retval = [s \in Side |-> 0]
  /\ num_frames = 0
  /\ line = [s \in Side |-> <<>>]
  /\ connects = 0
  /\ packet = 0
  /\ confirmed = {}
  /\ delivered = <<>>
  /\ faults = [k \in Faults |-> 0]

-----------------------------------------------------------------------------
(* The serial port and the frame functions.                                *)

\* Only a side that holds the port open gets what its peer sends.
is_open(s) == op[s] \notin {"start", "closed", "crashed"}

\* Every kind of fault in kinds happens, once, and is still allowed to.
Suffer(kinds) ==
  /\ \A k \in kinds : faults[k] < MaxFaults[k]
  /\ faults' = [k \in Faults |-> IF k \in kinds THEN faults[k] + 1 ELSE faults[k]]

\* What sending frame f may come to: it is on the line, or the write failed.
f_send_frame(s, f, ln) ==
  { [ret |-> SUCCESS_CODE, kinds |-> {},
     line |-> IF is_open(Peer(s)) THEN [ln EXCEPT ![Peer(s)] = Append(@, f)] ELSE ln],
    [ret |-> ERROR_CODE, kinds |-> {"unwritten"}, line |-> ln] }

Taken(s) == [line EXCEPT ![s] = Tail(@)]

\* The frame at the head of the line, parsed as it was sent.
Intact(s) ==
  { [ret |-> SUCCESS_CODE, control |-> f.control, data |-> f.data,
     line |-> Taken(s), kinds |-> {}] : f \in {Head(line[s])} }

\* The parser refuses a frame. It has stored the control byte before it finds
\* the error, or a wrong one, or none when a flag shows up in the header. Then the
\* caller finds the 0 it had put there itself (f_send_acknowledged_frame) or, in
\* the receiver's calls, what was on the stack, which Misread stands for as well.
Damaged(c, ln) ==
  [ret |-> BADFRAME_CODE, control |-> c, data |-> NoPacket,
   line |-> ln, kinds |-> {"damaged"}]

\* A data frame that arrives where the caller gave the parser no buffer: it
\* writes through an uninitialized pointer up to an uninitialized limit, which may
\* stop it before the end of the frame.
Unbuffered(s) ==
  { [ret |-> BADFRAME_CODE, control |-> f.control, data |-> NoPacket,
     line |-> Taken(s), kinds |-> {}] :
      f \in {g \in {Head(line[s])} : IsData(g) /\ op[s] # "receiver_read"} }

\* What f_receive_frame on side s may bring, timeouts apart.
f_receive_frame(s) ==
  (IF line[s] = <<>> THEN {} ELSE Intact(s) \cup Unbuffered(s))
    \cup
  (IF s \notin FaultySides THEN {}
   ELSE { Damaged(c, line) : c \in Misread \cup {0} }
          \cup
        (IF line[s] = <<>> THEN {}
         ELSE { Damaged(c, Taken(s)) : c \in Misread \cup {0, Head(line[s]).control} }))

\* The alarm went off first.
TimedOut == [ret |-> TIMEOUT_CODE, control |-> 0, data |-> NoPacket,
             line |-> line, kinds |-> {}]

\* Side s is between calls and its client may make no further one; a receiver's
\* client reads as long as it is connected.
Idle(s) == op[s] = "left_open" \/ (s = "T" /\ op[s] = "none")

\* Nothing is on its way that a call will read.
Quiet == \A s \in Side : line[s] = <<>> \/ Idle(s)

-----------------------------------------------------------------------------
(* The exchanges: a caller's loop around f_send_acknowledged_frame.        *)

\* The frame that call o sends.
OutFrame(o, n, k) ==
  CASE o = "transmitter_connect" -> FRAME(C_SET)
    [] o = "transmitter_write"   -> [control |-> data_control_byte(n), data |-> k]
    [] OTHER                     -> FRAME(C_DISC)

\* Mutant: disconnect takes a UA for the answer to its DISC.
WantedUA(o, n) == IF o = "transmitter_write" THEN data_reply_byte(n, TRUE) ELSE C_UA

\* The control byte that call o waits for.
Wanted(o, n) ==
  CASE o = "transmitter_write" -> data_reply_byte(n, TRUE)
    [] o = "disconnect"        -> C_DISC
    [] OTHER                   -> C_UA

\* The client sees call o of side s return r. A call that disconnects closes the
\* port first, whatever r is. That may fail, and leave the port open if its
\* settings could not be restored. (receiver_read returns a size whatever its
\* handle_disconnect returned.)
Return(s, o, r, ln, kinds) ==
  /\ ntries' = [ntries EXCEPT ![s] = 0]
  /\ \/ /\ o = "transmitter_connect"
        /\ op' = [op EXCEPT ![s] = "none"]
        /\ is_active' = [is_active EXCEPT ![s] = @ \/ r = 0]
        /\ retval' = [retval EXCEPT ![s] = r]
        /\ line' = ln
        /\ Suffer(kinds)
     \/ /\ o = "transmitter_write"
        /\ op' = [op EXCEPT ![s] = IF is_active[s] THEN "none" ELSE "left_open"]
        /\ retval' = [retval EXCEPT ![s] = r]
        /\ line' = ln
        /\ Suffer(kinds)
        /\ UNCHANGED is_active
     \/ /\ o \in {"disconnect", "handle_disconnect"}
        /\ is_active' = [is_active EXCEPT ![s] = FALSE]
        /\ \E unclosed \in SUBSET {"port"} :
             /\ retval' = [retval EXCEPT ![s] = IF unclosed # {} THEN -1 ELSE r]
             /\ Suffer(kinds \cup unclosed)
             /\ \/ /\ op' = [op EXCEPT ![s] = "closed"]
                   /\ line' = [ln EXCEPT ![s] = <<>>]
                \/ /\ unclosed # {}
                   /\ op' = [op EXCEPT ![s] = "left_open"]
                   /\ line' = ln

\* Call o of side s begins: it sends its frame once and waits, or fails there.
Begin(s, o, n, k, ln) ==
  \E out \in f_send_frame(s, OutFrame(o, n, k), ln) :
    \/ /\ out.ret = SUCCESS_CODE
       /\ op' = [op EXCEPT ![s] = o]
       /\ ntries' = [ntries EXCEPT ![s] = NumRetransmissions]
       /\ line' = out.line
       /\ Suffer(out.kinds)
       /\ UNCHANGED <<is_active, retval>>
    \/ /\ out.ret = ERROR_CODE
       /\ Return(s, o, -1, out.line, out.kinds)

\* Mutant: only a bad answer costs an attempt, no answer does not.
FreeTimeout(in) == in.ret = BADFRAME_CODE \/ IsReject(in.control)

\* Does f_send_acknowledged_frame count the reply as a failed attempt?
Charged(in) == in.ret # SUCCESS_CODE \/ IsReject(in.control)

\* Mutant: a timeout ends the exchange whatever is left.
NoRetry(s, in) ==
  IF in.ret = TIMEOUT_CODE THEN 0 ELSE IF Charged(in) THEN ntries[s] - 1 ELSE ntries[s]

Left(s, in) == IF Charged(in) THEN ntries[s] - 1 ELSE ntries[s]

\* Mutant: the caller does not look at the reply once the exchange has returned.
AnyReply(s, in) == ~Charged(in) \/ Left(s, in) = 0

\* f_send_acknowledged_frame hands the reply to the caller when it is not
\* charged, but also when the attempts have run out: a refused frame's control
\* byte is then taken as good.
Accepted(s, in) ==
  /\ ~Charged(in) \/ Left(s, in) = 0
  /\ in.control = Wanted(op[s], frame_number[s])

\* The wanted reply ends the call; a disconnect sends UA before it closes.
Complete(s, in) ==
  /\ Accepted(s, in)
  /\ \/ /\ op[s] = "disconnect"
        /\ \E out \in f_send_frame(s, FRAME(C_UA), in.line) :
             Return(s, op[s], IF out.ret = SUCCESS_CODE THEN 0 ELSE -1, out.line,
                    in.kinds \cup out.kinds)
     \/ /\ op[s] # "disconnect"
        /\ Return(s, op[s], 0, in.line, in.kinds)
  /\ IF op[s] = "transmitter_write"
       THEN /\ frame_number' = [frame_number EXCEPT ![s] = @ + 1]
            /\ confirmed' = confirmed \cup {packet}
       ELSE UNCHANGED <<frame_number, confirmed>>

\* Any other reply that uses up the last attempt fails the call.
GiveUp(s, in) ==
  /\ ~Accepted(s, in)
  /\ Left(s, in) = 0
  /\ Return(s, op[s], -1, in.line, in.kinds)
  /\ UNCHANGED <<frame_number, confirmed>>

\* Any other reply has the frame sent again, counted as an attempt or not.
Resend(s, in) ==
  /\ ~Accepted(s, in)
  /\ Left(s, in) > 0
  /\ \E out \in f_send_frame(s, OutFrame(op[s], frame_number[s], packet), in.line) :
       \/ /\ out.ret = SUCCESS_CODE
          /\ ntries' = [ntries EXCEPT ![s] = Left(s, in)]
          /\ line' = out.line
          /\ Suffer(in.kinds \cup out.kinds)
          /\ UNCHANGED <<op, is_active, retval>>
       \/ /\ out.ret = ERROR_CODE
          /\ Return(s, op[s], -1, out.line, in.kinds \cup out.kinds)
  /\ UNCHANGED <<frame_number, confirmed>>

AckStep(s, in) ==
  /\ Complete(s, in) \/ GiveUp(s, in) \/ Resend(s, in)
  /\ UNCHANGED <<num_frames, connects, packet, delivered>>

\* f_send_acknowledged_frame's f_receive_frame returns a frame, good or bad.
receive_reply(s) ==
  /\ op[s] \in Exchanges
  /\ \E in \in f_receive_frame(s) : AckStep(s, in)

\* f_send_acknowledged_frame's f_receive_frame times out.
timeout(s) ==
  /\ op[s] \in Exchanges
  /\ Premature \/ Quiet
  /\ AckStep(s, TimedOut)

\* The other outcome of storing a data frame through an uninitialized pointer.
crash(s) ==
  /\ op[s] \in Exchanges \cup {"receiver_listen", "wait_for_disconnect"}
  /\ line[s] # <<>>
  /\ IsData(Head(line[s]))
  /\ op' = [op EXCEPT ![s] = "crashed"]
  /\ ntries' = [ntries EXCEPT ![s] = 0]
  /\ line' = [line EXCEPT ![s] = <<>>]
  /\ UNCHANGED <<frame_number, is_active, retval, num_frames, connects, packet,
                 confirmed, delivered, faults>>

-----------------------------------------------------------------------------
(* The transmitter's calls.                                                *)

\* serial_port_open fails, or it discards the input that is already there (a
\* prefix of what is on its way) and the SET is sent.
transmitter_connect ==
  /\ op["T"] \in {"start", "none"}
  /\ ~is_active["T"]
  /\ connects < MaxConnects
  /\ "receiver_first" \in Policies => op["R"] # "start"
  /\ connects' = connects + 1
  /\ frame_number' = [frame_number EXCEPT !["T"] = 0]
  /\ \/ /\ Suffer({"port"})
        /\ retval' = [retval EXCEPT !["T"] = -1]
        /\ UNCHANGED <<op, ntries, is_active, line>>
     \/ \E k \in 0..Len(line["T"]) :
          Begin("T", "transmitter_connect", 0, NoPacket,
                [line EXCEPT !["T"] = SubSeq(@, k + 1, Len(@))])
  /\ UNCHANGED <<num_frames, packet, confirmed, delivered>>

\* Side s is between two calls with its port open: it is connected, or has been.
HasPort(s) == (op[s] = "none" /\ is_active[s]) \/ op[s] = "left_open"

\* The client writes its next packet; is_active is not asked. A client that does
\* not carry on after a failure has seen all its calls succeed.
transmitter_write ==
  /\ HasPort("T")
  /\ packet < MaxPackets
  /\ "retry_after_failure" \in Policies \/ retval["T"] = 0
  /\ packet' = packet + 1
  /\ Begin("T", "transmitter_write", frame_number["T"], packet + 1, line)
  /\ UNCHANGED <<frame_number, num_frames, connects, confirmed, delivered>>

\* Either client ends the session. A receiver may do so on its own account.
disconnect(s) ==
  /\ HasPort(s)
  /\ s = "R" => "receiver_disconnects" \in Policies
  /\ Begin(s, "disconnect", frame_number[s], NoPacket, line)
  /\ UNCHANGED <<frame_number, num_frames, connects, packet, confirmed, delivered>>

-----------------------------------------------------------------------------
(* The receiver's calls.                                                   *)

receiver_listen ==
  /\ op["R"] = "start"
  /\ \/ /\ Suffer({"port"})
        /\ retval' = [retval EXCEPT !["R"] = -1]
        /\ UNCHANGED op
     \/ /\ op' = [op EXCEPT !["R"] = "receiver_listen"]
        /\ UNCHANGED <<retval, faults>>
  /\ UNCHANGED <<ntries, frame_number, is_active, num_frames, line, connects,
                 packet, confirmed, delivered>>

IsSet(in) == in.control = C_SET

\* A control byte C_SET, of a good frame or of a bad one, is answered with UA,
\* sent or not, and ends the call; anything else is ignored.
listen_receive ==
  /\ op["R"] = "receiver_listen"
  /\ \E in \in f_receive_frame("R") :
       \/ /\ IsSet(in)
          /\ \E out \in f_send_frame("R", FRAME(C_UA), in.line) :
               /\ line' = out.line
               /\ Suffer(in.kinds \cup out.kinds)
          /\ op' = [op EXCEPT !["R"] = "none"]
          /\ is_active' = [is_active EXCEPT !["R"] = TRUE]
          /\ retval' = [retval EXCEPT !["R"] = 0]
       \/ /\ ~IsSet(in)
          /\ line' = in.line
          /\ Suffer(in.kinds)
          /\ UNCHANGED <<op, is_active, retval>>
  /\ UNCHANGED <<ntries, frame_number, num_frames, connects, packet, confirmed,
                 delivered>>

receiver_read ==
  /\ op["R"] = "none"
  /\ is_active["R"]
  /\ op' = [op EXCEPT !["R"] = "receiver_read"]
  /\ UNCHANGED <<ntries, frame_number, is_active, retval, num_frames, line,
                 connects, packet, confirmed, delivered, faults>>

ReadReturns ==
  /\ op' = [op EXCEPT !["R"] = "none"]
  /\ retval' = [retval EXCEPT !["R"] = 0]
  /\ num_frames' = 0

\* Mutant: any data frame will do.
AnyData(in) == in.control \in {data_control_byte(0), data_control_byte(1)}

Expected(in) == in.control = data_control_byte(frame_number["R"])

\* A bad frame and an unexpected control byte are both answered with REJ; the
\* call goes on unless that cannot be sent.
Reject(in) ==
  /\ in.ret = BADFRAME_CODE \/ (in.control # C_DISC /\ ~Expected(in))
  /\ \E out \in f_send_frame("R", FRAME(data_reply_byte(frame_number["R"], FALSE)), in.line) :
       /\ line' = out.line
       /\ Suffer(in.kinds \cup out.kinds)
       /\ \/ out.ret = SUCCESS_CODE /\ UNCHANGED <<op, retval, num_frames>>
          \/ out.ret = ERROR_CODE /\ ReadReturns
  /\ UNCHANGED <<ntries, frame_number, is_active, delivered>>

\* The expected frame's data is in the caller's buffer before RR is sent; the
\* frame number moves on only if RR could be sent. The call ends when it has
\* its frames or its buffer is full.
Accept(in) ==
  /\ in.ret = SUCCESS_CODE /\ Expected(in)
  /\ delivered' = Append(delivered, in.data)
  /\ \E out \in f_send_frame("R", FRAME(data_reply_byte(frame_number["R"], TRUE)), in.line) :
       /\ line' = out.line
       /\ Suffer(in.kinds \cup out.kinds)
       /\ \/ /\ out.ret = SUCCESS_CODE
             /\ frame_number' = [frame_number EXCEPT !["R"] = @ + 1]
             /\ \/ ReadReturns
                \/ /\ num_frames + 1 # MaxNumFrames
                   /\ num_frames' = num_frames + 1
                   /\ UNCHANGED <<op, retval>>
          \/ /\ out.ret = ERROR_CODE
             /\ ReadReturns
             /\ UNCHANGED frame_number
  /\ UNCHANGED <<ntries, is_active>>

\* DISC is answered by an exchange of its own, which closes the port.
Disconnected(in) ==
  /\ in.ret = SUCCESS_CODE /\ in.control = C_DISC
  /\ Begin("R", "handle_disconnect", frame_number["R"], NoPacket, in.line)
  /\ num_frames' = 0
  /\ UNCHANGED <<frame_number, delivered>>

read_receive ==
  /\ op["R"] = "receiver_read"
  /\ \E in \in f_receive_frame("R") : Reject(in) \/ Accept(in) \/ Disconnected(in)
  /\ UNCHANGED <<connects, packet, confirmed>>

\* A client that has read what it wants waits for the other side to hang up.
wait_for_disconnect ==
  /\ op["R"] = "none"
  /\ is_active["R"]
  /\ "receiver_waits" \in Policies
  /\ op' = [op EXCEPT !["R"] = "wait_for_disconnect"]
  /\ UNCHANGED <<ntries, frame_number, is_active, retval, num_frames, line,
                 connects, packet, confirmed, delivered, faults>>

\* The control byte C_DISC, of a good frame or of a bad one, is answered with the
\* exchange that closes the port; anything else is ignored.
wait_receive ==
  /\ op["R"] = "wait_for_disconnect"
  /\ \E in \in f_receive_frame("R") :
       \/ /\ in.control = C_DISC
          /\ Begin("R", "handle_disconnect", frame_number["R"], NoPacket, in.line)
       \/ /\ in.control # C_DISC
          /\ line' = in.line
          /\ Suffer(in.kinds)
          /\ UNCHANGED <<op, ntries, is_active, retval>>
  /\ UNCHANGED <<frame_number, num_frames, connects, packet, confirmed, delivered>>

-----------------------------------------------------------------------------
\* The line loses a frame.
lose(s) ==
  /\ s \in FaultySides
  /\ line[s] # <<>>
  /\ line' = Taken(s)
  /\ Suffer({"lost"})
  /\ UNCHANGED <<op, ntries, frame_number, is_active, retval, num_frames,
                 connects, packet, confirmed, delivered>>

Next ==
  \/ transmitter_connect
  \/ transmitter_write
  \/ receiver_listen
  \/ listen_receive
  \/ receiver_read
  \/ read_receive
  \/ wait_for_disconnect
  \/ wait_receive
  \/ \E s \in Side : disconnect(s) \/ receive_reply(s) \/ timeout(s) \/ crash(s) \/ lose(s)

Spec == Init /\ [][Next]_vars

\* A program that has input, or whose alarm is due, goes on; the receiver's
\* client reads again while the connection is active (receive_file's loops).
Fairness ==
  /\ \A s \in Side : WF_vars(receive_reply(s)) /\ WF_vars(timeout(s))
  /\ WF_vars(listen_receive)
  /\ WF_vars(receiver_read)
  /\ WF_vars(read_receive)
  /\ WF_vars(wait_receive)

FairSpec == Spec /\ Fairness

-----------------------------------------------------------------------------
TypeOK ==
  /\ op \in [Side -> Ops]
  /\ ntries \in [Side -> 0..NumRetransmissions]
  /\ frame_number \in [Side -> Nat]
  /\ is_active \in [Side -> BOOLEAN]
  /\ retval \in [Side -> {0, -1}]
  /\ num_frames \in Nat
  /\ line \in [Side -> Seq(Frame)]
  /\ connects \in 0..MaxConnects
  /\ packet \in 0..MaxPackets
  /\ confirmed \subseteq 1..MaxPackets
  /\ delivered \in Seq(1..MaxPackets)
  /\ faults \in [Faults -> Nat]

(***************************************************************************)
(* Properties.                                                             *)
(***************************************************************************)
\* The two frame numbers never drift apart: the receiver is at the number the
\* transmitter is sending, or one ahead while the RR for it is on its way. It is
\* what lets data_control_byte and data_reply_byte send one bit of it only. It
\* needs that no damaged header reads as an RR (RepliesAreSafe).
Window == frame_number["R"] - frame_number["T"] \in {0, 1}

\* Every packet whose transmitter_write returned 0 has reached a caller of
\* receiver_read: the exchange is there to "send data frame and receive
\* confirmation". It holds neither for a client that writes on after a failed write
\* nor, where frames are damaged, for one that stops there.
ConfirmedDelivered == \A k \in confirmed : \E i \in DOMAIN delivered : delivered[i] = k

\* receiver_read hands packets over in the order they were written, whatever the
\* client does after a failed write, however often frames are sent again; and
\* never one twice, unless a reply could not be written (receiver_read then
\* returns without having advanced the frame number).
InOrder ==
  \A i, j \in DOMAIN delivered :
    i < j => /\ delivered[i] <= delivered[j]
             /\ faults["unwritten"] = 0 => delivered[i] # delivered[j]

\* A copy of a frame that is already confirmed, or of one before it, is never taken
\* for a new one, however late it arrives: the parity bit is read against the right
\* window.
NeverAfterConfirm ==
  [][delivered' # delivered => \A c \in confirmed : c < delivered'[Len(delivered')]]_vars

\* The transmitter's disconnect returns 0 only when the receiver is on its way
\* out too: in an exchange of DISC, or through with one.
BothClosed ==
  op["T"] = "closed" /\ retval["T"] = 0 =>
    op["R"] \in {"disconnect", "handle_disconnect", "closed", "left_open", "crashed"}

\* A transmitter whose peer is listening rides out any faults of the frames it
\* sends, as long as they are fewer than its attempts: no call of it fails.
ToleratesForwardFaults ==
  faults["lost"] + faults["damaged"] < NumRetransmissions => retval["T"] = 0

\* The same of the frames that come back to it, for its writes: each that has
\* returned was confirmed. A lost RR is not made up for: the receiver has moved on
\* and rejects every copy of the frame it has accepted.
ToleratesReplyFaults ==
  /\ faults["lost"] + faults["damaged"] < NumRetransmissions
  /\ op["T"] = "none"
  => confirmed = 1..packet

\* A write and a disconnection that wait for each other: each side's frames are to
\* the other neither the reply it wants nor a rejection, and cost it no attempt.
CrossPurposes ==
  op["T"] = "transmitter_write" /\ op["R"] \in {"disconnect", "handle_disconnect"}

\* Every exchange ends: it gets the reply it wants or runs out of attempts, unless
\* from some point on the two sides answer each other at cross purposes for ever.
ExchangeReturns ==
  \/ <>[]CrossPurposes
  \/ \A s \in Side : op[s] \in Exchanges ~> op[s] \notin Exchanges

\* The data link implements the service, also for a client that writes on after
\* a failed write; a packet is delivered once if every reply could be written.
Service == INSTANCE LinkService WITH
  submitted    <- packet,
  outstanding  <- op["T"] = "transmitter_write",
  ahead        <- frame_number["R"] # frame_number["T"],
  at_most_once <- MaxFaults["unwritten"] = 0
ServiceSpec == Service!Spec
=============================================================================
