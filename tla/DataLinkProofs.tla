--------------------------- MODULE DataLinkProofs ---------------------------
(***************************************************************************)
(* Theorems about DataLink, for every value of its constants: its types,   *)
(* that the frame numbers of transmitter and receiver stay in step, and    *)
(* that it implements the delivery service.                                *)
(* Nearly every action leaves both numbers alone and changes a line only   *)
(* by taking frames off its front or appending one harmless frame: lemma   *)
(* Kept shows that this keeps the invariant. What is left are the two      *)
(* actions that count: an accepted frame and a confirmed one.              *)
(***************************************************************************)
EXTENDS DataLinkInv, TLAPS

-----------------------------------------------------------------------------
(* What the operators return.                                              *)

\* The control bytes that carry a frame number, spelled out.
LEMMA ControlBytes ==
  ASSUME NEW k \in Nat
  PROVE  /\ data_control_byte(k) \in {0, 64}
         /\ data_control_byte(k + 1) # data_control_byte(k)
         /\ data_reply_byte(k, TRUE) \in {1, 129}
         /\ data_reply_byte(k, FALSE) \in {7, 135}
         /\ data_reply_byte(k + 1, TRUE) # data_reply_byte(k, TRUE)
         /\ data_control_byte(k) \in {data_control_byte(0), data_control_byte(1)}
         /\ data_reply_byte(k, TRUE) \in Replies
         /\ data_reply_byte(k, FALSE) \in Replies
<1>1. k % 2 \in {0, 1} /\ (k + 1) % 2 \in {0, 1} /\ (k + 1) % 2 # k % 2
  OBVIOUS
<1>2. 0 % 2 = 0 /\ 1 % 2 = 1
  OBVIOUS
<1> QED BY <1>1, <1>2 DEF data_control_byte, data_reply_byte, C_RR, C_REJ, Replies

\* Which control bytes a frame may have: a supervision frame has never the
\* control byte of a data frame.
LEMMA FrameFields ==
  ASSUME NEW f \in Frame
  PROVE  /\ f.control \in 0..255
         /\ f.data \in 0..MaxPackets
         /\ f.control \in {0, 64} <=> f.data \in 1..MaxPackets
         /\ IsData(f) <=> f.control \in {0, 64}
<1> USE BoundsAssumption
<1>1. CASE f \in SupervisionFrame
  BY <1>1 DEF SupervisionFrame, FRAME, NoPacket, IsData, Replies, C_SET, C_DISC, C_UA,
              data_reply_byte, C_RR, C_REJ
<1>2. CASE f \in DataFrame
  BY <1>2 DEF DataFrame, NoPacket, IsData, data_control_byte
<1> QED BY <1>1, <1>2 DEF Frame

LEMMA SupervisionFrames ==
  /\ FRAME(C_SET) \in Frame
  /\ FRAME(C_DISC) \in Frame
  /\ FRAME(C_UA) \in Frame
  /\ \A k \in Nat, a \in BOOLEAN : FRAME(data_reply_byte(k, a)) \in Frame
<1>1. \A c \in {C_SET, C_DISC, C_UA} \cup Replies : FRAME(c) \in Frame
  BY DEF Frame, SupervisionFrame
<1>2. \A k \in Nat, a \in BOOLEAN : data_reply_byte(k, a) \in Replies
  BY ControlBytes
<1> QED BY <1>1, <1>2

LEMMA OutFrameType ==
  ASSUME NEW o \in Exchanges, NEW k \in Nat, NEW p \in 0..MaxPackets,
         o = "transmitter_write" => p \in 1..MaxPackets
  PROVE  OutFrame(o, k, p) \in Frame
<1>1. CASE o = "transmitter_write"
  BY <1>1, ControlBytes DEF OutFrame, Frame, DataFrame
<1>2. CASE o # "transmitter_write"
  BY <1>2, SupervisionFrames DEF OutFrame
<1> QED BY <1>1, <1>2

\* Sending leaves the sender's own line alone and adds at most the frame to its
\* peer's.
LEMMA Sending ==
  ASSUME NEW s \in Side, NEW f \in Frame, NEW ln \in [Side -> Seq(Frame)],
         NEW out \in f_send_frame(s, f, ln)
  PROVE  /\ out.line \in [Side -> Seq(Frame)]
         /\ out.line[s] = ln[s]
         /\ out.line[Peer(s)] \in {ln[Peer(s)], Append(ln[Peer(s)], f)}
         /\ out.kinds \subseteq Faults
         /\ out.ret \in {SUCCESS_CODE, ERROR_CODE}
         /\ out.ret = ERROR_CODE => out.line = ln
<1>1. Peer(s) \in Side /\ Peer(s) # s
  BY DEF Peer, Side
<1> DEFINE on == IF is_open(Peer(s))
                   THEN [ln EXCEPT ![Peer(s)] = Append(@, f)] ELSE ln
<1>2. /\ on \in [Side -> Seq(Frame)]
      /\ on[s] = ln[s]
      /\ on[Peer(s)] \in {ln[Peer(s)], Append(ln[Peer(s)], f)}
  BY <1>1
<1>3. \/ out = [ret |-> SUCCESS_CODE, kinds |-> {}, line |-> on]
      \/ out = [ret |-> ERROR_CODE, kinds |-> {"unwritten"}, line |-> ln]
  BY DEF f_send_frame
<1> HIDE DEF on
<1> QED BY <1>2, <1>3 DEF Faults, SUCCESS_CODE, ERROR_CODE

\* Receiving takes at most the first frame off the receiver's line; without an
\* error it brings that frame, with one it brings its control byte or another.
LEMMA Receiving ==
  ASSUME TypeOK, NEW s \in Side, NEW in \in f_receive_frame(s)
  PROVE  /\ in.line \in [Side -> Seq(Frame)]
         /\ in.line[Peer(s)] = line[Peer(s)]
         /\ \/ in.line[s] = line[s]
            \/ line[s] # <<>> /\ in.line[s] = Tail(line[s])
         /\ in.kinds \subseteq Faults
         /\ in.ret \in {SUCCESS_CODE, BADFRAME_CODE}
         /\ in.control \in 0..255
         /\ in.ret = SUCCESS_CODE => /\ line[s] # <<>>
                                     /\ in.line[s] = Tail(line[s])
                                     /\ in.control = Head(line[s]).control
                                     /\ in.data = Head(line[s]).data
         /\ \/ in.control \in Misread \cup {0}
            \/ /\ line[s] # <<>>
               /\ in.line[s] = Tail(line[s])
               /\ in.control = Head(line[s]).control
<1>0. Peer(s) # s /\ Peer(s) \in Side
  BY DEF Peer, Side
<1>1. line \in [Side -> Seq(Frame)]
  BY DEF TypeOK
<1>2. ASSUME line[s] # <<>>
      PROVE  /\ Head(line[s]) \in Frame
             /\ Taken(s) \in [Side -> Seq(Frame)]
             /\ Taken(s)[s] = Tail(line[s])
             /\ Taken(s)[Peer(s)] = line[Peer(s)]
             /\ Head(line[s]).control \in 0..255
  <2>1. Head(line[s]) \in Frame /\ Tail(line[s]) \in Seq(Frame)
    BY <1>1, <1>2
  <2> QED BY <2>1, <1>0, <1>1, FrameFields DEF Taken
<1>3. CASE line[s] # <<>> /\ in \in Intact(s)
  <2>1. in = [ret |-> SUCCESS_CODE, control |-> Head(line[s]).control,
              data |-> Head(line[s]).data, line |-> Taken(s), kinds |-> {}]
    BY <1>3 DEF Intact
  <2> QED BY <1>2, <1>3, <2>1
<1>6. CASE line[s] # <<>> /\ in \in Unbuffered(s)
  <2>1. in = [ret |-> BADFRAME_CODE, control |-> Head(line[s]).control,
              data |-> NoPacket, line |-> Taken(s), kinds |-> {}]
    BY <1>6 DEF Unbuffered
  <2> QED BY <1>2, <1>6, <2>1 DEF SUCCESS_CODE, BADFRAME_CODE
<1>4. CASE in \in { Damaged(c, line) : c \in Misread \cup {0} }
  <2>1. PICK c \in Misread \cup {0} : in = Damaged(c, line)
    BY <1>4
  <2> QED BY <1>1, <2>1, LineAssumption DEF Damaged, Faults, SUCCESS_CODE, BADFRAME_CODE
<1>5. CASE /\ line[s] # <<>>
           /\ in \in { Damaged(c, Taken(s)) : c \in Misread \cup {0, Head(line[s]).control} }
  <2>1. PICK c \in Misread \cup {0, Head(line[s]).control} : in = Damaged(c, Taken(s))
    BY <1>5
  <2>2. /\ in.ret = BADFRAME_CODE /\ in.control = c
        /\ in.line = Taken(s) /\ in.kinds = {"damaged"}
    BY <2>1 DEF Damaged
  <2>3. c \in 0..255
    <3>1. c \in Misread \/ c = 0 \/ c = Head(line[s]).control
      OBVIOUS
    <3>2. Head(line[s]).control \in 0..255
      BY <1>2, <1>5
    <3>3. Misread \subseteq 0..255 /\ 0 \in 0..255
      BY LineAssumption
    <3> QED BY <3>1, <3>2, <3>3
  <2>4. c \in Misread \cup {0} \/ c = Head(line[s]).control
    OBVIOUS
  <2> QED BY <1>2, <1>5, <2>2, <2>3, <2>4 DEF Faults, SUCCESS_CODE, BADFRAME_CODE
<1> QED BY <1>3, <1>4, <1>5, <1>6 DEF f_receive_frame

LEMMA Suffering ==
  ASSUME faults \in [Faults -> Nat], NEW kinds \in SUBSET Faults, Suffer(kinds)
  PROVE  faults' \in [Faults -> Nat]
BY DEF Suffer

-----------------------------------------------------------------------------
(* Type correctness.                                                       *)

\* The part of the state that the end of a call and the beginning of one set.
CallState ==
  /\ op \in [Side -> Ops]
  /\ ntries \in [Side -> 0..NumRetransmissions]
  /\ is_active \in [Side -> BOOLEAN]
  /\ retval \in [Side -> {0, -1}]
  /\ line \in [Side -> Seq(Frame)]
  /\ faults \in [Faults -> Nat]

LEMMA ReturnType ==
  ASSUME CallState, NEW s \in Side, NEW o \in Exchanges, NEW r \in {0, -1},
         NEW ln \in [Side -> Seq(Frame)], NEW kinds \in SUBSET Faults,
         Return(s, o, r, ln, kinds)
  PROVE  CallState'
<1> USE RetransmissionsAssumption DEF CallState
<1>1. ntries' \in [Side -> 0..NumRetransmissions]
  BY DEF Return
<1>2. CASE o \in {"transmitter_connect", "transmitter_write"}
  <2>1. faults' \in [Faults -> Nat]
    BY <1>2, Suffering DEF Return
  <2> QED BY <1>1, <1>2, <2>1 DEF Return, Ops
<1>3. CASE o \in {"disconnect", "handle_disconnect"}
  <2>1. PICK unclosed \in SUBSET {"port"} :
          /\ retval' = [retval EXCEPT ![s] = IF unclosed # {} THEN -1 ELSE r]
          /\ Suffer(kinds \cup unclosed)
    BY <1>3 DEF Return
  <2>2. kinds \cup unclosed \in SUBSET Faults
    BY DEF Faults
  <2>3. faults' \in [Faults -> Nat]
    BY <2>1, <2>2, Suffering
  <2>4. op' \in [Side -> Ops] /\ is_active' \in [Side -> BOOLEAN]
    BY <1>3 DEF Return, Ops
  <2>5. line' \in [Side -> Seq(Frame)]
    <3>1. line' = ln \/ line' = [ln EXCEPT ![s] = <<>>]
      BY <1>3 DEF Return
    <3>2. <<>> \in Seq(Frame)
      OBVIOUS
    <3> QED BY <3>1, <3>2
  <2> QED BY <1>1, <2>1, <2>3, <2>4, <2>5
<1> QED BY <1>2, <1>3 DEF Exchanges

LEMMA BeginType ==
  ASSUME CallState, NEW s \in Side, NEW o \in Exchanges, NEW k \in Nat,
         NEW p \in 0..MaxPackets, o = "transmitter_write" => p \in 1..MaxPackets,
         NEW ln \in [Side -> Seq(Frame)], Begin(s, o, k, p, ln)
  PROVE  CallState'
<1>1. PICK out \in f_send_frame(s, OutFrame(o, k, p), ln) :
        \/ /\ out.ret = SUCCESS_CODE
           /\ op' = [op EXCEPT ![s] = o]
           /\ ntries' = [ntries EXCEPT ![s] = NumRetransmissions]
           /\ line' = out.line
           /\ Suffer(out.kinds)
           /\ UNCHANGED <<is_active, retval>>
        \/ Return(s, o, -1, out.line, out.kinds)
  BY DEF Begin
<1>2. out.line \in [Side -> Seq(Frame)] /\ out.kinds \in SUBSET Faults
  BY OutFrameType, Sending
<1>3. CASE Return(s, o, -1, out.line, out.kinds)
  BY <1>2, <1>3, ReturnType
<1>4. CASE /\ op' = [op EXCEPT ![s] = o]
           /\ ntries' = [ntries EXCEPT ![s] = NumRetransmissions]
           /\ line' = out.line
           /\ Suffer(out.kinds)
           /\ UNCHANGED <<is_active, retval>>
  <2>1. faults' \in [Faults -> Nat]
    BY <1>2, <1>4, Suffering DEF CallState
  <2> QED BY <1>2, <1>4, <2>1, RetransmissionsAssumption DEF CallState, Ops
<1> QED BY <1>1, <1>3, <1>4

\* A step of an exchange: in is what f_receive_frame returned, or the timeout.
LEMMA AckStepType ==
  ASSUME TypeOK, NEW s \in Side, op[s] \in Exchanges,
         op[s] = "transmitter_write" => packet \in 1..MaxPackets,
         NEW in, in.line \in [Side -> Seq(Frame)], in.kinds \subseteq Faults,
         ntries[s] > 0, AckStep(s, in)
  PROVE  /\ CallState'
         /\ frame_number' \in [Side -> Nat]
         /\ confirmed' \subseteq 1..MaxPackets
<1>0. CallState
  BY DEF TypeOK, CallState
<1>1. Left(s, in) \in 0..NumRetransmissions
  BY RetransmissionsAssumption DEF Left, TypeOK
<1>2. OutFrame(op[s], frame_number[s], packet) \in Frame /\ FRAME(C_UA) \in Frame
  BY OutFrameType, SupervisionFrames DEF TypeOK
<1>3. CASE Complete(s, in)
  <2>1. CallState'
    <3>1. CASE op[s] = "disconnect"
      <4>1. PICK out \in f_send_frame(s, FRAME(C_UA), in.line) :
              Return(s, op[s], IF out.ret = SUCCESS_CODE THEN 0 ELSE -1, out.line,
                     in.kinds \cup out.kinds)
        BY <1>3, <3>1 DEF Complete
      <4>2. out.line \in [Side -> Seq(Frame)] /\ in.kinds \cup out.kinds \in SUBSET Faults
        BY <1>2, Sending
      <4> QED BY <1>0, <4>1, <4>2, ReturnType
    <3>2. CASE op[s] # "disconnect"
      BY <1>0, <1>3, <3>2, ReturnType DEF Complete
    <3> QED BY <3>1, <3>2
  <2>2. frame_number' \in [Side -> Nat] /\ confirmed' \subseteq 1..MaxPackets
    <3>1. CASE op[s] = "transmitter_write"
      <4>1. /\ frame_number' = [frame_number EXCEPT ![s] = @ + 1]
            /\ confirmed' = confirmed \cup {packet}
        BY <1>3, <3>1 DEF Complete
      <4> QED BY <3>1, <4>1 DEF TypeOK
    <3>2. CASE op[s] # "transmitter_write"
      BY <1>3, <3>2 DEF Complete, TypeOK
    <3> QED BY <3>1, <3>2
  <2> QED BY <2>1, <2>2
<1>4. CASE GiveUp(s, in)
  BY <1>0, <1>4, ReturnType DEF GiveUp, TypeOK
<1>5. CASE Resend(s, in)
  <2>1. PICK out \in f_send_frame(s, OutFrame(op[s], frame_number[s], packet), in.line) :
          \/ /\ ntries' = [ntries EXCEPT ![s] = Left(s, in)]
             /\ line' = out.line
             /\ Suffer(in.kinds \cup out.kinds)
             /\ UNCHANGED <<op, is_active, retval>>
          \/ Return(s, op[s], -1, out.line, in.kinds \cup out.kinds)
    BY <1>5 DEF Resend
  <2>2. out.line \in [Side -> Seq(Frame)] /\ in.kinds \cup out.kinds \in SUBSET Faults
    BY <1>2, Sending
  <2>3. CallState'
    <3>1. CASE Return(s, op[s], -1, out.line, in.kinds \cup out.kinds)
      BY <1>0, <2>2, <3>1, ReturnType
    <3>2. CASE /\ ntries' = [ntries EXCEPT ![s] = Left(s, in)]
               /\ line' = out.line
               /\ Suffer(in.kinds \cup out.kinds)
               /\ UNCHANGED <<op, is_active, retval>>
      <4>1. faults' \in [Faults -> Nat]
        BY <1>0, <2>2, <3>2, Suffering DEF CallState
      <4> QED BY <1>0, <1>1, <2>2, <3>2, <4>1 DEF CallState
    <3> QED BY <2>1, <3>1, <3>2
  <2> QED BY <1>5, <2>3 DEF Resend, TypeOK
<1> QED BY <1>3, <1>4, <1>5 DEF AckStep

\* The actions, one by one. Those that begin or continue an exchange rest on the
\* lemmas above; the receiver's data comes from a data frame.
LEMMA TypeStep ==
  ASSUME TypeOK, CallInv, [Next]_vars
  PROVE  TypeOK'
<1> USE BoundsAssumption
<1>0. CallState /\ "T" \in Side /\ "R" \in Side
  BY DEF TypeOK, CallState, Side
<1>1. CASE transmitter_connect
  <2>0. /\ connects < MaxConnects /\ connects' = connects + 1
        /\ frame_number' = [frame_number EXCEPT !["T"] = 0]
        /\ UNCHANGED <<num_frames, packet, confirmed, delivered>>
    BY <1>1 DEF transmitter_connect
  <2>3. connects' \in 0..MaxConnects /\ frame_number' \in [Side -> Nat]
    <3>1. connects' \in 0..MaxConnects
      BY <2>0 DEF TypeOK
    <3>2. frame_number' \in [Side -> Nat]
      BY <2>0 DEF TypeOK
    <3> QED BY <3>1, <3>2
  <2>1. CASE /\ Suffer({"port"})
             /\ retval' = [retval EXCEPT !["T"] = -1]
             /\ UNCHANGED <<op, ntries, is_active, line>>
    <3>1. faults' \in [Faults -> Nat]
      BY <1>0, <2>1, Suffering DEF CallState, Faults
    <3>2. retval' \in [Side -> {0, -1}]
      BY <2>1 DEF TypeOK
    <3> QED BY <2>0, <2>1, <2>3, <3>1, <3>2 DEF TypeOK
  <2>2. CASE \E k \in 0..Len(line["T"]) :
               Begin("T", "transmitter_connect", 0, NoPacket,
                     [line EXCEPT !["T"] = SubSeq(@, k + 1, Len(@))])
    <3> DEFINE flushed(k) == [line EXCEPT !["T"] = SubSeq(@, k + 1, Len(@))]
    <3>1. PICK k \in 0..Len(line["T"]) :
               Begin("T", "transmitter_connect", 0, NoPacket, flushed(k))
      BY <2>2
    <3>2. flushed(k) \in [Side -> Seq(Frame)]
      <4>1. line["T"] \in Seq(Frame)
        BY <1>0 DEF CallState
      <4>2. SubSeq(line["T"], k + 1, Len(line["T"])) \in Seq(Frame)
        BY <4>1
      <4> QED BY <1>0, <4>2 DEF CallState
    <3> HIDE DEF flushed
    <3>3. "transmitter_connect" \in Exchanges /\ NoPacket \in 0..MaxPackets /\ 0 \in Nat
      BY DEF Exchanges, NoPacket
    <3>4. CallState'
      BY <1>0, <3>1, <3>2, <3>3, BeginType
    <3> QED BY <2>0, <2>3, <3>4 DEF TypeOK, CallState
  <2> QED BY <1>1, <2>1, <2>2 DEF transmitter_connect
<1>2. CASE transmitter_write
  <2>1. CallState'
    BY <1>0, <1>2, BeginType DEF transmitter_write, Exchanges, TypeOK
  <2> QED BY <1>2, <2>1 DEF transmitter_write, TypeOK, CallState
<1>3. CASE receiver_listen
  <2>1. CASE Suffer({"port"}) /\ retval' = [retval EXCEPT !["R"] = -1] /\ UNCHANGED op
    <3>1. faults' \in [Faults -> Nat]
      BY <1>0, <2>1, Suffering DEF CallState, Faults
    <3> QED BY <1>3, <2>1, <3>1 DEF receiver_listen, TypeOK
  <2>2. CASE op' = [op EXCEPT !["R"] = "receiver_listen"] /\ UNCHANGED <<retval, faults>>
    BY <1>3, <2>2 DEF receiver_listen, TypeOK, Ops
  <2> QED BY <1>3, <2>1, <2>2 DEF receiver_listen
<1>4. CASE listen_receive
  <2>1. PICK in \in f_receive_frame("R") :
       \/ /\ \E out \in f_send_frame("R", FRAME(C_UA), in.line) :
               /\ line' = out.line
               /\ Suffer(in.kinds \cup out.kinds)
          /\ op' = [op EXCEPT !["R"] = "none"]
          /\ is_active' = [is_active EXCEPT !["R"] = TRUE]
          /\ retval' = [retval EXCEPT !["R"] = 0]
       \/ /\ line' = in.line
          /\ Suffer(in.kinds)
          /\ UNCHANGED <<op, is_active, retval>>
    BY <1>4 DEF listen_receive
  <2>2. in.line \in [Side -> Seq(Frame)] /\ in.kinds \subseteq Faults
    BY <1>0, Receiving
  <2>3. line' \in [Side -> Seq(Frame)] /\ faults' \in [Faults -> Nat]
    <3>1. CASE line' = in.line /\ Suffer(in.kinds)
      BY <1>0, <2>2, <3>1, Suffering DEF CallState
    <3>2. ASSUME NEW out \in f_send_frame("R", FRAME(C_UA), in.line),
                 line' = out.line, Suffer(in.kinds \cup out.kinds)
          PROVE  line' \in [Side -> Seq(Frame)] /\ faults' \in [Faults -> Nat]
      <4>1. out.line \in [Side -> Seq(Frame)] /\ out.kinds \subseteq Faults
        BY <1>0, <2>2, Sending, SupervisionFrames
      <4>2. in.kinds \cup out.kinds \in SUBSET Faults
        BY <2>2, <4>1
      <4> QED BY <1>0, <3>2, <4>1, <4>2, Suffering DEF CallState
    <3> QED BY <2>1, <3>1, <3>2
  <2>4. op' \in [Side -> Ops] /\ is_active' \in [Side -> BOOLEAN] /\ retval' \in [Side -> {0, -1}]
    BY <1>0, <2>1 DEF CallState, Ops
  <2> QED BY <1>4, <2>3, <2>4 DEF listen_receive, TypeOK
<1>5. CASE receiver_read
  BY <1>5 DEF receiver_read, TypeOK, Ops
<1>6. CASE read_receive
  <2>1. PICK in \in f_receive_frame("R") : Reject(in) \/ Accept(in) \/ Disconnected(in)
    BY <1>6 DEF read_receive
  <2>2. in.line \in [Side -> Seq(Frame)] /\ in.kinds \subseteq Faults
    BY <1>0, Receiving
  <2>3. ASSUME NEW f \in Frame, NEW out \in f_send_frame("R", f, in.line)
        PROVE  /\ out.line \in [Side -> Seq(Frame)]
               /\ in.kinds \cup out.kinds \in SUBSET Faults
    BY <1>0, <2>2, Sending
  <2>4. frame_number["R"] \in Nat
    BY <1>0 DEF TypeOK
  <2>5. CASE Reject(in)
    <3>1. PICK out \in f_send_frame("R", FRAME(data_reply_byte(frame_number["R"], FALSE)), in.line) :
             /\ line' = out.line
             /\ Suffer(in.kinds \cup out.kinds)
             /\ \/ UNCHANGED <<op, retval, num_frames>>
                \/ ReadReturns
      BY <2>5 DEF Reject
    <3>2. line' \in [Side -> Seq(Frame)] /\ in.kinds \cup out.kinds \in SUBSET Faults
      BY <2>3, <2>4, <3>1, SupervisionFrames
    <3>3. faults' \in [Faults -> Nat]
      BY <1>0, <3>1, <3>2, Suffering DEF CallState
    <3>4. op' \in [Side -> Ops] /\ retval' \in [Side -> {0, -1}] /\ num_frames' \in Nat
      <4>1. CASE ReadReturns
        BY <4>1 DEF ReadReturns, TypeOK, Ops
      <4>2. CASE UNCHANGED <<op, retval, num_frames>>
        BY <4>2 DEF TypeOK
      <4> QED BY <3>1, <4>1, <4>2
    <3> QED BY <1>6, <2>5, <3>2, <3>3, <3>4 DEF read_receive, Reject, TypeOK
  <2>6. CASE Accept(in)
    <3>0. PICK out \in f_send_frame("R", FRAME(data_reply_byte(frame_number["R"], TRUE)), in.line) :
             /\ line' = out.line
             /\ Suffer(in.kinds \cup out.kinds)
             /\ \/ /\ frame_number' = [frame_number EXCEPT !["R"] = @ + 1]
                   /\ \/ ReadReturns
                      \/ num_frames' = num_frames + 1 /\ UNCHANGED <<op, retval>>
                \/ ReadReturns /\ UNCHANGED frame_number
      BY <2>6 DEF Accept
    <3>1.    /\ line' = out.line
             /\ Suffer(in.kinds \cup out.kinds)
             /\ frame_number' = [frame_number EXCEPT !["R"] = @ + 1] \/ UNCHANGED frame_number
             /\ ReadReturns \/ (num_frames' = num_frames + 1 /\ UNCHANGED <<op, retval>>)
      BY <3>0
    <3>2. line' \in [Side -> Seq(Frame)] /\ in.kinds \cup out.kinds \in SUBSET Faults
      BY <2>3, <2>4, <3>1, SupervisionFrames
    <3>3. faults' \in [Faults -> Nat]
      BY <1>0, <3>1, <3>2, Suffering DEF CallState
    <3>4. op' \in [Side -> Ops] /\ retval' \in [Side -> {0, -1}] /\ num_frames' \in Nat
      <4>1. CASE ReadReturns
        BY <4>1 DEF ReadReturns, TypeOK, Ops
      <4>2. CASE num_frames' = num_frames + 1 /\ UNCHANGED <<op, retval>>
        BY <4>2 DEF TypeOK
      <4> QED BY <3>1, <4>1, <4>2
    <3>5. frame_number' \in [Side -> Nat]
      <4>1. CASE frame_number' = [frame_number EXCEPT !["R"] = @ + 1]
        BY <1>0, <2>4, <4>1 DEF TypeOK
      <4>2. CASE UNCHANGED frame_number
        BY <4>2 DEF TypeOK
      <4> QED BY <3>1, <4>1, <4>2
    <3>6. delivered' \in Seq(1..MaxPackets)
      <4>1. line["R"] # <<>> /\ in.control = Head(line["R"]).control /\ in.data = Head(line["R"]).data
        BY <1>0, <2>6, Receiving DEF Accept
      <4>2. Head(line["R"]) \in Frame
        BY <1>0, <4>1 DEF CallState
      <4>3. in.control \in {0, 64}
        BY <2>4, <2>6, ControlBytes DEF Accept, Expected
      <4>4. in.data \in 1..MaxPackets
        BY <4>1, <4>2, <4>3, FrameFields
      <4> QED BY <2>6, <4>4 DEF Accept, TypeOK
    <3> QED BY <1>6, <2>6, <3>2, <3>3, <3>4, <3>5, <3>6 DEF read_receive, Accept, TypeOK
  <2>7. CASE Disconnected(in)
    <3>1. CallState'
      BY <1>0, <2>2, <2>4, <2>7, BeginType DEF Disconnected, Exchanges, NoPacket
    <3> QED BY <1>6, <2>7, <3>1 DEF read_receive, Disconnected, TypeOK, CallState
  <2> QED BY <2>1, <2>5, <2>6, <2>7
<1>7. ASSUME NEW s \in Side, disconnect(s)
      PROVE  TypeOK'
  <2>1. frame_number[s] \in Nat /\ line \in [Side -> Seq(Frame)]
    BY DEF TypeOK
  <2>2. CallState'
    BY <1>0, <1>7, <2>1, BeginType DEF disconnect, Exchanges, NoPacket
  <2> QED BY <1>7, <2>2 DEF disconnect, TypeOK, CallState
<1>8. ASSUME NEW s \in Side, NEW in, op[s] \in Exchanges, AckStep(s, in),
             in.line \in [Side -> Seq(Frame)], in.kinds \subseteq Faults
      PROVE  TypeOK'
  <2>1. ntries[s] > 0
    BY <1>8 DEF CallInv
  <2>2. op[s] = "transmitter_write" => packet \in 1..MaxPackets
    BY DEF CallInv, TypeOK, Side
  <2>3. /\ CallState'
        /\ frame_number' \in [Side -> Nat]
        /\ confirmed' \subseteq 1..MaxPackets
    BY <1>8, <2>1, <2>2, AckStepType
  <2> QED BY <1>8, <2>3 DEF AckStep, TypeOK, CallState
<1>9. ASSUME NEW s \in Side, receive_reply(s)
      PROVE  TypeOK'
  BY <1>8, <1>9, Receiving DEF receive_reply
<1>10. ASSUME NEW s \in Side, timeout(s)
       PROVE  TypeOK'
  <2>1. TimedOut.line = line /\ TimedOut.kinds = {}
    BY DEF TimedOut
  <2> QED BY <1>0, <1>8, <1>10, <2>1 DEF timeout, CallState
<1>11. ASSUME NEW s \in Side, crash(s)
       PROVE  TypeOK'
  <2>1. [line EXCEPT ![s] = <<>>] \in [Side -> Seq(Frame)]
    <3>1. <<>> \in Seq(Frame)
      OBVIOUS
    <3> QED BY <1>0, <3>1 DEF CallState
  <2> QED BY <1>11, <2>1, RetransmissionsAssumption DEF crash, TypeOK, Ops
<1>14. CASE wait_for_disconnect
  BY <1>14 DEF wait_for_disconnect, TypeOK, Ops
<1>15. CASE wait_receive
  <2>1. PICK in \in f_receive_frame("R") :
          \/ Begin("R", "handle_disconnect", frame_number["R"], NoPacket, in.line)
          \/ line' = in.line /\ Suffer(in.kinds) /\ UNCHANGED <<op, ntries, is_active, retval>>
    BY <1>15 DEF wait_receive
  <2>2. in.line \in [Side -> Seq(Frame)] /\ in.kinds \in SUBSET Faults
    BY <1>0, Receiving
  <2>3. CASE Begin("R", "handle_disconnect", frame_number["R"], NoPacket, in.line)
    <3>1. frame_number["R"] \in Nat
      BY <1>0 DEF TypeOK
    <3>2. CallState'
      BY <1>0, <2>2, <2>3, <3>1, BeginType DEF Exchanges, NoPacket
    <3> QED BY <1>15, <3>2 DEF wait_receive, TypeOK, CallState
  <2>4. CASE line' = in.line /\ Suffer(in.kinds) /\ UNCHANGED <<op, ntries, is_active, retval>>
    <3>1. faults' \in [Faults -> Nat]
      BY <1>0, <2>2, <2>4, Suffering DEF CallState
    <3> QED BY <1>15, <2>2, <2>4, <3>1 DEF wait_receive, TypeOK
  <2> QED BY <2>1, <2>3, <2>4
<1>12. ASSUME NEW s \in Side, lose(s)
       PROVE  TypeOK'
  <2>1. Taken(s) \in [Side -> Seq(Frame)]
    <3>1. Tail(line[s]) \in Seq(Frame)
      BY <1>0, <1>12 DEF CallState, lose
    <3> QED BY <1>0, <3>1 DEF Taken, CallState
  <2>2. faults' \in [Faults -> Nat]
    BY <1>0, <1>12, Suffering DEF lose, CallState, Faults
  <2> QED BY <1>12, <2>1, <2>2 DEF lose, TypeOK
<1>13. CASE UNCHANGED vars
  BY <1>13 DEF vars, TypeOK
<1> QED BY <1>1, <1>2, <1>3, <1>4, <1>5, <1>6, <1>7, <1>9, <1>10, <1>11, <1>12, <1>13,
           <1>14, <1>15 DEF Next

LEMMA ReturnCalls ==
  ASSUME CallState, CallInv, NEW s \in Side, NEW o \in Exchanges, NEW r, NEW ln, NEW kinds,
         packet \in Nat, packet' \in {packet, packet + 1},
         Return(s, o, r, ln, kinds)
  PROVE  CallInv'
<1>1. ntries' = [ntries EXCEPT ![s] = 0]
  BY DEF Return
<1>2. op' \in {[op EXCEPT ![s] = o1] : o1 \in {"none", "closed", "left_open"}}
  BY DEF Return
<1>3. \A t \in Side : t # s => op'[t] = op[t] /\ ntries'[t] = ntries[t]
  BY <1>1, <1>2 DEF CallState
<1>4. op'[s] \in {"none", "closed", "left_open"}
  BY <1>2 DEF CallState
<1> QED BY <1>3, <1>4 DEF CallInv, Side, Exchanges

LEMMA BeginCalls ==
  ASSUME CallState, CallInv, NEW s \in Side, NEW o \in Exchanges,
         o \in {"transmitter_connect", "transmitter_write"} => s = "T",
         o = "handle_disconnect" => s = "R",
         NEW k, NEW p, NEW ln,
         packet \in Nat, packet' \in {packet, packet + 1},
         o = "transmitter_write" => packet' > 0,
         Begin(s, o, k, p, ln)
  PROVE  CallInv'
<1>1. CASE /\ op' = [op EXCEPT ![s] = o]
           /\ ntries' = [ntries EXCEPT ![s] = NumRetransmissions]
  <2>1. \A t \in Side : t # s => op'[t] = op[t] /\ ntries'[t] = ntries[t]
    BY <1>1 DEF CallState
  <2>2. op'[s] = o /\ ntries'[s] > 0
    BY <1>1, RetransmissionsAssumption DEF CallState
  <2> QED BY <2>1, <2>2 DEF CallInv, Side, Exchanges
<1>2. ASSUME NEW out, Return(s, o, -1, out.line, out.kinds)
      PROVE  CallInv'
  BY <1>2, ReturnCalls
<1> QED BY <1>1, <1>2 DEF Begin

LEMMA CallStep ==
  ASSUME TypeOK, CallInv, [Next]_vars
  PROVE  CallInv'
<1>0. /\ CallState /\ "T" \in Side /\ "R" \in Side
      /\ packet \in Nat
      /\ {"transmitter_connect", "transmitter_write", "disconnect",
           "handle_disconnect"} \subseteq Exchanges
  BY BoundsAssumption DEF TypeOK, CallState, Side, Exchanges
<1>1. CASE transmitter_connect
  <2>1. packet' = packet
    BY <1>1 DEF transmitter_connect
  <2>2. CASE UNCHANGED <<op, ntries>>
    BY <2>1, <2>2 DEF CallInv
  <2>3. ASSUME NEW ln, Begin("T", "transmitter_connect", 0, NoPacket, ln)
        PROVE  CallInv'
    BY <1>0, <2>1, <2>3, BeginCalls
  <2> QED BY <1>1, <2>2, <2>3 DEF transmitter_connect
<1>2. CASE transmitter_write
  <2>1. /\ packet' = packet + 1
        /\ Begin("T", "transmitter_write", frame_number["T"], packet + 1, line)
    BY <1>2 DEF transmitter_write
  <2> QED BY <1>0, <2>1, BeginCalls
<1>3. CASE receiver_listen
  <2>1. UNCHANGED <<ntries, packet>> /\ op' \in {op, [op EXCEPT !["R"] = "receiver_listen"]}
    BY <1>3 DEF receiver_listen
  <2> QED BY <1>0, <2>1 DEF CallInv, CallState, Side, Exchanges
<1>4. CASE listen_receive
  <2>1. UNCHANGED <<ntries, packet>> /\ op' \in {op, [op EXCEPT !["R"] = "none"]}
    BY <1>4 DEF listen_receive
  <2> QED BY <1>0, <2>1 DEF CallInv, CallState, Side, Exchanges
<1>5. CASE receiver_read
  <2>1. UNCHANGED <<ntries, packet>> /\ op' = [op EXCEPT !["R"] = "receiver_read"]
    BY <1>5 DEF receiver_read
  <2> QED BY <1>0, <2>1 DEF CallInv, CallState, Side, Exchanges
<1>6. CASE read_receive
  <2>1. PICK in \in f_receive_frame("R") : Reject(in) \/ Accept(in) \/ Disconnected(in)
    BY <1>6 DEF read_receive
  <2>2. packet' = packet
    BY <1>6 DEF read_receive
  <2>3. CASE Reject(in) \/ Accept(in)
    <3>1. UNCHANGED ntries /\ op' \in {op, [op EXCEPT !["R"] = "none"]}
      BY <2>3 DEF Reject, Accept, ReadReturns
    <3> QED BY <1>0, <2>2, <3>1 DEF CallInv, CallState, Side, Exchanges
  <2>4. CASE Disconnected(in)
    BY <1>0, <2>2, <2>4, BeginCalls DEF Disconnected
  <2> QED BY <2>1, <2>3, <2>4
<1>7. ASSUME NEW s \in Side, disconnect(s)
      PROVE  CallInv'
  BY <1>0, <1>7, BeginCalls DEF disconnect
<1>8. ASSUME NEW s \in Side, NEW in, op[s] \in Exchanges, AckStep(s, in)
      PROVE  CallInv'
  <2>1. packet' = packet
    BY <1>8 DEF AckStep
  <2>2. ASSUME NEW r, NEW ln, NEW kinds, Return(s, op[s], r, ln, kinds)
        PROVE  CallInv'
    BY <1>0, <1>8, <2>1, <2>2, ReturnCalls
  <2>3. CASE ntries' = [ntries EXCEPT ![s] = Left(s, in)] /\ Left(s, in) > 0 /\ UNCHANGED op
    BY <1>0, <2>1, <2>3 DEF CallInv, CallState, Side
  <2>4. CASE Complete(s, in)
    BY <2>2, <2>4 DEF Complete
  <2>5. CASE GiveUp(s, in)
    BY <2>2, <2>5 DEF GiveUp
  <2>6. CASE Resend(s, in)
    BY <2>2, <2>3, <2>6 DEF Resend
  <2> QED BY <1>8, <2>4, <2>5, <2>6 DEF AckStep
<1>9. ASSUME NEW s \in Side, receive_reply(s) \/ timeout(s)
      PROVE  CallInv'
  BY <1>8, <1>9 DEF receive_reply, timeout
<1>10. ASSUME NEW s \in Side, crash(s)
       PROVE  CallInv'
  <2>1. /\ op' = [op EXCEPT ![s] = "crashed"] /\ ntries' = [ntries EXCEPT ![s] = 0]
        /\ packet' = packet
    BY <1>10 DEF crash
  <2> QED BY <1>0, <2>1 DEF CallInv, CallState, Side, Exchanges
<1>11. ASSUME NEW s \in Side, lose(s)
       PROVE  CallInv'
  BY <1>11 DEF lose, CallInv
<1>12. CASE UNCHANGED vars
  BY <1>12 DEF vars, CallInv
<1>13. CASE wait_for_disconnect
  <2>1. UNCHANGED <<ntries, packet>> /\ op' = [op EXCEPT !["R"] = "wait_for_disconnect"]
    BY <1>13 DEF wait_for_disconnect
  <2> QED BY <1>0, <2>1 DEF CallInv, CallState, Side, Exchanges
<1>14. CASE wait_receive
  <2>1. packet' = packet
    BY <1>14 DEF wait_receive
  <2>2. CASE UNCHANGED <<op, ntries>>
    BY <2>1, <2>2 DEF CallInv
  <2>3. ASSUME NEW ln, Begin("R", "handle_disconnect", frame_number["R"], NoPacket, ln)
        PROVE  CallInv'
    BY <1>0, <2>1, <2>3, BeginCalls
  <2> QED BY <1>14, <2>2, <2>3 DEF wait_receive
<1> QED BY <1>1, <1>2, <1>3, <1>4, <1>5, <1>6, <1>7, <1>9, <1>10, <1>11, <1>12, <1>13,
           <1>14 DEF Next

LEMMA TypeInit == Init => TypeOK /\ CallInv
<1> SUFFICES ASSUME Init PROVE TypeOK /\ CallInv
  OBVIOUS
<1>1. TypeOK
  BY BoundsAssumption, RetransmissionsAssumption DEF Init, TypeOK, Ops
<1>2. CallInv
  BY DEF Init, CallInv, Side, Exchanges
<1> QED BY <1>1, <1>2

\* Every variable keeps its type: in particular receiver_read never delivers a
\* supervision frame as data, and no attempt counter leaves its range.
THEOREM TypeCorrect == Spec => [](TypeOK /\ CallInv)
<1>1. Init => TypeOK /\ CallInv
  BY TypeInit
<1>2. (TypeOK /\ CallInv) /\ [Next]_vars => (TypeOK /\ CallInv)'
  BY TypeStep, CallStep
<1> QED BY <1>1, <1>2, PTL DEF Spec
-----------------------------------------------------------------------------
(* What the steps do to the lines.                                         *)

\* q2 is what is left of q1 after some of its first frames are gone, with at most
\* one frame more at its end, one of F.
Follows(q2, q1, F) ==
  \E k \in Nat : \A i \in DOMAIN q2 :
    \/ i + k \in DOMAIN q1 /\ q2[i] = q1[i + k]
    \/ i = Len(q2) /\ q2[i] \in F

\* Some of the frames on the lines may be gone, none has been added.
Thinned(ln) == \A s \in Side : Follows(ln[s], line[s], {})

\* The frames that can be added to a line without a second thought: to the
\* transmitter's any but an RR; to the receiver's the data frame the transmitter
\* is at or, when it is not writing, no data frame at all.
NotRR   == {f \in Frame : ~IsRR(f)}
NoData  == {f \in Frame : ~IsData(f)}
Current == {f \in Frame : IsData(f) => f.control = data_control_byte(n)}

LinesInv == Window /\ ReplyInv /\ CopyInv /\ FreshInv

\* A step that leaves the transmitter alone, but for frames that are no RR.
SparesTransmitter ==
  /\ UNCHANGED frame_number
  /\ op'["T"] = op["T"] /\ is_active'["T"] = is_active["T"]
  /\ Follows(line'["T"], line["T"], NotRR)
  /\ Follows(line'["R"], line["R"], {})

-----------------------------------------------------------------------------
LEMMA FollowsRules ==
  ASSUME NEW S, NEW q \in Seq(S), NEW F
  PROVE  /\ Follows(q, q, F)
         /\ q # <<>> => Follows(Tail(q), q, F)
         /\ Follows(<<>>, q, F)
         /\ \A k \in 0..Len(q) : Follows(SubSeq(q, k + 1, Len(q)), q, F)
<1>1. Follows(q, q, F)
  <2>1. \A i \in DOMAIN q : i + 0 \in DOMAIN q /\ q[i] = q[i + 0]
    OBVIOUS
  <2> QED BY <2>1 DEF Follows
<1>2. ASSUME q # <<>> PROVE Follows(Tail(q), q, F)
  <2>1. \A i \in DOMAIN Tail(q) : i + 1 \in DOMAIN q /\ Tail(q)[i] = q[i + 1]
    BY <1>2
  <2> QED BY <2>1 DEF Follows
<1>3. Follows(<<>>, q, F)
  <2>1. \A i \in DOMAIN <<>> : FALSE
    OBVIOUS
  <2> QED BY <2>1 DEF Follows
<1>4. ASSUME NEW k \in 0..Len(q) PROVE Follows(SubSeq(q, k + 1, Len(q)), q, F)
  <2>1. \A i \in DOMAIN SubSeq(q, k + 1, Len(q)) :
          i + k \in DOMAIN q /\ SubSeq(q, k + 1, Len(q))[i] = q[i + k]
    OBVIOUS
  <2>2. k \in Nat
    OBVIOUS
  <2> QED BY <2>1, <2>2 DEF Follows
<1> QED BY <1>1, <1>2, <1>3, <1>4

\* A thinned line may get one frame.
LEMMA FollowsAppend ==
  ASSUME NEW S, NEW q1 \in Seq(S), NEW q2 \in Seq(S), Follows(q2, q1, {}), NEW F, NEW f \in F
  PROVE  Follows(Append(q2, f), q1, F) /\ Follows(q2, q1, F)
<1>1. PICK k \in Nat : \A i \in DOMAIN q2 : i + k \in DOMAIN q1 /\ q2[i] = q1[i + k]
  BY DEF Follows
<1>2. Follows(q2, q1, F)
  BY <1>1 DEF Follows
<1>3. \A i \in DOMAIN Append(q2, f) :
        \/ i + k \in DOMAIN q1 /\ Append(q2, f)[i] = q1[i + k]
        \/ i = Len(Append(q2, f)) /\ Append(q2, f)[i] \in F
  <2>1. DOMAIN Append(q2, f) = 1..(Len(q2) + 1) /\ Len(Append(q2, f)) = Len(q2) + 1
    OBVIOUS
  <2>2. \A i \in DOMAIN q2 : Append(q2, f)[i] = q2[i]
    OBVIOUS
  <2>3. Append(q2, f)[Len(q2) + 1] = f
    OBVIOUS
  <2>4. DOMAIN q2 = 1..Len(q2) /\ Len(q2) \in Nat
    OBVIOUS
  <2>5. \A i \in 1..(Len(q2) + 1) : i \in DOMAIN q2 \/ i = Len(q2) + 1
    BY <2>4
  <2> QED BY <1>1, <2>1, <2>2, <2>3, <2>5
<1> QED BY <1>2, <1>3 DEF Follows

LEMMA FollowsMore ==
  ASSUME NEW q1, NEW q2, NEW F, NEW G, F \subseteq G, Follows(q2, q1, F)
  PROVE  Follows(q2, q1, G)
BY DEF Follows

\* Which reply bytes are RR's.
LEMMA ReplyBytes ==
  /\ data_reply_byte(0, TRUE) = 129 /\ data_reply_byte(1, TRUE) = 1
  /\ \A k \in Nat : data_reply_byte(k, TRUE) \in {1, 129}
  /\ \A k \in Nat : FRAME(data_reply_byte(k, FALSE)) \in NotRR
  /\ FRAME(C_DISC) \in NotRR /\ FRAME(C_UA) \in NotRR
  /\ FRAME(C_DISC) \in NoData /\ FRAME(C_UA) \in NoData /\ FRAME(C_SET) \in NoData
<1>1. 0 % 2 = 0 /\ 1 % 2 = 1
  OBVIOUS
<1>2. data_reply_byte(0, TRUE) = 129 /\ data_reply_byte(1, TRUE) = 1
  BY <1>1 DEF data_reply_byte, C_RR
<1>3. \A k \in Nat : data_reply_byte(k, TRUE) \in {1, 129} /\ data_reply_byte(k, FALSE) \in {7, 135}
  <2>1. ASSUME NEW k \in Nat
        PROVE  data_reply_byte(k, TRUE) \in {1, 129} /\ data_reply_byte(k, FALSE) \in {7, 135}
    BY ControlBytes, ZenonT(60)
  <2> QED BY <2>1, Zenon
<1>4. \A c : FRAME(c).control = c /\ FRAME(c).data = NoPacket
  BY DEF FRAME
<1>5. \A k \in Nat : FRAME(data_reply_byte(k, FALSE)) \in NotRR
  <2>1. TAKE k \in Nat
  <2>2. FRAME(data_reply_byte(k, FALSE)) \in Frame
    BY SupervisionFrames
  <2>3. data_reply_byte(k, FALSE) \notin {1, 129}
    <3>1. PICK b \in {7, 135} : data_reply_byte(k, FALSE) = b
      BY <1>3, Zenon
    <3>2. b \notin {1, 129}
      OBVIOUS
    <3> QED BY <3>1, <3>2, Zenon
  <2> QED BY <1>2, <1>4, <2>2, <2>3 DEF NotRR, IsRR
<1>6. \A c \in {C_DISC, C_UA, C_SET} : FRAME(c) \in NotRR /\ FRAME(c) \in NoData
  <2>1. TAKE c \in {C_DISC, C_UA, C_SET}
  <2>2. FRAME(c) \in Frame
    BY SupervisionFrames
  <2>3. c \notin {1, 129}
    BY DEF C_DISC, C_UA, C_SET
  <2>4. FRAME(c) \in NotRR
    BY <1>2, <1>4, <2>2, <2>3 DEF NotRR, IsRR
  <2>5. FRAME(c) \in NoData
    BY <1>4, <2>2 DEF NoData, IsData
  <2> QED BY <2>4, <2>5
<1> QED BY <1>2, <1>3, <1>5, <1>6

-----------------------------------------------------------------------------
(* The steps that leave the frame numbers alone.                           *)

LEMMA Kept ==
  ASSUME TypeOK, TypeOK', LinesInv, UNCHANGED frame_number,
         Follows(line'["T"], line["T"], NotRR),
         NEW F \in {NoData, Current}, Follows(line'["R"], line["R"], F),
         Fresh' => Fresh /\ F = NoData
  PROVE  LinesInv'
<1>0. /\ "T" \in Side /\ "R" \in Side
      /\ n' = n /\ m' = m /\ n \in Nat /\ m \in Nat
  BY DEF TypeOK, Side, n, m
<1>1. Window'
  BY DEF LinesInv, Window
<1>2. PICK k \in Nat : \A i \in DOMAIN line'["T"] :
        \/ i + k \in DOMAIN line["T"] /\ line'["T"][i] = line["T"][i + k]
        \/ i = Len(line'["T"]) /\ line'["T"][i] \in NotRR
  BY DEF Follows
<1>3. PICK l \in Nat : \A i \in DOMAIN line'["R"] :
        \/ i + l \in DOMAIN line["R"] /\ line'["R"][i] = line["R"][i + l]
        \/ i = Len(line'["R"]) /\ line'["R"][i] \in F
  BY DEF Follows
<1>4. \A t \in Side : DOMAIN line'[t] = 1..Len(line'[t]) /\ Len(line'[t]) \in Nat
  BY DEF TypeOK
<1>5. \A i \in DOMAIN line'["T"] : IsRR(line'["T"][i]) =>
        i + k \in DOMAIN line["T"] /\ line'["T"][i] = line["T"][i + k]
  BY <1>2 DEF NotRR
<1>6. ReplyInv'
  <2>1. SUFFICES ASSUME NEW i \in DOMAIN line'["T"], IsRR(line'["T"][i])
                 PROVE  /\ line'["T"][i].control = data_reply_byte(n, TRUE)
                        /\ m = n + 1
                        /\ \A j \in DOMAIN line'["T"] : IsRR(line'["T"][j]) => i = j
    BY <1>0 DEF ReplyInv, IsRR
  <2>2. i + k \in DOMAIN line["T"] /\ line'["T"][i] = line["T"][i + k] /\ IsRR(line["T"][i + k])
    BY <1>5, <2>1
  <2>3. /\ line["T"][i + k].control = data_reply_byte(n, TRUE) /\ m = n + 1
        /\ \A j \in DOMAIN line["T"] : IsRR(line["T"][j]) => i + k = j
    BY <2>2 DEF LinesInv, ReplyInv
  <2>4. ASSUME NEW j \in DOMAIN line'["T"], IsRR(line'["T"][j])
        PROVE  i = j
    <3>1. i + k = j + k
      BY <1>5, <2>3, <2>4
    <3>2. i \in Nat /\ j \in Nat
      BY <1>0, <1>4
    <3> QED BY <3>1, <3>2
  <2> QED BY <2>2, <2>3, <2>4
<1>7. CopyInv'
  <2>1. SUFFICES ASSUME NEW i \in DOMAIN line'["R"], IsData(line'["R"][i])
                 PROVE  IF m = n + 1
                          THEN line'["R"][i].control = data_control_byte(n)
                          ELSE line'["R"][i].control = data_control_byte(n) =>
                                 \A j \in DOMAIN line'["R"] :
                                   i < j /\ IsData(line'["R"][j]) =>
                                     line'["R"][j].control = data_control_byte(n)
    BY <1>0 DEF CopyInv, IsData
  <2>2. \A f \in F : IsData(f) => f.control = data_control_byte(n)
    BY DEF NoData, Current
  <2>3. CASE m = n + 1
    BY <1>3, <2>1, <2>2, <2>3 DEF LinesInv, CopyInv
  <2>4. CASE m # n + 1
    <3>1. SUFFICES ASSUME line'["R"][i].control = data_control_byte(n),
                          NEW j \in DOMAIN line'["R"], i < j, IsData(line'["R"][j])
                   PROVE  line'["R"][j].control = data_control_byte(n)
      BY <2>4
    <3>2. CASE j + l \in DOMAIN line["R"] /\ line'["R"][j] = line["R"][j + l]
      <4>1. i \in Nat /\ j \in Nat /\ i # Len(line'["R"])
        BY <1>0, <1>4, <3>1
      <4>2. i + l \in DOMAIN line["R"] /\ line'["R"][i] = line["R"][i + l] /\ i + l < j + l
        <5>1. i + l \in DOMAIN line["R"] /\ line'["R"][i] = line["R"][i + l]
          BY <1>3, <3>1, <4>1
        <5>2. i + l < j + l
          BY <3>1, <4>1
        <5> QED BY <5>1, <5>2
      <4> QED BY <2>1, <2>4, <3>1, <3>2, <4>2 DEF LinesInv, CopyInv
    <3> QED BY <1>3, <2>2, <3>1, <3>2
  <2> QED BY <2>3, <2>4
<1>8. FreshInv'
  <2>1. SUFFICES ASSUME Fresh'
                 PROVE  /\ n' = 0 /\ m' = 0
                        /\ \A i \in DOMAIN line'["T"] : ~IsRR(line'["T"][i])
                        /\ \A i \in DOMAIN line'["R"] : ~IsData(line'["R"][i])
    BY DEF FreshInv, IsRR, IsData
  <2>2. /\ n = 0 /\ m = 0 /\ F = NoData
        /\ \A i \in DOMAIN line["T"] : ~IsRR(line["T"][i])
        /\ \A i \in DOMAIN line["R"] : ~IsData(line["R"][i])
    BY <2>1 DEF LinesInv, FreshInv
  <2> QED BY <1>0, <1>3, <1>5, <2>2 DEF NoData
<1> QED BY <1>1, <1>6, <1>7, <1>8 DEF LinesInv

\* What the operations may do to the lines, given what has been done to them (ln)
\* since the step began.
LEMMA SendLines ==
  ASSUME TypeOK, NEW s \in Side, NEW f \in Frame, NEW ln \in [Side -> Seq(Frame)],
         Thinned(ln), NEW out \in f_send_frame(s, f, ln), NEW F, f \in F
  PROVE  /\ Follows(out.line[Peer(s)], line[Peer(s)], F)
         /\ Follows(out.line[s], line[s], {})
<1>1. Peer(s) \in Side /\ line \in [Side -> Seq(Frame)]
  BY DEF Peer, Side, TypeOK
<1>2. /\ out.line[s] = ln[s]
      /\ out.line[Peer(s)] \in {ln[Peer(s)], Append(ln[Peer(s)], f)}
  BY Sending
<1>3. Follows(ln[Peer(s)], line[Peer(s)], {}) /\ Follows(ln[s], line[s], {})
  BY <1>1 DEF Thinned
<1>4. Follows(Append(ln[Peer(s)], f), line[Peer(s)], F) /\ Follows(ln[Peer(s)], line[Peer(s)], F)
  <2>1. ln[Peer(s)] \in Seq(Frame) /\ line[Peer(s)] \in Seq(Frame)
    BY <1>1
  <2> QED BY <1>3, <2>1, FollowsAppend
<1> QED BY <1>2, <1>3, <1>4

LEMMA ReturnLines ==
  ASSUME TypeOK, NEW s \in Side, NEW o \in Exchanges, NEW r,
         NEW ln \in [Side -> Seq(Frame)], NEW kinds, Return(s, o, r, ln, kinds),
         NEW t \in Side, NEW F, Follows(ln[t], line[t], F)
  PROVE  Follows(line'[t], line[t], F)
<1>1. line' = ln \/ line' = [ln EXCEPT ![s] = <<>>]
  BY DEF Return
<1>2. line[t] \in Seq(Frame)
  BY DEF TypeOK
<1>3. line'[t] = ln[t] \/ line'[t] = <<>>
  BY <1>1
<1> QED BY <1>2, <1>3, FollowsRules

\* What a call leaves its side in, and one that disconnects.
HungUp == {"closed", "left_open"}
Returned == HungUp \cup {"none"}

\* The rest of what Return and Begin do, to either side.
LEMMA ReturnSides ==
  ASSUME TypeOK, NEW s \in Side, NEW o \in Exchanges, NEW r, NEW ln, NEW kinds,
         Return(s, o, r, ln, kinds)
  PROVE  /\ \A t \in Side : t # s => op'[t] = op[t] /\ is_active'[t] = is_active[t]
         /\ op'[s] \in Returned
         /\ o = "transmitter_connect" => is_active'[s] = (is_active[s] \/ r = 0)
         /\ o = "transmitter_write" =>
              /\ is_active'[s] = is_active[s]
              /\ op'[s] = IF is_active[s] THEN "none" ELSE "left_open"
         /\ o \in {"disconnect", "handle_disconnect"} => op'[s] \in HungUp
<1>1. CASE o = "transmitter_connect"
  <2>1. op' = [op EXCEPT ![s] = "none"] /\ is_active' = [is_active EXCEPT ![s] = @ \/ r = 0]
    BY <1>1 DEF Return
  <2> QED BY <1>1, <2>1 DEF TypeOK, Returned
<1>2. CASE o = "transmitter_write"
  <2>1. /\ op' = [op EXCEPT ![s] = IF is_active[s] THEN "none" ELSE "left_open"]
        /\ UNCHANGED is_active
    BY <1>2 DEF Return
  <2>2. op'[s] = IF is_active[s] THEN "none" ELSE "left_open"
    BY <2>1 DEF TypeOK
  <2>3. \A t \in Side : t # s => op'[t] = op[t]
    BY <2>1 DEF TypeOK
  <2>4. op'[s] \in Returned
    BY <2>2 DEF Returned, HungUp
  <2>5. o \notin {"transmitter_connect", "disconnect", "handle_disconnect"}
    BY <1>2
  <2> QED BY <2>1, <2>2, <2>3, <2>4, <2>5
<1>3. CASE o \in {"disconnect", "handle_disconnect"}
  <2>1. /\ op' = [op EXCEPT ![s] = "closed"] \/ op' = [op EXCEPT ![s] = "left_open"]
        /\ is_active' = [is_active EXCEPT ![s] = FALSE]
    BY <1>3 DEF Return
  <2> QED BY <1>3, <2>1 DEF TypeOK, Returned, HungUp
<1> QED BY <1>1, <1>2, <1>3 DEF Exchanges

LEMMA BeginLines ==
  ASSUME TypeOK, NEW s \in Side, NEW o \in Exchanges, NEW k, NEW p,
         NEW ln \in [Side -> Seq(Frame)], Thinned(ln), Begin(s, o, k, p, ln),
         NEW F, OutFrame(o, k, p) \in F, OutFrame(o, k, p) \in Frame
  PROVE  /\ Follows(line'[Peer(s)], line[Peer(s)], F)
         /\ Follows(line'[s], line[s], {})
         /\ \A t \in Side : t # s => op'[t] = op[t] /\ is_active'[t] = is_active[t]
         /\ \/ op'[s] = o /\ is_active'[s] = is_active[s]
            \/ /\ op'[s] \in Returned
               /\ o \in {"transmitter_connect", "transmitter_write"} =>
                    is_active'[s] = is_active[s]
               /\ o = "transmitter_write" =>
                    op'[s] = IF is_active[s] THEN "none" ELSE "left_open"
               /\ o \in {"disconnect", "handle_disconnect"} => op'[s] \in HungUp
<1>1. PICK out \in f_send_frame(s, OutFrame(o, k, p), ln) :
        \/ /\ op' = [op EXCEPT ![s] = o]
           /\ line' = out.line
           /\ UNCHANGED <<is_active, retval>>
        \/ Return(s, o, -1, out.line, out.kinds)
  BY DEF Begin
<1>2. /\ Follows(out.line[Peer(s)], line[Peer(s)], F)
      /\ Follows(out.line[s], line[s], {})
  BY SendLines
<1>3. out.line \in [Side -> Seq(Frame)] /\ Peer(s) \in Side
  BY Sending DEF Peer, Side
<1>4. CASE Return(s, o, -1, out.line, out.kinds)
  <2>1. Follows(line'[Peer(s)], line[Peer(s)], F) /\ Follows(line'[s], line[s], {})
    BY <1>2, <1>3, <1>4, ReturnLines
  <2>2. /\ \A t \in Side : t # s => op'[t] = op[t] /\ is_active'[t] = is_active[t]
        /\ op'[s] \in Returned
        /\ o = "transmitter_connect" => is_active'[s] = (is_active[s] \/ -1 = 0)
        /\ o = "transmitter_write" =>
             /\ is_active'[s] = is_active[s]
             /\ op'[s] = IF is_active[s] THEN "none" ELSE "left_open"
        /\ o \in {"disconnect", "handle_disconnect"} => op'[s] \in HungUp
    BY <1>4, ReturnSides
  <2>3. -1 # 0 /\ is_active[s] \in BOOLEAN
    BY DEF TypeOK
  <2> QED BY <2>1, <2>2, <2>3
<1>5. CASE op' = [op EXCEPT ![s] = o] /\ line' = out.line /\ UNCHANGED <<is_active, retval>>
  BY <1>2, <1>5 DEF TypeOK
<1> QED BY <1>1, <1>4, <1>5

LEMMA ReceiveThins ==
  ASSUME TypeOK, NEW s \in Side, NEW in \in f_receive_frame(s)
  PROVE  in.line \in [Side -> Seq(Frame)] /\ Thinned(in.line)
<1>1. /\ in.line \in [Side -> Seq(Frame)]
      /\ in.line[Peer(s)] = line[Peer(s)]
      /\ in.line[s] = line[s] \/ (line[s] # <<>> /\ in.line[s] = Tail(line[s]))
  BY Receiving
<1>2. \A t \in Side : line[t] \in Seq(Frame)
  BY DEF TypeOK
<1>3. \A t \in Side : t = s \/ t = Peer(s)
  BY DEF Side, Peer
<1>4. Follows(in.line[s], line[s], {})
  BY <1>1, <1>2, FollowsRules
<1>5. Peer(s) \in Side
  BY DEF Side, Peer
<1>6. Follows(in.line[Peer(s)], line[Peer(s)], {})
  BY <1>1, <1>2, <1>5, FollowsRules
<1> QED BY <1>1, <1>3, <1>4, <1>6 DEF Thinned

LEMMA ThinnedLine == ASSUME TypeOK PROVE line \in [Side -> Seq(Frame)] /\ Thinned(line)
BY FollowsRules DEF TypeOK, Thinned

\* Steps that do not concern the transmitter, or lose a frame.
LEMMA ReceiverKeeps ==
  ASSUME TypeOK, TypeOK', LinesInv, SparesTransmitter
  PROVE  LinesInv'
<1> USE DEF SparesTransmitter
<1>1. Follows(line'["R"], line["R"], NoData)
  BY FollowsMore
<1>2. Fresh' => Fresh
  BY DEF Fresh
<1> QED BY <1>1, <1>2, Kept

\* Any step of an exchange but the one that confirms a packet: what it adds to the
\* lines and what it does to its side.
LEMMA AckStepLines ==
  ASSUME TypeOK, NEW s \in Side, op[s] \in Exchanges, NEW in,
         op[s] = "transmitter_write" => packet \in 1..MaxPackets,
         in.line \in [Side -> Seq(Frame)], Thinned(in.line), AckStep(s, in),
         ~(op[s] = "transmitter_write" /\ Accepted(s, in)),
         NEW F, OutFrame(op[s], frame_number[s], packet) \in F, FRAME(C_UA) \in F
  PROVE  /\ UNCHANGED frame_number
         /\ Follows(line'[Peer(s)], line[Peer(s)], F)
         /\ Follows(line'[s], line[s], {})
         /\ \A t \in Side : t # s => op'[t] = op[t] /\ is_active'[t] = is_active[t]
         /\ \/ op'[s] = op[s] /\ is_active'[s] = is_active[s]
            \/ /\ op'[s] \in Returned
               /\ op[s] = "transmitter_connect" => is_active'[s] \in {is_active[s], TRUE}
               /\ op[s] = "transmitter_write" =>
                    op'[s] = "left_open" \/ is_active'[s]
               /\ op[s] \in {"disconnect", "handle_disconnect"} => op'[s] \in HungUp
<1>0. /\ Peer(s) \in Side
      /\ frame_number[s] \in Nat /\ packet \in 0..MaxPackets /\ is_active[s] \in BOOLEAN
  BY DEF Peer, Side, TypeOK
<1>1. OutFrame(op[s], frame_number[s], packet) \in Frame /\ FRAME(C_UA) \in Frame
  BY <1>0, OutFrameType, SupervisionFrames
<1>2. UNCHANGED frame_number
  BY DEF AckStep, Complete, GiveUp, Resend
<1>3. Follows(in.line[s], line[s], {}) /\ Follows(in.line[Peer(s)], line[Peer(s)], F)
  <2>1. Follows(in.line[s], line[s], {}) /\ Follows(in.line[Peer(s)], line[Peer(s)], {})
    BY <1>0 DEF Thinned
  <2> QED BY <2>1, FollowsMore
<1>4. ASSUME NEW r, NEW ln \in [Side -> Seq(Frame)], NEW kinds,
             Return(s, op[s], r, ln, kinds),
             Follows(ln[s], line[s], {}), Follows(ln[Peer(s)], line[Peer(s)], F)
      PROVE  /\ Follows(line'[Peer(s)], line[Peer(s)], F)
             /\ Follows(line'[s], line[s], {})
             /\ \A t \in Side : t # s => op'[t] = op[t] /\ is_active'[t] = is_active[t]
             /\ op'[s] \in Returned
             /\ op[s] = "transmitter_connect" => is_active'[s] \in {is_active[s], TRUE}
             /\ op[s] = "transmitter_write" => op'[s] = "left_open" \/ is_active'[s]
             /\ op[s] \in {"disconnect", "handle_disconnect"} => op'[s] \in HungUp
  <2>1. Follows(line'[Peer(s)], line[Peer(s)], F) /\ Follows(line'[s], line[s], {})
    BY <1>0, <1>4, ReturnLines
  <2>2. /\ \A t \in Side : t # s => op'[t] = op[t] /\ is_active'[t] = is_active[t]
        /\ op'[s] \in Returned
        /\ op[s] = "transmitter_connect" => is_active'[s] = (is_active[s] \/ r = 0)
        /\ op[s] = "transmitter_write" =>
             /\ is_active'[s] = is_active[s]
             /\ op'[s] = IF is_active[s] THEN "none" ELSE "left_open"
        /\ op[s] \in {"disconnect", "handle_disconnect"} => op'[s] \in HungUp
    BY <1>4, ReturnSides
  <2>3. (is_active[s] \/ r = 0) \in {is_active[s], TRUE}
    BY <1>0
  <2> QED BY <2>1, <2>2, <2>3
<1>5. CASE Complete(s, in)
  <2>1. CASE op[s] = "disconnect"
    <3>1. PICK out \in f_send_frame(s, FRAME(C_UA), in.line) :
            Return(s, op[s], IF out.ret = SUCCESS_CODE THEN 0 ELSE -1, out.line,
                   in.kinds \cup out.kinds)
      BY <1>5, <2>1 DEF Complete
    <3>2. out.line \in [Side -> Seq(Frame)]
      BY <1>1, Sending
    <3>3. Follows(out.line[Peer(s)], line[Peer(s)], F) /\ Follows(out.line[s], line[s], {})
      BY <1>1, SendLines
    <3> QED BY <1>2, <1>4, <3>1, <3>2, <3>3
  <2>2. CASE op[s] # "disconnect"
    <3>1. Return(s, op[s], 0, in.line, in.kinds)
      BY <1>5, <2>2 DEF Complete
    <3> QED BY <1>2, <1>3, <1>4, <3>1
  <2> QED BY <2>1, <2>2
<1>6. CASE GiveUp(s, in)
  <2>1. Return(s, op[s], -1, in.line, in.kinds)
    BY <1>6 DEF GiveUp
  <2> QED BY <1>2, <1>3, <1>4, <2>1
<1>7. CASE Resend(s, in)
  <2>1. PICK out \in f_send_frame(s, OutFrame(op[s], frame_number[s], packet), in.line) :
          \/ line' = out.line /\ UNCHANGED <<op, is_active, retval>>
          \/ Return(s, op[s], -1, out.line, in.kinds \cup out.kinds)
    BY <1>7 DEF Resend
  <2>2. out.line \in [Side -> Seq(Frame)]
    BY <1>1, Sending
  <2>3. Follows(out.line[Peer(s)], line[Peer(s)], F) /\ Follows(out.line[s], line[s], {})
    BY <1>1, SendLines
  <2>4. CASE line' = out.line /\ UNCHANGED <<op, is_active, retval>>
    BY <1>2, <2>3, <2>4
  <2>5. CASE Return(s, op[s], -1, out.line, in.kinds \cup out.kinds)
    BY <1>2, <1>4, <2>2, <2>3, <2>5
  <2> QED BY <2>1, <2>4, <2>5
<1> QED BY <1>5, <1>6, <1>7 DEF AckStep

LEMMA ReceiverExchange ==
  ASSUME TypeOK, CallInv, op["R"] \in Exchanges, NEW in,
         in.line \in [Side -> Seq(Frame)], Thinned(in.line), AckStep("R", in)
  PROVE  SparesTransmitter
<1> DEFINE sent == OutFrame(op["R"], frame_number["R"], packet)
<1>1. /\ "T" \in Side /\ "R" \in Side /\ Peer("R") = "T" /\ "T" # "R"
      /\ op["R"] # "transmitter_write"
  BY DEF Side, Peer, CallInv
<1>2. sent = FRAME(C_DISC)
  BY DEF CallInv, OutFrame
<1>3. sent \in NotRR /\ FRAME(C_UA) \in NotRR
  BY <1>2, ReplyBytes
<1> HIDE DEF sent
<1>4. /\ UNCHANGED frame_number
      /\ Follows(line'["T"], line["T"], NotRR) /\ Follows(line'["R"], line["R"], {})
      /\ op'["T"] = op["T"] /\ is_active'["T"] = is_active["T"]
  BY <1>1, <1>3, AckStepLines, ZenonT(60) DEF sent
<1> QED BY <1>4 DEF SparesTransmitter

LEMMA ExchangeKeeps ==
  ASSUME TypeOK, TypeOK', CallInv, LinesInv, NEW s \in Side, op[s] \in Exchanges, NEW in,
         in.line \in [Side -> Seq(Frame)], Thinned(in.line), AckStep(s, in),
         ~(op[s] = "transmitter_write" /\ Accepted(s, in))
  PROVE  LinesInv'
<1> DEFINE sent == OutFrame(op[s], frame_number[s], packet)
<1>0. /\ op[s] = "transmitter_write" => packet \in 1..MaxPackets
      /\ "T" \in Side /\ "R" \in Side /\ Peer("T") = "R" /\ Peer("R") = "T"
      /\ frame_number[s] \in Nat
  <2>1. op[s] = "transmitter_write" => packet \in 1..MaxPackets
    <3>1. s = "R" => op[s] # "transmitter_write"
      BY DEF CallInv
    <3>2. s = "T" => (op[s] = "transmitter_write" => packet > 0)
      BY DEF CallInv
    <3>3. packet \in 0..MaxPackets /\ s \in {"T", "R"}
      BY DEF TypeOK, Side
    <3> QED BY <3>1, <3>2, <3>3
  <2>2. "T" \in Side /\ "R" \in Side /\ Peer("T") = "R" /\ Peer("R") = "T"
    BY DEF Side, Peer
  <2>3. frame_number[s] \in Nat
    BY DEF TypeOK
  <2> QED BY <2>1, <2>2, <2>3, Zenon
<1>1. CASE s = "R"
  BY <1>1, ReceiverExchange, ReceiverKeeps
<1>2. CASE s = "T"
  <2> DEFINE F == IF op["T"] = "transmitter_write" THEN Current ELSE NoData
  <2>1. sent \in F /\ FRAME(C_UA) \in F
    <3>1. FRAME(C_UA) \in NoData /\ FRAME(C_SET) \in NoData /\ FRAME(C_DISC) \in NoData
      BY ReplyBytes
    <3>2. CASE op["T"] = "transmitter_write"
      <4>1. sent \in Frame
        BY <1>0, <1>2, OutFrameType DEF TypeOK
      <4>2. sent = [control |-> data_control_byte(n), data |-> packet]
        BY <1>2, <3>2 DEF OutFrame, n
      <4>3. sent.control = data_control_byte(n)
        BY <4>2
      <4> HIDE DEF sent
      <4> QED BY <3>1, <3>2, <4>1, <4>3 DEF Current, NoData
    <3>3. CASE op["T"] # "transmitter_write"
      BY <1>2, <3>1, <3>3 DEF OutFrame
    <3> QED BY <3>2, <3>3
  <2> HIDE DEF sent, F
  <2>2. /\ UNCHANGED frame_number
        /\ Follows(line'["R"], line["R"], F) /\ Follows(line'["T"], line["T"], {})
        /\ \/ op'["T"] = op["T"] /\ is_active'["T"] = is_active["T"]
           \/ /\ op'["T"] \in Returned
              /\ op["T"] = "transmitter_connect" =>
                   is_active'["T"] \in {is_active["T"], TRUE}
              /\ op["T"] = "transmitter_write" => op'["T"] = "left_open" \/ is_active'["T"]
              /\ op["T"] \in {"disconnect", "handle_disconnect"} => op'["T"] \in HungUp
    BY <1>0, <1>2, <2>1, AckStepLines DEF sent
  <2>3. Follows(line'["T"], line["T"], NotRR)
    BY <2>2, FollowsMore
  <2>5. F \in {NoData, Current}
    BY DEF F
  <2>6. Fresh' => Fresh /\ F = NoData
    BY <1>2, <2>2 DEF Fresh, F, Exchanges, Returned, HungUp
  <2> QED BY <2>2, <2>3, <2>5, <2>6, Kept
<1> QED BY <1>1, <1>2 DEF Side

-----------------------------------------------------------------------------
(* The two steps that move a frame number.                                 *)

\* The transmitter takes an RR: it is the only one, the receiver is one ahead, and
\* the frames still on their way to it are copies that it will reject.
LEMMA Confirming ==
  ASSUME RepliesAreSafe, TypeOK, LinesInv,
         op["T"] = "transmitter_write", NEW in \in f_receive_frame("T"),
         Accepted("T", in), AckStep("T", in)
  PROVE  /\ n' = n + 1 /\ m' = m /\ m = n + 1
         /\ op'["T"] \in {"none", "left_open"} /\ (op'["T"] = "none" => is_active'["T"])
         /\ line["T"] # <<>> /\ line'["T"] = Tail(line["T"]) /\ line'["R"] = line["R"]
         /\ \A j \in DOMAIN line["T"] : IsRR(line["T"][j]) => j = 1
         /\ \A i \in DOMAIN line["R"] :
              IsData(line["R"][i]) => line["R"][i].control = data_control_byte(n)
         /\ confirmed' = confirmed \cup {packet}
         /\ UNCHANGED <<packet, delivered>>
<1>0. /\ "T" \in Side /\ "R" \in Side /\ Peer("T") = "R"
      /\ n \in Nat /\ m \in Nat /\ line["T"] \in Seq(Frame)
  BY DEF TypeOK, Side, Peer, n, m
<1>1. /\ in.control = data_reply_byte(n, TRUE)
      /\ frame_number' = [frame_number EXCEPT !["T"] = @ + 1]
      /\ Return("T", "transmitter_write", 0, in.line, in.kinds)
      /\ confirmed' = confirmed \cup {packet}
      /\ UNCHANGED <<packet, delivered>>
  <2>1. in.control = data_reply_byte(n, TRUE)
    BY DEF Accepted, Wanted, n
  <2>2. Complete("T", in) /\ UNCHANGED <<packet, delivered>>
    BY DEF AckStep, GiveUp, Resend
  <2> QED BY <2>1, <2>2 DEF Complete
<1>2. /\ line' = in.line
      /\ op'["T"] \in {"none", "left_open"} /\ (op'["T"] = "none" => is_active'["T"])
  BY <1>0, <1>1 DEF Return, TypeOK
<1>3. n' = n + 1 /\ m' = m
  BY <1>0, <1>1 DEF n, m, TypeOK
<1>4. in.control \in {1, 129} /\ in.control \notin Misread \cup {0}
  <2>1. in.control \in {1, 129}
    BY <1>0, <1>1, ReplyBytes
  <2>2. Misread \cap {129, 1} = {}
    BY ReplyBytes DEF RepliesAreSafe
  <2> QED BY <2>1, <2>2
<1>5. /\ line["T"] # <<>> /\ in.line["T"] = Tail(line["T"])
      /\ line["T"][1].control = in.control
      /\ in.line["R"] = line["R"]
  BY <1>0, <1>4, Receiving
<1>6. 1 \in DOMAIN line["T"] /\ IsRR(line["T"][1])
  <2>1. 1 \in DOMAIN line["T"]
    BY <1>0, <1>5
  <2> QED BY <1>4, <1>5, <2>1, ReplyBytes DEF IsRR
<1>7. m = n + 1 /\ \A j \in DOMAIN line["T"] : IsRR(line["T"][j]) => j = 1
  BY <1>6 DEF LinesInv, ReplyInv
<1>8. \A i \in DOMAIN line["R"] : IsData(line["R"][i]) => line["R"][i].control = data_control_byte(n)
  BY <1>7 DEF LinesInv, CopyInv
<1> QED BY <1>1, <1>2, <1>3, <1>5, <1>7, <1>8

LEMMA ConfirmKeeps ==
  ASSUME RepliesAreSafe, TypeOK, TypeOK', LinesInv,
         op["T"] = "transmitter_write", NEW in \in f_receive_frame("T"),
         Accepted("T", in), AckStep("T", in)
  PROVE  LinesInv'
<1>0. n \in Nat /\ m \in Nat /\ line["T"] \in Seq(Frame)
  BY DEF TypeOK, Side, n, m
<1>1. /\ n' = n + 1 /\ m' = m /\ m = n + 1
      /\ op'["T"] \in {"none", "left_open"} /\ (op'["T"] = "none" => is_active'["T"])
      /\ line["T"] # <<>> /\ line'["T"] = Tail(line["T"]) /\ line'["R"] = line["R"]
      /\ \A j \in DOMAIN line["T"] : IsRR(line["T"][j]) => j = 1
      /\ \A i \in DOMAIN line["R"] :
           IsData(line["R"][i]) => line["R"][i].control = data_control_byte(n)
  BY Confirming
<1>9. Window'
  BY <1>0, <1>1 DEF Window, n, m
<1>10. ReplyInv'
  <2>1. \A i \in DOMAIN Tail(line["T"]) :
          i + 1 \in DOMAIN line["T"] /\ i + 1 # 1 /\ Tail(line["T"])[i] = line["T"][i + 1]
    BY <1>0, <1>1
  <2>2. \A i \in DOMAIN line'["T"] : ~IsRR(line'["T"][i])
    BY <1>1, <2>1
  <2> QED BY <2>2 DEF ReplyInv, IsRR
<1>11. CopyInv'
  <2>1. m' # n' + 1
    BY <1>0, <1>1
  <2>2. \A i \in DOMAIN line'["R"] : IsData(line'["R"][i]) => line'["R"][i].control # data_control_byte(n')
    <3>1. data_control_byte(n + 1) # data_control_byte(n)
      BY <1>0, ControlBytes
    <3> QED BY <1>1, <3>1
  <2> QED BY <2>1, <2>2 DEF CopyInv, IsData
<1>12. FreshInv'
  BY <1>1 DEF FreshInv, Fresh
<1> QED BY <1>9, <1>10, <1>11, <1>12 DEF LinesInv

\* The receiver takes a data frame: it is the frame the transmitter is at, and only
\* copies of it follow.
LEMMA Taking ==
  ASSUME TypeOK, LinesInv, NEW in \in f_receive_frame("R"), Accept(in)
  PROVE  /\ m = n
         /\ line["R"] # <<>> /\ IsData(line["R"][1])
         /\ line["R"][1].control = data_control_byte(n)
         /\ delivered' = Append(delivered, line["R"][1].data)
         /\ line'["R"] = Tail(line["R"])
         /\ line'["T"] \in {line["T"], Append(line["T"], FRAME(data_reply_byte(m, TRUE)))}
         /\ \A j \in DOMAIN line["R"] : 1 < j /\ IsData(line["R"][j]) =>
                                           line["R"][j].control = data_control_byte(n)
         /\ n' = n /\ m' \in {m, m + 1}
         /\ op'["T"] = op["T"] /\ is_active'["T"] = is_active["T"]
         /\ m' # m + 1 => faults'["unwritten"] # 0
<1>0. /\ "T" \in Side /\ "R" \in Side /\ Peer("R") = "T"
      /\ n \in Nat /\ m \in Nat /\ line["R"] \in Seq(Frame) /\ line["T"] \in Seq(Frame)
      /\ op \in [Side -> Ops] /\ frame_number \in [Side -> Nat]
  BY DEF TypeOK, Side, Peer, n, m
<1> DEFINE rr == FRAME(data_reply_byte(m, TRUE))
<1>1. PICK out \in f_send_frame("R", rr, in.line) :
        /\ line' = out.line
        /\ Suffer(in.kinds \cup out.kinds)
        /\ \/ frame_number' = [frame_number EXCEPT !["R"] = @ + 1]
           \/ out.ret = ERROR_CODE /\ UNCHANGED frame_number
  BY DEF Accept, m
<1>2. /\ in.ret = SUCCESS_CODE /\ in.control = data_control_byte(m)
      /\ UNCHANGED is_active
      /\ op' = [op EXCEPT !["R"] = "none"] \/ UNCHANGED op
      /\ delivered' = Append(delivered, in.data)
  BY DEF Accept, Expected, ReadReturns, m
<1>3. n' = n /\ m' \in {m, m + 1}
  BY <1>0, <1>1 DEF n, m
<1>4. op'["T"] = op["T"] /\ is_active'["T"] = is_active["T"]
  BY <1>0, <1>2
<1>5. /\ line["R"] # <<>> /\ in.line["R"] = Tail(line["R"])
      /\ line["R"][1].control = data_control_byte(m) /\ line["R"][1].data = in.data
      /\ in.line["T"] = line["T"] /\ in.line \in [Side -> Seq(Frame)]
  BY <1>0, <1>2, Receiving
<1>6. rr \in Frame
  BY <1>0, SupervisionFrames
<1>7. /\ line'["R"] = Tail(line["R"])
      /\ line'["T"] \in {line["T"], Append(line["T"], rr)}
  <2> HIDE DEF rr
  <2>1. out.line["R"] = in.line["R"] /\ out.line["T"] \in {in.line["T"], Append(in.line["T"], rr)}
    BY <1>0, <1>5, <1>6, Sending
  <2> QED BY <1>1, <1>5, <2>1
<1>8. 1 \in DOMAIN line["R"] /\ IsData(line["R"][1])
  <2>1. 1 \in DOMAIN line["R"] /\ line["R"][1] \in Frame
    BY <1>0, <1>5
  <2>2. data_control_byte(m) \in {0, 64}
    BY <1>0, ControlBytes
  <2> QED BY <1>5, <2>1, <2>2, FrameFields
<1>9. m = n
  <2>1. m = n \/ m = n + 1
    BY <1>0 DEF LinesInv, Window, n, m
  <2>2. CASE m = n + 1
    <3>1. data_control_byte(n + 1) # data_control_byte(n)
      BY <1>0, ControlBytes
    <3>2. line["R"][1].control = data_control_byte(n)
      BY <1>8, <2>2 DEF LinesInv, CopyInv
    <3> QED BY <1>5, <2>2, <3>1, <3>2
  <2> QED BY <2>1, <2>2
<1>10. \A j \in DOMAIN line["R"] : 1 < j /\ IsData(line["R"][j]) =>
                                     line["R"][j].control = data_control_byte(n)
  BY <1>0, <1>5, <1>8, <1>9 DEF LinesInv, CopyInv
<1>11. ASSUME m' # m + 1
       PROVE  faults'["unwritten"] # 0
  <2>1. out.ret = ERROR_CODE
    <3>1. frame_number' = [frame_number EXCEPT !["R"] = @ + 1] => m' = m + 1
      BY <1>0 DEF m
    <3> QED BY <1>1, <1>11, <3>1
  <2>2. out.kinds = {"unwritten"}
    <3>1. out.ret = SUCCESS_CODE \/ out.kinds = {"unwritten"}
      <4> DEFINE ln == IF is_open(Peer("R")) THEN [in.line EXCEPT ![Peer("R")] = Append(@, rr)]
                                             ELSE in.line
                 good == [ret |-> SUCCESS_CODE, kinds |-> {}, line |-> ln]
                 bad == [ret |-> ERROR_CODE, kinds |-> {"unwritten"}, line |-> in.line]
      <4>1. out \in {good, bad}
        BY DEF f_send_frame
      <4> HIDE DEF ln
      <4>2. good.ret = SUCCESS_CODE /\ bad.kinds = {"unwritten"}
        OBVIOUS
      <4> HIDE DEF good, bad
      <4> QED BY <4>1, <4>2
    <3> QED BY <2>1, <3>1 DEF SUCCESS_CODE, ERROR_CODE
  <2>3. faults' = [k \in Faults |-> IF k \in in.kinds \cup out.kinds THEN faults[k] + 1 ELSE faults[k]]
    BY <1>1 DEF Suffer
  <2>4. "unwritten" \in Faults /\ faults["unwritten"] \in Nat
    BY DEF TypeOK, Faults
  <2>5. faults'["unwritten"] = faults["unwritten"] + 1
    BY <2>2, <2>3, <2>4
  <2> QED BY <2>4, <2>5
<1> QED BY <1>2, <1>3, <1>4, <1>5, <1>7, <1>8, <1>9, <1>10, <1>11

\* If it can answer, no other RR is on its way.
LEMMA AcceptKeeps ==
  ASSUME TypeOK, TypeOK', LinesInv, NEW in \in f_receive_frame("R"), Accept(in),
         ~UNCHANGED frame_number
  PROVE  LinesInv'
<1>0. /\ "T" \in Side /\ "R" \in Side /\ Peer("R") = "T"
      /\ n \in Nat /\ m \in Nat /\ line["R"] \in Seq(Frame) /\ line["T"] \in Seq(Frame)
      /\ op \in [Side -> Ops] /\ frame_number \in [Side -> Nat]
  BY DEF TypeOK, Side, Peer, n, m
<1> DEFINE rr == FRAME(data_reply_byte(m, TRUE))
<1>1. /\ m = n /\ n' = n
      /\ line["R"] # <<>> /\ IsData(line["R"][1])
      /\ line'["R"] = Tail(line["R"])
      /\ line'["T"] \in {line["T"], Append(line["T"], rr)}
      /\ \A j \in DOMAIN line["R"] : 1 < j /\ IsData(line["R"][j]) =>
                                        line["R"][j].control = data_control_byte(n)
      /\ op'["T"] = op["T"] /\ is_active'["T"] = is_active["T"]
  BY Taking
<1>3. m' = m + 1
  <2>1. PICK out \in f_send_frame("R", FRAME(data_reply_byte(frame_number["R"], TRUE)), in.line) :
          \/ frame_number' = [frame_number EXCEPT !["R"] = @ + 1]
          \/ UNCHANGED frame_number
    BY DEF Accept
  <2> QED BY <1>0, <2>1 DEF m
<1>6. rr.control = data_reply_byte(m, TRUE)
  BY DEF FRAME
<1>11. \A j \in DOMAIN line["T"] : ~IsRR(line["T"][j])
  <2>1. m # n + 1
    BY <1>0, <1>1
  <2> QED BY <2>1 DEF LinesInv, ReplyInv
<1>12. Window'
  BY <1>0, <1>1, <1>3 DEF Window, n, m
<1>13. ReplyInv'
  <2> HIDE DEF rr
  <2>1. /\ DOMAIN Append(line["T"], rr) = 1..(Len(line["T"]) + 1)
        /\ DOMAIN line["T"] = 1..Len(line["T"])
        /\ Append(line["T"], rr)[Len(line["T"]) + 1] = rr
        /\ \A i \in DOMAIN line["T"] : Append(line["T"], rr)[i] = line["T"][i]
        /\ \A i \in 1..(Len(line["T"]) + 1) : i \in 1..Len(line["T"]) \/ i = Len(line["T"]) + 1
    BY <1>0
  <2>2. \A i \in DOMAIN line'["T"] :
          IsRR(line'["T"][i]) => i = Len(line["T"]) + 1 /\ line'["T"][i] = rr
    BY <1>1, <1>11, <2>1
  <2>3. \A i \in DOMAIN line'["T"] :
          IsRR(line'["T"][i]) => /\ line'["T"][i].control = data_reply_byte(n', TRUE)
                                 /\ m' = n' + 1
    BY <1>1, <1>3, <1>6, <2>2
  <2> QED BY <2>2, <2>3 DEF ReplyInv, IsRR
<1>14. CopyInv'
  <2>1. \A i \in DOMAIN Tail(line["R"]) :
          i + 1 \in DOMAIN line["R"] /\ 1 < i + 1 /\ Tail(line["R"])[i] = line["R"][i + 1]
    BY <1>0, <1>1
  <2>2. \A i \in DOMAIN line'["R"] :
          IsData(line'["R"][i]) => line'["R"][i].control = data_control_byte(n')
    BY <1>1, <2>1
  <2> QED BY <1>0, <1>1, <1>3, <2>2 DEF CopyInv, IsData
<1>15. FreshInv'
  <2>1. ~Fresh
    BY <1>0, <1>1 DEF LinesInv, FreshInv
  <2> QED BY <1>1, <2>1 DEF LinesInv, FreshInv, Fresh
<1> QED BY <1>12, <1>13, <1>14, <1>15 DEF LinesInv

-----------------------------------------------------------------------------
(* The actions, one by one.                                                *)

LEMMA ConnectLines ==
  ASSUME TypeOK, LinesInv, transmitter_connect
  PROVE  /\ Fresh /\ UNCHANGED frame_number
         /\ Follows(line'["T"], line["T"], NotRR)
         /\ Follows(line'["R"], line["R"], NoData)
         /\ op'["T"] # "transmitter_write"
<1>0. /\ "T" \in Side /\ "R" \in Side /\ Peer("T") = "R"
      /\ line \in [Side -> Seq(Frame)] /\ Thinned(line)
      /\ frame_number \in [Side -> Nat] /\ is_active \in [Side -> BOOLEAN]
  BY ThinnedLine DEF TypeOK, Side, Peer
<1>1. Fresh /\ frame_number["T"] = 0
  BY DEF transmitter_connect, Fresh, LinesInv, FreshInv, n
<1>2. UNCHANGED frame_number
  BY <1>0, <1>1 DEF transmitter_connect
<1>3. CASE UNCHANGED <<op, is_active, line>>
  <2>1. Follows(line'["T"], line["T"], NotRR) /\ Follows(line'["R"], line["R"], NoData)
    BY <1>0, <1>3, FollowsRules
  <2> QED BY <1>1, <1>2, <1>3, <2>1 DEF Fresh
<1>4. ASSUME NEW k \in 0..Len(line["T"]),
             Begin("T", "transmitter_connect", 0, NoPacket,
                   [line EXCEPT !["T"] = SubSeq(@, k + 1, Len(@))])
      PROVE  /\ Follows(line'["T"], line["T"], NotRR)
             /\ Follows(line'["R"], line["R"], NoData)
             /\ op'["T"] # "transmitter_write"
  <2> DEFINE rest == SubSeq(line["T"], k + 1, Len(line["T"]))
             ln == [line EXCEPT !["T"] = rest]
  <2>1. rest \in Seq(Frame) /\ Follows(rest, line["T"], {})
    <3>1. line["T"] \in Seq(Frame)
      BY <1>0
    <3>2. rest \in Seq(Frame)
      BY <3>1
    <3>3. Follows(rest, line["T"], {})
      BY <3>1, <1>4, FollowsRules
    <3> QED BY <3>2, <3>3
  <2>2. ln \in [Side -> Seq(Frame)] /\ Thinned(ln)
    <3> HIDE DEF rest
    <3> QED BY <1>0, <2>1 DEF Thinned, Side
  <2>3. Begin("T", "transmitter_connect", 0, NoPacket, ln)
    BY <1>4
  <2> HIDE DEF ln
  <2>4. OutFrame("transmitter_connect", 0, NoPacket) \in NoData \cap Frame
    BY ReplyBytes DEF OutFrame, NoData
  <2>5. "transmitter_connect" \in Exchanges
    BY DEF Exchanges
  <2>6. /\ Follows(line'["R"], line["R"], NoData)
        /\ Follows(line'["T"], line["T"], {})
        /\ op'["T"] \in Returned \cup {"transmitter_connect"}
    BY <1>0, <2>2, <2>3, <2>4, <2>5, BeginLines
  <2>7. Follows(line'["T"], line["T"], NotRR)
    BY <2>6, FollowsMore
  <2> QED BY <2>6, <2>7 DEF Returned, HungUp
<1> QED BY <1>1, <1>2, <1>3, <1>4 DEF transmitter_connect

LEMMA ConnectKeeps ==
  ASSUME TypeOK, TypeOK', LinesInv, transmitter_connect
  PROVE  LinesInv'
BY ConnectLines, Kept

LEMMA WriteKeeps ==
  ASSUME TypeOK, TypeOK', LinesInv, transmitter_write
  PROVE  LinesInv'
<1> DEFINE sent == OutFrame("transmitter_write", frame_number["T"], packet + 1)
<1>0. /\ "T" \in Side /\ "R" \in Side /\ Peer("T") = "R"
      /\ line \in [Side -> Seq(Frame)] /\ Thinned(line)
      /\ frame_number["T"] \in Nat /\ packet + 1 \in 1..MaxPackets
      /\ "transmitter_write" \in Exchanges
  BY ThinnedLine, BoundsAssumption DEF TypeOK, Side, Peer, transmitter_write, Exchanges
<1>1. /\ UNCHANGED frame_number
      /\ Begin("T", "transmitter_write", frame_number["T"], packet + 1, line)
  BY DEF transmitter_write
<1>2. sent \in Frame /\ sent \in Current
  <2>1. sent \in Frame
    BY <1>0, OutFrameType
  <2>2. sent.control = data_control_byte(n)
    BY DEF OutFrame, n
  <2> HIDE DEF sent
  <2> QED BY <2>1, <2>2 DEF Current
<1>3. /\ Follows(line'["R"], line["R"], Current)
      /\ Follows(line'["T"], line["T"], {})
      /\ op'["T"] \in {"transmitter_write", "left_open"} \/ is_active'["T"]
  BY <1>0, <1>1, <1>2, BeginLines
<1>4. Follows(line'["T"], line["T"], NotRR)
  BY <1>3, FollowsMore
<1>5. ~Fresh'
  BY <1>3 DEF Fresh
<1> QED BY <1>1, <1>3, <1>4, <1>5, Kept

LEMMA DisconnectLines ==
  ASSUME TypeOK, NEW s \in Side, disconnect(s)
  PROVE  /\ UNCHANGED frame_number
         /\ Follows(line'["T"], line["T"], NotRR)
         /\ \/ s = "R" /\ SparesTransmitter
            \/ /\ s = "T" /\ Follows(line'["R"], line["R"], NoData)
               /\ op'["T"] \in HungUp \cup {"disconnect"}
<1>0. /\ "T" \in Side /\ "R" \in Side /\ Peer("T") = "R" /\ Peer("R") = "T"
      /\ line \in [Side -> Seq(Frame)] /\ Thinned(line)
      /\ "disconnect" \in Exchanges
  BY ThinnedLine DEF TypeOK, Side, Peer, Exchanges
<1>1. /\ UNCHANGED frame_number
      /\ Begin(s, "disconnect", frame_number[s], NoPacket, line)
  BY DEF disconnect
<1>2. OutFrame("disconnect", frame_number[s], NoPacket) \in NoData \cap NotRR \cap Frame
  <2>1. OutFrame("disconnect", frame_number[s], NoPacket) = FRAME(C_DISC)
    BY DEF OutFrame
  <2> QED BY <2>1, ReplyBytes DEF NoData
<1>3. CASE s = "R"
  <2>1. /\ Follows(line'["T"], line["T"], NotRR)
        /\ Follows(line'["R"], line["R"], {})
        /\ op'["T"] = op["T"] /\ is_active'["T"] = is_active["T"]
    BY <1>0, <1>1, <1>2, <1>3, BeginLines
  <2> QED BY <1>1, <1>3, <2>1 DEF SparesTransmitter
<1>4. CASE s = "T"
  <2>1. /\ Follows(line'["R"], line["R"], NoData)
        /\ Follows(line'["T"], line["T"], {})
        /\ op'["T"] \in HungUp \cup {"disconnect"}
    BY <1>0, <1>1, <1>2, <1>4, BeginLines
  <2>2. Follows(line'["T"], line["T"], NotRR)
    BY <2>1, FollowsMore
  <2> QED BY <1>1, <1>4, <2>1, <2>2
<1> QED BY <1>3, <1>4 DEF Side

LEMMA DisconnectKeeps ==
  ASSUME TypeOK, TypeOK', LinesInv, NEW s \in Side, disconnect(s)
  PROVE  LinesInv'
<1>1. CASE SparesTransmitter
  BY <1>1, ReceiverKeeps
<1>2. CASE Follows(line'["R"], line["R"], NoData) /\ op'["T"] \in HungUp \cup {"disconnect"}
  <2>1. ~Fresh' /\ op'["T"] # "transmitter_write"
    BY <1>2 DEF Fresh, HungUp
  <2> QED BY <1>2, <2>1, DisconnectLines, Kept
<1> QED BY <1>1, <1>2, DisconnectLines

LEMMA ListenSpares ==
  ASSUME TypeOK, listen_receive
  PROVE  SparesTransmitter
<1>0. /\ "T" \in Side /\ "R" \in Side /\ Peer("R") = "T"
      /\ op \in [Side -> Ops] /\ is_active \in [Side -> BOOLEAN]
  BY DEF TypeOK, Side, Peer
<1>1. PICK in \in f_receive_frame("R") :
        \/ \E out \in f_send_frame("R", FRAME(C_UA), in.line) : line' = out.line
        \/ line' = in.line
  BY DEF listen_receive
<1>2. in.line \in [Side -> Seq(Frame)] /\ Thinned(in.line)
  BY <1>0, ReceiveThins
<1>3. op'["T"] = op["T"] /\ is_active'["T"] = is_active["T"]
  BY <1>0 DEF listen_receive
<1>4. Follows(line'["T"], line["T"], NotRR) /\ Follows(line'["R"], line["R"], {})
  <2>1. CASE line' = in.line
    BY <1>0, <1>2, <2>1, FollowsMore DEF Thinned
  <2>2. ASSUME NEW out \in f_send_frame("R", FRAME(C_UA), in.line), line' = out.line
        PROVE  Follows(line'["T"], line["T"], NotRR) /\ Follows(line'["R"], line["R"], {})
    BY <1>0, <1>2, <2>2, SendLines, ReplyBytes, SupervisionFrames
  <2> QED BY <1>1, <2>1, <2>2
<1>5. UNCHANGED frame_number
  BY DEF listen_receive
<1> QED BY <1>3, <1>4, <1>5 DEF SparesTransmitter

LEMMA ReadSpares ==
  ASSUME TypeOK, NEW in \in f_receive_frame("R"), Reject(in) \/ Disconnected(in)
  PROVE  SparesTransmitter
<1>0. /\ "T" \in Side /\ "R" \in Side /\ Peer("R") = "T"
      /\ op \in [Side -> Ops] /\ frame_number["R"] \in Nat
  BY DEF TypeOK, Side, Peer
<1>2. in.line \in [Side -> Seq(Frame)] /\ Thinned(in.line)
  BY <1>0, ReceiveThins
<1>3. CASE Reject(in)
  <2>1. PICK out \in f_send_frame("R", FRAME(data_reply_byte(frame_number["R"], FALSE)), in.line) :
          line' = out.line
    BY <1>3 DEF Reject
  <2>2. /\ FRAME(data_reply_byte(frame_number["R"], FALSE)) \in NotRR
        /\ FRAME(data_reply_byte(frame_number["R"], FALSE)) \in Frame
    BY <1>0, ReplyBytes, SupervisionFrames
  <2>3. Follows(line'["T"], line["T"], NotRR) /\ Follows(line'["R"], line["R"], {})
    BY <1>0, <1>2, <2>1, <2>2, SendLines
  <2>4. op' = [op EXCEPT !["R"] = "none"] \/ UNCHANGED op
    BY <1>3 DEF Reject, ReadReturns
  <2>5. op'["T"] = op["T"] /\ UNCHANGED <<frame_number, is_active>>
    BY <1>0, <1>3, <2>4 DEF Reject
  <2> QED BY <2>3, <2>5 DEF SparesTransmitter
<1>4. CASE Disconnected(in)
  <2>1. Begin("R", "handle_disconnect", frame_number["R"], NoPacket, in.line) /\ UNCHANGED frame_number
    BY <1>4 DEF Disconnected
  <2>2. OutFrame("handle_disconnect", frame_number["R"], NoPacket) \in NotRR \cap Frame
    <3>1. OutFrame("handle_disconnect", frame_number["R"], NoPacket) = FRAME(C_DISC)
      BY DEF OutFrame
    <3> QED BY <3>1, ReplyBytes DEF NotRR
  <2>3. "handle_disconnect" \in Exchanges
    BY DEF Exchanges
  <2>4. /\ Follows(line'["T"], line["T"], NotRR)
        /\ Follows(line'["R"], line["R"], {})
        /\ op'["T"] = op["T"] /\ is_active'["T"] = is_active["T"]
    BY <1>0, <1>2, <2>1, <2>2, <2>3, BeginLines
  <2> QED BY <2>1, <2>4 DEF SparesTransmitter
<1> QED BY <1>3, <1>4

LEMMA ReadKeeps ==
  ASSUME TypeOK, TypeOK', LinesInv, read_receive
  PROVE  LinesInv'
<1>0. /\ "T" \in Side /\ "R" \in Side /\ Peer("R") = "T"
      /\ op \in [Side -> Ops] /\ frame_number["R"] \in Nat
  BY DEF TypeOK, Side, Peer
<1>1. PICK in \in f_receive_frame("R") : Reject(in) \/ Accept(in) \/ Disconnected(in)
  BY DEF read_receive
<1>2. in.line \in [Side -> Seq(Frame)] /\ Thinned(in.line)
  BY <1>0, ReceiveThins
<1>3. CASE Reject(in) \/ Disconnected(in)
  BY <1>3, ReadSpares, ReceiverKeeps
<1>4. CASE Accept(in)
  <2>1. CASE UNCHANGED frame_number
    <3> DEFINE rr == FRAME(data_reply_byte(frame_number["R"], TRUE))
    <3>1. PICK out \in f_send_frame("R", rr, in.line) :
            /\ line' = out.line
            /\ \/ frame_number' = [frame_number EXCEPT !["R"] = @ + 1]
               \/ out.ret = ERROR_CODE
      BY <1>4 DEF Accept
    <3>2. frame_number' # [frame_number EXCEPT !["R"] = @ + 1]
      <4>1. frame_number \in [Side -> Nat]
        BY DEF TypeOK
      <4> QED BY <1>0, <2>1, <4>1
    <3>3. line' = in.line
      <4>1. rr \in Frame
        BY <1>0, SupervisionFrames
      <4>2. out.ret = ERROR_CODE /\ line' = out.line
        BY <3>1, <3>2, Zenon
      <4> HIDE DEF rr
      <4>3. out.ret = ERROR_CODE => out.line = in.line
        BY <1>0, <1>2, <3>1, <4>1, Sending
      <4> QED BY <4>2, <4>3
    <3>4. Follows(line'["T"], line["T"], NotRR) /\ Follows(line'["R"], line["R"], {})
      BY <1>0, <1>2, <3>3, FollowsMore DEF Thinned
    <3>5. op' = [op EXCEPT !["R"] = "none"] \/ UNCHANGED op
      BY <1>4 DEF Accept, ReadReturns
    <3>6. op'["T"] = op["T"] /\ UNCHANGED is_active
      BY <1>0, <1>4, <3>5 DEF Accept
    <3> QED BY <2>1, <3>4, <3>6, ReceiverKeeps DEF SparesTransmitter
  <2>2. CASE ~UNCHANGED frame_number
    BY <1>4, <2>2, AcceptKeeps
  <2> QED BY <2>1, <2>2
<1> QED BY <1>1, <1>3, <1>4

LEMMA WaitSpares ==
  ASSUME TypeOK, wait_receive
  PROVE  SparesTransmitter
<1>0. /\ "T" \in Side /\ "R" \in Side /\ Peer("R") = "T"
      /\ op \in [Side -> Ops]
  BY DEF TypeOK, Side, Peer
<1>1. PICK in \in f_receive_frame("R") :
        \/ Begin("R", "handle_disconnect", frame_number["R"], NoPacket, in.line)
        \/ line' = in.line /\ UNCHANGED <<op, is_active>>
  BY DEF wait_receive
<1>2. in.line \in [Side -> Seq(Frame)] /\ Thinned(in.line)
  BY <1>0, ReceiveThins
<1>3. UNCHANGED frame_number
  BY DEF wait_receive
<1>4. CASE Begin("R", "handle_disconnect", frame_number["R"], NoPacket, in.line)
  <2>1. OutFrame("handle_disconnect", frame_number["R"], NoPacket) \in NotRR \cap Frame
    <3>1. OutFrame("handle_disconnect", frame_number["R"], NoPacket) = FRAME(C_DISC)
      BY DEF OutFrame
    <3> QED BY <3>1, ReplyBytes DEF NotRR
  <2>2. "handle_disconnect" \in Exchanges
    BY DEF Exchanges
  <2>3. /\ Follows(line'["T"], line["T"], NotRR)
        /\ Follows(line'["R"], line["R"], {})
        /\ op'["T"] = op["T"] /\ is_active'["T"] = is_active["T"]
    BY <1>0, <1>2, <1>4, <2>1, <2>2, BeginLines
  <2> QED BY <1>3, <2>3 DEF SparesTransmitter
<1>5. CASE line' = in.line /\ UNCHANGED <<op, is_active>>
  <2>1. Follows(line'["T"], line["T"], NotRR) /\ Follows(line'["R"], line["R"], {})
    BY <1>0, <1>2, <1>5, FollowsMore DEF Thinned
  <2> QED BY <1>3, <1>5, <2>1 DEF SparesTransmitter
<1> QED BY <1>1, <1>4, <1>5

LEMMA IdleSpares ==
  ASSUME TypeOK, receiver_listen \/ receiver_read \/ wait_for_disconnect \/ UNCHANGED vars
  PROVE  SparesTransmitter
<1>0. "T" \in Side /\ "R" \in Side /\ line \in [Side -> Seq(Frame)] /\ op \in [Side -> Ops]
  BY DEF TypeOK, Side
<1>1. UNCHANGED <<frame_number, is_active, line>>
  BY DEF receiver_listen, receiver_read, wait_for_disconnect, vars
<1>2. op' \in {op, [op EXCEPT !["R"] = "receiver_listen"], [op EXCEPT !["R"] = "receiver_read"],
              [op EXCEPT !["R"] = "wait_for_disconnect"]}
  BY DEF receiver_listen, receiver_read, wait_for_disconnect, vars
<1>3. op'["T"] = op["T"]
  BY <1>0, <1>2
<1>4. Follows(line'["T"], line["T"], NotRR) /\ Follows(line'["R"], line["R"], {})
  BY <1>0, <1>1, FollowsRules
<1> QED BY <1>1, <1>3, <1>4 DEF SparesTransmitter

\* A timeout confirms nothing: the 0 it leaves for a control byte is no reply.
LEMMA TimeoutConfirmsNothing ==
  ASSUME TypeOK, NEW s \in Side
  PROVE  ~(op[s] = "transmitter_write" /\ Accepted(s, TimedOut))
<1>1. TimedOut.control = 0
  BY DEF TimedOut
<1>2. PICK rr \in {1, 129} : data_reply_byte(frame_number[s], TRUE) = rr
  <2>1. frame_number[s] \in Nat
    BY DEF TypeOK
  <2> QED BY <2>1, ControlBytes, Zenon
<1>3. Accepted(s, TimedOut) => Wanted(op[s], frame_number[s]) = 0
  BY <1>1 DEF Accepted
<1>4. op[s] = "transmitter_write" =>
        Wanted(op[s], frame_number[s]) = data_reply_byte(frame_number[s], TRUE)
  BY DEF Wanted
<1>5. rr # 0
  OBVIOUS
<1> QED BY <1>2, <1>3, <1>4, <1>5

LEMMA CrashLines ==
  ASSUME TypeOK, NEW s \in Side, crash(s)
  PROVE  /\ UNCHANGED frame_number
         /\ \A t \in Side, F \in {NotRR, NoData, {}} : Follows(line'[t], line[t], F)
         /\ \/ s = "R" /\ SparesTransmitter
            \/ s = "T" /\ op'["T"] = "crashed"
<1>0. "T" \in Side /\ "R" \in Side /\ line \in [Side -> Seq(Frame)] /\ op \in [Side -> Ops]
  BY DEF TypeOK, Side
<1>1. /\ line' = [line EXCEPT ![s] = <<>>] /\ op' = [op EXCEPT ![s] = "crashed"]
      /\ UNCHANGED <<frame_number, is_active>>
  BY DEF crash
<1>2. \A t \in Side, F \in {NotRR, NoData, {}} : Follows(line'[t], line[t], F)
  <2>1. TAKE t \in Side, F \in {NotRR, NoData, {}}
  <2>2. line[t] \in Seq(Frame) /\ (line'[t] = line[t] \/ line'[t] = <<>>)
    BY <1>0, <1>1
  <2> QED BY <2>2, FollowsRules
<1>3. CASE s = "R"
  BY <1>0, <1>1, <1>2, <1>3 DEF SparesTransmitter
<1>4. CASE s = "T"
  BY <1>0, <1>1, <1>2, <1>4
<1> QED BY <1>3, <1>4 DEF Side

LEMMA LoseSpares ==
  ASSUME TypeOK, NEW s \in Side, lose(s)
  PROVE  SparesTransmitter
<1>0. "T" \in Side /\ "R" \in Side /\ line \in [Side -> Seq(Frame)]
  BY DEF TypeOK, Side
<1>1. line' = Taken(s) /\ line[s] # <<>> /\ UNCHANGED <<op, frame_number, is_active>>
  BY DEF lose
<1>2. \A t \in Side, F \in {NotRR, {}} : Follows(line'[t], line[t], F)
  <2>1. TAKE t \in Side, F \in {NotRR, {}}
  <2>2. line[t] \in Seq(Frame)
    BY <1>0
  <2>3. line'[t] = line[t] \/ (line[t] # <<>> /\ line'[t] = Tail(line[t]))
    BY <1>0, <1>1 DEF Taken
  <2> QED BY <2>2, <2>3, FollowsRules
<1> QED BY <1>0, <1>1, <1>2 DEF SparesTransmitter

LEMMA LinesStep ==
  ASSUME RepliesAreSafe, TypeOK, TypeOK', CallInv, LinesInv, [Next]_vars
  PROVE  LinesInv'
<1>1. CASE transmitter_connect
  BY <1>1, ConnectKeeps
<1>2. CASE transmitter_write
  BY <1>2, WriteKeeps
<1>3. CASE listen_receive
  BY <1>3, ListenSpares, ReceiverKeeps
<1>4. CASE read_receive
  BY <1>4, ReadKeeps
<1>5. CASE receiver_listen \/ receiver_read \/ wait_for_disconnect \/ UNCHANGED vars
  BY <1>5, IdleSpares, ReceiverKeeps
<1>6. ASSUME NEW s \in Side, disconnect(s)
      PROVE  LinesInv'
  BY <1>6, DisconnectKeeps
<1>7. ASSUME NEW s \in Side, receive_reply(s)
      PROVE  LinesInv'
  <2>1. PICK in \in f_receive_frame(s) : AckStep(s, in)
    BY <1>7 DEF receive_reply
  <2>2. in.line \in [Side -> Seq(Frame)] /\ Thinned(in.line) /\ op[s] \in Exchanges
    BY <1>7, ReceiveThins DEF receive_reply
  <2>3. CASE op[s] = "transmitter_write" /\ Accepted(s, in)
    <3>1. s = "T"
      BY <2>3 DEF CallInv, Side
    <3> QED BY <2>1, <2>3, <3>1, ConfirmKeeps
  <2>4. CASE ~(op[s] = "transmitter_write" /\ Accepted(s, in))
    BY <2>1, <2>2, <2>4, ExchangeKeeps
  <2> QED BY <2>3, <2>4
<1>8. ASSUME NEW s \in Side, timeout(s)
      PROVE  LinesInv'
  <2>1. AckStep(s, TimedOut) /\ op[s] \in Exchanges
    BY <1>8 DEF timeout
  <2>2. TimedOut.line = line
    BY DEF TimedOut
  <2> QED BY <2>1, <2>2, ThinnedLine, TimeoutConfirmsNothing, ExchangeKeeps
<1>9. ASSUME NEW s \in Side, crash(s)
      PROVE  LinesInv'
  <2>1. CASE SparesTransmitter
    BY <2>1, ReceiverKeeps
  <2>2. CASE op'["T"] = "crashed"
    <3>1. ~Fresh' /\ op'["T"] # "transmitter_write"
      BY <2>2 DEF Fresh
    <3>2. "T" \in Side /\ "R" \in Side
      BY DEF Side
    <3> QED BY <1>9, <3>1, <3>2, CrashLines, Kept
  <2> QED BY <1>9, <2>1, <2>2, CrashLines
<1>10. ASSUME NEW s \in Side, lose(s)
       PROVE  LinesInv'
  BY <1>10, LoseSpares, ReceiverKeeps
<1>11. CASE wait_receive
  BY <1>11, WaitSpares, ReceiverKeeps
<1> QED BY <1>1, <1>2, <1>3, <1>4, <1>5, <1>6, <1>7, <1>8, <1>9, <1>10, <1>11 DEF Next

LEMMA LinesInit == Init => LinesInv
<1> SUFFICES ASSUME Init PROVE LinesInv
  OBVIOUS
<1>1. /\ frame_number["T"] = 0 /\ frame_number["R"] = 0 /\ op["T"] = "start"
      /\ line["T"] = <<>> /\ line["R"] = <<>>
  BY DEF Init, Side
<1> QED BY <1>1 DEF LinesInv, Window, ReplyInv, CopyInv, FreshInv, n, m

\* The invariant, all of it. Its hypothesis is the limit of the protocol: a damaged
\* reply that reads as an RR confirms a packet.
THEOREM LinkCorrect ==
  ASSUME RepliesAreSafe
  PROVE  Spec => [](TypeOK /\ LinkInv /\ Window)
<1>1. Init => TypeOK /\ CallInv /\ LinesInv
  BY TypeInit, LinesInit
<1>2. (TypeOK /\ CallInv /\ LinesInv) /\ [Next]_vars => (TypeOK /\ CallInv /\ LinesInv)'
  BY TypeStep, CallStep, LinesStep
<1>3. TypeOK /\ CallInv /\ LinesInv => TypeOK /\ LinkInv /\ Window
  BY DEF LinesInv, LinkInv
<1> QED BY <1>1, <1>2, <1>3, PTL DEF Spec

\* The frame numbers of transmitter and receiver never differ by more than the one
\* frame in transit, so that one bit of them is enough on the line.
THEOREM InStep ==
  ASSUME RepliesAreSafe
  PROVE  Spec => []Window
<1>1. Spec => [](TypeOK /\ LinkInv /\ Window)
  BY LinkCorrect
<1> QED BY <1>1, PTL
-----------------------------------------------------------------------------
(* What the steps do to the faults.                                        *)

\* The line has done no harm in this step, or some.
Harm == UNCHANGED faults \/ \E kinds : Suffer(kinds)

LEMMA ReturnHarms ==
  ASSUME NEW s, NEW o, NEW r, NEW ln, NEW kinds, Return(s, o, r, ln, kinds)
  PROVE  Harm
<1>1. CASE Suffer(kinds)
  BY <1>1, Zenon DEF Harm
<1>2. ASSUME NEW unclosed \in SUBSET {"port"}, Suffer(kinds \cup unclosed)
      PROVE  Harm
  BY <1>2, Zenon DEF Harm
<1> QED BY <1>1, <1>2, Zenon DEF Return

LEMMA BeginHarms ==
  ASSUME NEW s, NEW o, NEW k, NEW p, NEW ln, Begin(s, o, k, p, ln)
  PROVE  Harm
<1>1. PICK out \in f_send_frame(s, OutFrame(o, k, p), ln) :
        Suffer(out.kinds) \/ Return(s, o, -1, out.line, out.kinds)
  BY Zenon DEF Begin
<1>2. CASE Suffer(out.kinds)
  BY <1>2, Zenon DEF Harm
<1>3. CASE Return(s, o, -1, out.line, out.kinds)
  BY <1>3, ReturnHarms, Zenon
<1> QED BY <1>1, <1>2, <1>3, Zenon

LEMMA AckStepHarms ==
  ASSUME NEW s, NEW in, AckStep(s, in)
  PROVE  Harm
<1>1. CASE Complete(s, in)
  <2>1. \E r, ln, kinds : Return(s, op[s], r, ln, kinds)
    BY <1>1, Zenon DEF Complete
  <2> QED BY <2>1, ReturnHarms, Zenon
<1>2. CASE GiveUp(s, in)
  <2>1. Return(s, op[s], -1, in.line, in.kinds)
    BY <1>2, Zenon DEF GiveUp
  <2> QED BY <2>1, ReturnHarms, Zenon
<1>3. CASE Resend(s, in)
  <2>1. PICK out \in f_send_frame(s, OutFrame(op[s], frame_number[s], packet), in.line) :
          \/ Suffer(in.kinds \cup out.kinds)
          \/ Return(s, op[s], -1, out.line, in.kinds \cup out.kinds)
    BY <1>3, Zenon DEF Resend
  <2>2. CASE Suffer(in.kinds \cup out.kinds)
    BY <2>2, Zenon DEF Harm
  <2>3. CASE Return(s, op[s], -1, out.line, in.kinds \cup out.kinds)
    BY <2>3, ReturnHarms, Zenon
  <2> QED BY <2>1, <2>2, <2>3, Zenon
<1> QED BY <1>1, <1>2, <1>3, Zenon DEF AckStep

LEMMA Harms ==
  ASSUME [Next]_vars
  PROVE  Harm
<1>1. CASE transmitter_connect
  <2>1. CASE Suffer({"port"})
    BY <2>1, Zenon DEF Harm
  <2>2. ASSUME NEW ln, Begin("T", "transmitter_connect", 0, NoPacket, ln)
        PROVE  Harm
    BY <2>2, BeginHarms, Zenon
  <2> QED BY <1>1, <2>1, <2>2, Zenon DEF transmitter_connect
<1>2. CASE transmitter_write
  <2>1. Begin("T", "transmitter_write", frame_number["T"], packet + 1, line)
    BY <1>2, Zenon DEF transmitter_write
  <2> QED BY <2>1, BeginHarms, Zenon
<1>3. CASE receiver_listen
  BY <1>3, Zenon DEF receiver_listen, Harm
<1>4. CASE listen_receive
  BY <1>4, Zenon DEF listen_receive, Harm
<1>5. CASE read_receive
  <2>1. PICK in \in f_receive_frame("R") : Reject(in) \/ Accept(in) \/ Disconnected(in)
    BY <1>5, Zenon DEF read_receive
  <2>2. CASE Reject(in)
    BY <2>2, Zenon DEF Reject, Harm
  <2>3. CASE Accept(in)
    BY <2>3, Zenon DEF Accept, Harm
  <2>4. CASE Disconnected(in)
    <3>1. Begin("R", "handle_disconnect", frame_number["R"], NoPacket, in.line)
      BY <2>4, Zenon DEF Disconnected
    <3> QED BY <3>1, BeginHarms, Zenon
  <2> QED BY <2>1, <2>2, <2>3, <2>4, Zenon
<1>6. CASE wait_receive
  <2>1. PICK in \in f_receive_frame("R") :
          \/ Begin("R", "handle_disconnect", frame_number["R"], NoPacket, in.line)
          \/ Suffer(in.kinds)
    BY <1>6, Zenon DEF wait_receive
  <2>2. CASE Suffer(in.kinds)
    BY <2>2, Zenon DEF Harm
  <2>3. CASE Begin("R", "handle_disconnect", frame_number["R"], NoPacket, in.line)
    BY <2>3, BeginHarms, Zenon
  <2> QED BY <2>1, <2>2, <2>3, Zenon
<1>7. CASE receiver_read \/ wait_for_disconnect \/ UNCHANGED vars
  BY <1>7 DEF receiver_read, wait_for_disconnect, vars, Harm
<1>8. ASSUME NEW s \in Side, disconnect(s)
      PROVE  Harm
  <2>1. Begin(s, "disconnect", frame_number[s], NoPacket, line)
    BY <1>8, Zenon DEF disconnect
  <2> QED BY <2>1, BeginHarms, Zenon
<1>9. ASSUME NEW s \in Side, receive_reply(s) \/ timeout(s)
      PROVE  Harm
  <2>1. \E in : AckStep(s, in)
    BY <1>9, Zenon DEF receive_reply, timeout
  <2> QED BY <2>1, AckStepHarms, Zenon
<1>10. ASSUME NEW s \in Side, crash(s) \/ lose(s)
       PROVE  Harm
  BY <1>10, Zenon DEF crash, lose, Harm
<1> QED BY <1>1, <1>2, <1>3, <1>4, <1>5, <1>6, <1>7, <1>8, <1>9, <1>10, Zenon DEF Next

-----------------------------------------------------------------------------
(* The delivery service, and with it that packets are delivered in order.  *)
(* To a client a step is silent, or the beginning of a write, or the       *)
(* delivery of a packet, or its confirmation. Silent steps change the      *)
(* lines only, and may add copies of the frame being written.              *)

\* The frames that a writing transmitter may add to the receiver's line without
\* its client's knowledge.
Copies == {f \in Frame : IsData(f) => op["T"] = "transmitter_write" /\ f.data = packet}

\* A step the clients see at most as the failure of a write.
Silent ==
  /\ UNCHANGED <<frame_number, packet, confirmed, delivered>>
  /\ op'["T"] = "transmitter_write" => op["T"] = "transmitter_write"
  /\ Follows(line'["R"], line["R"], Copies)

-----------------------------------------------------------------------------
\* What has gone wrong stays so, within the bound.
LEMMA HarmBounds ==
  ASSUME TypeOK, faults["unwritten"] <= MaxFaults["unwritten"], Harm
  PROVE  /\ faults["unwritten"] \in Nat /\ faults'["unwritten"] \in Nat
         /\ faults["unwritten"] <= faults'["unwritten"]
         /\ faults'["unwritten"] <= MaxFaults["unwritten"]
<1>1. /\ "unwritten" \in Faults /\ faults["unwritten"] \in Nat
      /\ MaxFaults["unwritten"] \in Nat
  BY BoundsAssumption DEF TypeOK, Faults
<1>2. CASE UNCHANGED faults
  BY <1>1, <1>2
<1>3. ASSUME NEW kinds, Suffer(kinds)
      PROVE  /\ faults'["unwritten"] \in Nat
             /\ faults["unwritten"] <= faults'["unwritten"]
             /\ faults'["unwritten"] <= MaxFaults["unwritten"]
  <2>1. faults'["unwritten"] = IF "unwritten" \in kinds THEN faults["unwritten"] + 1
                                                         ELSE faults["unwritten"]
    BY <1>1, <1>3 DEF Suffer
  <2>2. "unwritten" \in kinds => faults["unwritten"] < MaxFaults["unwritten"]
    BY <1>3 DEF Suffer
  <2> QED BY <1>1, <2>1, <2>2
<1> QED BY <1>1, <1>2, <1>3 DEF Harm
-----------------------------------------------------------------------------
(* The silent steps.                                                       *)

LEMMA SparingIsSilent ==
  ASSUME SparesTransmitter, UNCHANGED <<packet, confirmed, delivered>>
  PROVE  Silent
<1>1. Follows(line'["R"], line["R"], Copies)
  BY FollowsMore DEF SparesTransmitter
<1> QED BY <1>1 DEF Silent, SparesTransmitter

\* A step of the transmitter's that adds no data.
LEMMA DatalessIsSilent ==
  ASSUME UNCHANGED <<frame_number, packet, confirmed, delivered>>,
         op'["T"] # "transmitter_write", Follows(line'["R"], line["R"], NoData)
  PROVE  Silent
<1>1. NoData \subseteq Copies
  BY DEF NoData, Copies
<1>2. Follows(line'["R"], line["R"], Copies)
  BY <1>1, FollowsMore
<1> QED BY <1>2 DEF Silent

\* A step of an exchange that confirms nothing.
LEMMA ExchangeIsSilent ==
  ASSUME TypeOK, CallInv, NEW s \in Side, op[s] \in Exchanges, NEW in,
         in.line \in [Side -> Seq(Frame)], Thinned(in.line), AckStep(s, in),
         ~(op[s] = "transmitter_write" /\ Accepted(s, in))
  PROVE  Silent
<1>1. UNCHANGED <<packet, confirmed, delivered>>
  BY DEF AckStep, Complete, GiveUp, Resend
<1>2. CASE s = "R"
  BY <1>1, <1>2, ReceiverExchange, SparingIsSilent
<1>3. CASE s = "T"
  <2> DEFINE sent == OutFrame(op["T"], frame_number["T"], packet)
  <2>1. /\ "T" \in Side /\ "R" \in Side /\ Peer("T") = "R"
        /\ frame_number["T"] \in Nat /\ packet \in 0..MaxPackets
        /\ op["T"] = "transmitter_write" => packet \in 1..MaxPackets
    BY DEF TypeOK, CallInv, Side, Peer
  <2>2. sent \in Copies
    <3>1. sent \in Frame
      BY <1>3, <2>1, OutFrameType
    <3>2. CASE op["T"] = "transmitter_write"
      <4>1. sent.data = packet
        BY <3>2 DEF OutFrame
      <4> HIDE DEF sent
      <4> QED BY <3>1, <3>2, <4>1 DEF Copies
    <3>3. CASE op["T"] # "transmitter_write"
      <4>1. sent = FRAME(C_SET) \/ sent = FRAME(C_DISC)
        BY <3>3 DEF OutFrame
      <4>2. ~IsData(sent)
        BY <4>1 DEF IsData, FRAME
      <4> HIDE DEF sent
      <4> QED BY <3>1, <4>2 DEF Copies
    <3> QED BY <3>2, <3>3
  <2>3. FRAME(C_UA) \in Copies
    BY SupervisionFrames, ReplyBytes DEF Copies, NoData
  <2> HIDE DEF sent
  <2>4. /\ UNCHANGED frame_number
        /\ Follows(line'["R"], line["R"], Copies)
        /\ op'["T"] = op["T"] \/ op'["T"] \in Returned
    BY <1>3, <2>1, <2>2, <2>3, AckStepLines, Zenon DEF sent
  <2> QED BY <1>1, <2>4 DEF Silent, Returned, HungUp
<1> QED BY <1>2, <1>3 DEF Side

\* Every step is silent or one of three.
LEMMA Steps ==
  ASSUME TypeOK, CallInv, LinesInv, [Next]_vars
  PROVE  \/ Silent
         \/ transmitter_write
         \/ \E in \in f_receive_frame("R") :
              Accept(in) /\ UNCHANGED <<packet, confirmed>>
         \/ /\ op["T"] = "transmitter_write"
            /\ \E in \in f_receive_frame("T") : Accepted("T", in) /\ AckStep("T", in)
<1> USE DEF Side
<1>1. CASE transmitter_connect
  <2>1. UNCHANGED <<packet, confirmed, delivered>>
    BY <1>1 DEF transmitter_connect
  <2> QED BY <1>1, <2>1, ConnectLines, DatalessIsSilent
<1>2. CASE listen_receive
  <2>1. UNCHANGED <<packet, confirmed, delivered>>
    BY <1>2 DEF listen_receive
  <2> QED BY <1>2, <2>1, ListenSpares, SparingIsSilent
<1>3. CASE wait_receive
  <2>1. UNCHANGED <<packet, confirmed, delivered>>
    BY <1>3 DEF wait_receive
  <2> QED BY <1>3, <2>1, WaitSpares, SparingIsSilent
<1>4. CASE read_receive
  <2>1. PICK in \in f_receive_frame("R") : Reject(in) \/ Accept(in) \/ Disconnected(in)
    BY <1>4 DEF read_receive
  <2>2. UNCHANGED <<packet, confirmed>>
    BY <1>4 DEF read_receive
  <2>3. CASE Reject(in) \/ Disconnected(in)
    <3>1. UNCHANGED delivered
      BY <2>3 DEF Reject, Disconnected
    <3> QED BY <2>2, <2>3, <3>1, ReadSpares, SparingIsSilent
  <2> QED BY <2>1, <2>2, <2>3
<1>5. CASE receiver_listen \/ receiver_read \/ wait_for_disconnect \/ UNCHANGED vars
  <2>1. UNCHANGED <<packet, confirmed, delivered>>
    BY <1>5 DEF receiver_listen, receiver_read, wait_for_disconnect, vars
  <2> QED BY <1>5, <2>1, IdleSpares, SparingIsSilent
<1>6. ASSUME NEW s \in Side, disconnect(s)
      PROVE  Silent
  <2>1. UNCHANGED <<packet, confirmed, delivered>>
    BY <1>6 DEF disconnect
  <2>2. CASE SparesTransmitter
    BY <2>1, <2>2, SparingIsSilent
  <2>3. CASE Follows(line'["R"], line["R"], NoData) /\ op'["T"] \in HungUp \cup {"disconnect"}
    <3>1. UNCHANGED frame_number /\ op'["T"] # "transmitter_write"
      BY <1>6, <2>3, DisconnectLines DEF HungUp
    <3> QED BY <2>1, <2>3, <3>1, DatalessIsSilent
  <2> QED BY <1>6, <2>2, <2>3, DisconnectLines
<1>7. ASSUME NEW s \in Side, receive_reply(s)
      PROVE  \/ Silent
             \/ /\ op["T"] = "transmitter_write"
                /\ \E in \in f_receive_frame("T") : Accepted("T", in) /\ AckStep("T", in)
  <2>1. PICK in \in f_receive_frame(s) : AckStep(s, in)
    BY <1>7 DEF receive_reply
  <2>2. in.line \in [Side -> Seq(Frame)] /\ Thinned(in.line) /\ op[s] \in Exchanges
    BY <1>7, ReceiveThins DEF receive_reply
  <2>3. CASE op[s] = "transmitter_write" /\ Accepted(s, in)
    <3>1. s = "T"
      BY <2>3 DEF CallInv
    <3> QED BY <2>1, <2>3, <3>1
  <2>4. CASE ~(op[s] = "transmitter_write" /\ Accepted(s, in))
    BY <2>1, <2>2, <2>4, ExchangeIsSilent
  <2> QED BY <2>3, <2>4
<1>8. ASSUME NEW s \in Side, timeout(s)
      PROVE  Silent
  <2>1. AckStep(s, TimedOut) /\ op[s] \in Exchanges
    BY <1>8 DEF timeout
  <2>2. TimedOut.line = line
    BY DEF TimedOut
  <2> QED BY <2>1, <2>2, ThinnedLine, TimeoutConfirmsNothing, ExchangeIsSilent
<1>9. ASSUME NEW s \in Side, crash(s)
      PROVE  Silent
  <2>1. UNCHANGED <<packet, confirmed, delivered>>
    BY <1>9 DEF crash
  <2>2. CASE SparesTransmitter
    BY <2>1, <2>2, SparingIsSilent
  <2>3. CASE op'["T"] = "crashed"
    <3>1. UNCHANGED frame_number /\ Follows(line'["R"], line["R"], NoData)
      BY <1>9, CrashLines
    <3> QED BY <2>1, <2>3, <3>1, DatalessIsSilent
  <2> QED BY <1>9, <2>2, <2>3, CrashLines
<1>10. ASSUME NEW s \in Side, lose(s)
       PROVE  Silent
  <2>1. UNCHANGED <<packet, confirmed, delivered>>
    BY <1>10 DEF lose
  <2> QED BY <1>10, <2>1, LoseSpares, SparingIsSilent
<1> QED BY <1>1, <1>2, <1>3, <1>4, <1>5, <1>6, <1>7, <1>8, <1>9, <1>10 DEF Next
-----------------------------------------------------------------------------
(* The packets on the line.                                                *)

\* Numbers again and again: the state as far as PacketInv is concerned.
LEMMA PacketTypes ==
  ASSUME TypeOK
  PROVE  /\ packet \in Nat /\ n \in Nat /\ m \in Nat
         /\ line["R"] \in Seq(Frame)
         /\ DOMAIN line["R"] = 1..Len(line["R"]) /\ Len(line["R"]) \in Nat
         /\ \A i \in DOMAIN line["R"] : line["R"][i] \in Frame /\ line["R"][i].data \in Nat
         /\ \A c \in confirmed : c \in Nat
         /\ delivered \in Seq(Nat)
         /\ DOMAIN delivered = 1..Len(delivered) /\ Len(delivered) \in Nat
         /\ \A k \in DOMAIN delivered : delivered[k] \in Nat
<1> USE BoundsAssumption DEF TypeOK, Side
<1>1. packet \in Nat /\ n \in Nat /\ m \in Nat
  BY DEF n, m
<1>2. line["R"] \in Seq(Frame)
  OBVIOUS
<1>3. DOMAIN line["R"] = 1..Len(line["R"]) /\ Len(line["R"]) \in Nat
  BY <1>2
<1>4. \A i \in DOMAIN line["R"] : line["R"][i] \in Frame
  BY <1>2
<1>5. \A i \in DOMAIN line["R"] : line["R"][i].data \in Nat
  <2>1. TAKE i \in DOMAIN line["R"]
  <2>2. line["R"][i].data \in 0..MaxPackets
    BY <1>4, FrameFields
  <2> QED BY <2>2
<1>6. \A c \in confirmed : c \in Nat
  OBVIOUS
<1>7. delivered \in Seq(1..MaxPackets)
  OBVIOUS
<1>8. DOMAIN delivered = 1..Len(delivered) /\ Len(delivered) \in Nat
  BY <1>7
<1>9. \A k \in DOMAIN delivered : delivered[k] \in Nat
  BY <1>7
<1>10. delivered \in Seq(Nat)
  BY <1>7
<1> QED BY <1>1, <1>2, <1>3, <1>4, <1>5, <1>6, <1>8, <1>9, <1>10

\* Taking frames off the line and adding copies of the last packet, which is later
\* than every confirmed one.
LEMMA PacketsKept ==
  ASSUME TypeOK, TypeOK', PacketInv, Harm,
         UNCHANGED <<frame_number, confirmed, delivered>>, packet <= packet',
         NEW F, Follows(line'["R"], line["R"], F),
         \A f \in F : IsData(f) => f.data = packet' /\ \A c \in confirmed : c < packet',
         op'["T"] = "transmitter_write" => packet' \notin confirmed
  PROVE  PacketInv'
<1>0. /\ packet \in Nat /\ n' = n /\ m' = m
      /\ \A i \in DOMAIN line["R"] : line["R"][i].data \in Nat
      /\ \A c \in confirmed : c \in Nat
      /\ \A k \in DOMAIN delivered : delivered[k] \in Nat
  BY PacketTypes DEF n, m
<1>1. /\ packet' \in Nat
      /\ DOMAIN line'["R"] = 1..Len(line'["R"]) /\ Len(line'["R"]) \in Nat
  BY BoundsAssumption DEF TypeOK, Side
<1>2. /\ faults["unwritten"] \in Nat /\ faults'["unwritten"] \in Nat
      /\ faults["unwritten"] <= faults'["unwritten"]
      /\ faults'["unwritten"] <= MaxFaults["unwritten"]
  BY HarmBounds DEF PacketInv, ConfirmedInv
<1>3. Clean' => Clean
  BY <1>2 DEF Clean
<1>4. PICK l \in Nat : \A i \in DOMAIN line'["R"] :
        \/ i + l \in DOMAIN line["R"] /\ line'["R"][i] = line["R"][i + l]
        \/ i = Len(line'["R"]) /\ line'["R"][i] \in F
  BY DEF Follows
<1>5. \A i \in DOMAIN line'["R"] :
        IsData(line'["R"][i]) =>
          \/ i + l \in DOMAIN line["R"] /\ line'["R"][i] = line["R"][i + l]
          \/ /\ i = Len(line'["R"]) /\ line'["R"][i].data = packet'
             /\ \A c \in confirmed : c < packet'
  BY <1>4
<1>6. CarryInv'
  <2>1. \A i \in DOMAIN line'["R"] : IsData(line'["R"][i]) => line'["R"][i].data <= packet'
    BY <1>0, <1>1, <1>5 DEF PacketInv, CarryInv
  <2>2. ASSUME NEW i \in DOMAIN line'["R"], IsData(line'["R"][i]),
               NEW j \in DOMAIN line'["R"], i < j, IsData(line'["R"][j])
        PROVE  line'["R"][i].data <= line'["R"][j].data
    <3>1. i \in Nat /\ j \in Nat /\ i # Len(line'["R"])
      BY <1>1, <2>2
    <3>2. i + l \in DOMAIN line["R"] /\ line'["R"][i] = line["R"][i + l] /\ i + l < j + l
      BY <1>5, <2>2, <3>1
    <3>3. CASE j + l \in DOMAIN line["R"] /\ line'["R"][j] = line["R"][j + l]
      BY <2>2, <3>2, <3>3 DEF PacketInv, CarryInv
    <3>4. CASE line'["R"][j].data = packet'
      BY <2>1, <2>2, <3>4
    <3> QED BY <1>5, <2>2, <3>3, <3>4
  <2> QED BY <2>1, <2>2 DEF CarryInv, IsData
<1>7. NewInv'
  <2>1. SUFFICES ASSUME m = n, NEW i \in DOMAIN line'["R"], IsData(line'["R"][i]),
                        line'["R"][i].control = data_control_byte(n)
                 PROVE  /\ \A c \in confirmed : c < line'["R"][i].data
                        /\ \A k \in DOMAIN delivered : delivered[k] <= line'["R"][i].data
                        /\ Clean' => \A k \in DOMAIN delivered :
                                       delivered[k] < line'["R"][i].data
    BY <1>0 DEF NewInv, IsData
  <2>2. CASE i + l \in DOMAIN line["R"] /\ line'["R"][i] = line["R"][i + l]
    BY <1>3, <2>1, <2>2 DEF PacketInv, NewInv
  <2>3. CASE line'["R"][i].data = packet' /\ \A c \in confirmed : c < packet'
    <3>1. \A k \in DOMAIN delivered : delivered[k] <= packet'
      BY <1>0, <1>1 DEF PacketInv, DeliveredInv
    <3>2. ASSUME Clean, NEW k \in DOMAIN delivered
          PROVE  delivered[k] < packet'
      <4>1. PICK c \in confirmed : delivered[k] <= c
        BY <2>1, <3>2 DEF PacketInv, DeliveredInv
      <4> QED BY <1>0, <1>1, <2>3, <4>1
    <3> QED BY <1>3, <2>3, <3>1, <3>2
  <2> QED BY <1>5, <2>1, <2>2, <2>3
<1>8. DeliveredInv'
  <2>1. \A k \in DOMAIN delivered : delivered[k] <= packet'
    BY <1>0, <1>1 DEF PacketInv, DeliveredInv
  <2>2. Clean' /\ m' = n' => \A k \in DOMAIN delivered : \E c \in confirmed : delivered[k] <= c
    BY <1>0, <1>3 DEF PacketInv, DeliveredInv
  <2> QED BY <2>1, <2>2 DEF DeliveredInv
<1>9. ConfirmedInv'
  <2>1. \A c \in confirmed : c <= packet'
    BY <1>0, <1>1 DEF PacketInv, ConfirmedInv
  <2> QED BY <1>2, <2>1 DEF ConfirmedInv
<1>10. InOrder'
  BY <1>2 DEF PacketInv, InOrder
<1> QED BY <1>6, <1>7, <1>8, <1>9, <1>10 DEF PacketInv

LEMMA SilentKeepsPackets ==
  ASSUME TypeOK, TypeOK', PacketInv, Harm, Silent
  PROVE  PacketInv'
<1>1. packet \in Nat /\ \A c \in confirmed : c \in Nat
  BY PacketTypes
<1>2. ASSUME op["T"] = "transmitter_write", NEW c \in confirmed PROVE c < packet
  <2>1. c <= packet /\ c # packet
    BY <1>2 DEF PacketInv, ConfirmedInv
  <2> QED BY <1>1, <2>1
<1>3. \A f \in Copies : IsData(f) => f.data = packet' /\ \A c \in confirmed : c < packet'
  BY <1>2 DEF Silent, Copies
<1>4. op'["T"] = "transmitter_write" => packet' \notin confirmed
  BY DEF Silent, PacketInv, ConfirmedInv
<1>5. /\ UNCHANGED <<frame_number, confirmed, delivered>> /\ packet <= packet'
      /\ Follows(line'["R"], line["R"], Copies)
  BY <1>1 DEF Silent
<1> QED BY <1>3, <1>4, <1>5, PacketsKept

\* A write begins: its packet is a new one.
LEMMA WriteKeepsPackets ==
  ASSUME TypeOK, TypeOK', PacketInv, Harm, transmitter_write
  PROVE  PacketInv'
<1> DEFINE sent == OutFrame("transmitter_write", frame_number["T"], packet + 1)
           F == {f \in Frame : f.data = packet + 1}
<1>0. /\ "T" \in Side /\ "R" \in Side /\ Peer("T") = "R"
      /\ line \in [Side -> Seq(Frame)] /\ Thinned(line)
      /\ frame_number["T"] \in Nat /\ packet + 1 \in 1..MaxPackets
      /\ "transmitter_write" \in Exchanges
  BY ThinnedLine, BoundsAssumption DEF TypeOK, Side, Peer, transmitter_write, Exchanges
<1>1. packet \in Nat /\ \A c \in confirmed : c \in Nat
  BY PacketTypes
<1>2. /\ UNCHANGED <<frame_number, confirmed, delivered>> /\ packet' = packet + 1
      /\ Begin("T", "transmitter_write", frame_number["T"], packet + 1, line)
  BY DEF transmitter_write
<1>3. sent \in F /\ sent \in Frame
  <2>1. sent \in Frame
    BY <1>0, OutFrameType
  <2>2. sent.data = packet + 1
    BY DEF OutFrame
  <2> HIDE DEF sent
  <2> QED BY <2>1, <2>2
<1>4. \A c \in confirmed : c < packet'
  BY <1>1, <1>2 DEF PacketInv, ConfirmedInv
<1>5. packet' \notin confirmed /\ packet <= packet'
  BY <1>1, <1>2, <1>4
<1>6. \A f \in F : IsData(f) => f.data = packet' /\ \A c \in confirmed : c < packet'
  BY <1>2, <1>4
<1> HIDE DEF F
<1>7. Follows(line'["R"], line["R"], F)
  BY <1>0, <1>2, <1>3, BeginLines
<1> QED BY <1>2, <1>5, <1>6, <1>7, PacketsKept
\* A delivery: what was new of the first frame is what InOrder needs, and what was
\* known of the frames behind it is needed if the answer could not be sent.
LEMMA TakingKeepsPackets ==
  ASSUME TypeOK, TypeOK', LinesInv, PacketInv, Harm,
         NEW in \in f_receive_frame("R"), Accept(in), UNCHANGED <<packet, confirmed>>
  PROVE  PacketInv'
<1> DEFINE k == line["R"][1].data
<1>0. /\ packet \in Nat /\ n \in Nat /\ m \in Nat /\ line["R"] \in Seq(Frame)
      /\ \A i \in DOMAIN line["R"] : line["R"][i].data \in Nat
      /\ \A c \in confirmed : c \in Nat
      /\ delivered \in Seq(Nat)
      /\ DOMAIN delivered = 1..Len(delivered) /\ Len(delivered) \in Nat
      /\ \A i \in DOMAIN delivered : delivered[i] \in Nat
  BY PacketTypes
<1>1. /\ m = n
      /\ line["R"] # <<>> /\ IsData(line["R"][1])
      /\ line["R"][1].control = data_control_byte(n)
      /\ delivered' = Append(delivered, k)
      /\ line'["R"] = Tail(line["R"])
      /\ n' = n /\ m' \in {m, m + 1}
      /\ op'["T"] = op["T"]
      /\ m' # m + 1 => faults'["unwritten"] # 0
  BY Taking
<1>2. /\ faults["unwritten"] \in Nat /\ faults'["unwritten"] \in Nat
      /\ faults["unwritten"] <= faults'["unwritten"]
      /\ faults'["unwritten"] <= MaxFaults["unwritten"]
  BY HarmBounds DEF PacketInv, ConfirmedInv
<1>3. Clean' => Clean /\ m' # n'
  BY <1>0, <1>1, <1>2 DEF Clean
<1>4. 1 \in DOMAIN line["R"] /\ k \in Nat
  BY <1>0, <1>1
<1>5. /\ k <= packet
      /\ \A j \in DOMAIN line["R"] : 1 < j /\ IsData(line["R"][j]) => k <= line["R"][j].data
  BY <1>1, <1>4 DEF PacketInv, CarryInv
<1>6. /\ \A i \in DOMAIN delivered : delivered[i] <= k
      /\ Clean => \A i \in DOMAIN delivered : delivered[i] < k
  BY <1>1, <1>4 DEF PacketInv, NewInv
<1> HIDE DEF k
<1>7. \A i \in DOMAIN line'["R"] :
        i + 1 \in DOMAIN line["R"] /\ 1 < i + 1 /\ i \in Nat /\ line'["R"][i] = line["R"][i + 1]
  <2>1. \A i \in DOMAIN Tail(line["R"]) :
          i + 1 \in DOMAIN line["R"] /\ 1 < i + 1 /\ i \in Nat
            /\ Tail(line["R"])[i] = line["R"][i + 1]
    BY <1>0, <1>1
  <2> QED BY <1>1, <2>1
<1>8. \A i \in DOMAIN delivered' :
        \/ i \in DOMAIN delivered /\ delivered'[i] = delivered[i]
        \/ i = Len(delivered) + 1 /\ delivered'[i] = k
  <2>1. \A i \in DOMAIN Append(delivered, k) :
          \/ i \in DOMAIN delivered /\ Append(delivered, k)[i] = delivered[i]
          \/ i = Len(delivered) + 1 /\ Append(delivered, k)[i] = k
    BY <1>0, <1>4
  <2> QED BY <1>1, <2>1
<1>9. CarryInv'
  <2>1. \A i \in DOMAIN line'["R"] :
          IsData(line'["R"][i]) =>
            /\ line'["R"][i].data <= packet
            /\ \A j \in DOMAIN line'["R"] :
                 i < j /\ IsData(line'["R"][j]) => line'["R"][i].data <= line'["R"][j].data
    <3>1. TAKE i \in DOMAIN line'["R"]
    <3>2. HAVE IsData(line'["R"][i])
    <3>3. line'["R"][i].data <= packet
      BY <1>7, <3>2 DEF PacketInv, CarryInv
    <3>4. ASSUME NEW j \in DOMAIN line'["R"], i < j, IsData(line'["R"][j])
          PROVE  line'["R"][i].data <= line'["R"][j].data
      <4>1. i + 1 < j + 1
        BY <1>7, <3>4
      <4> QED BY <1>7, <3>2, <3>4, <4>1 DEF PacketInv, CarryInv
    <3> QED BY <3>3, <3>4
  <2> QED BY <2>1 DEF CarryInv, IsData
<1>10. NewInv'
  <2>1. SUFFICES ASSUME m' = n', NEW i \in DOMAIN line'["R"], IsData(line'["R"][i]),
                        line'["R"][i].control = data_control_byte(n)
                 PROVE  /\ \A c \in confirmed : c < line'["R"][i].data
                        /\ \A j \in DOMAIN delivered' : delivered'[j] <= line'["R"][i].data
    BY <1>1, <1>3 DEF NewInv, IsData
  <2>2. \A c \in confirmed : c < line'["R"][i].data
    BY <1>1, <1>7, <2>1 DEF PacketInv, NewInv
  <2>3. k <= line'["R"][i].data
    BY <1>5, <1>7, <2>1
  <2>4. line'["R"][i].data \in Nat
    BY <1>0, <1>7
  <2>5. \A j \in DOMAIN delivered' : delivered'[j] <= line'["R"][i].data
    BY <1>0, <1>4, <1>6, <1>8, <2>3, <2>4
  <2> QED BY <2>2, <2>5
<1>11. DeliveredInv'
  <2>1. \A j \in DOMAIN delivered' : delivered'[j] <= packet
    BY <1>5, <1>8 DEF PacketInv, DeliveredInv
  <2> QED BY <1>3, <2>1 DEF DeliveredInv
<1>12. ConfirmedInv'
  BY <1>1, <1>2 DEF PacketInv, ConfirmedInv
<1>13. InOrder'
  <2>1. ASSUME NEW i \in DOMAIN delivered', NEW j \in DOMAIN delivered', i < j
        PROVE  /\ delivered'[i] <= delivered'[j]
               /\ Clean' => delivered'[i] # delivered'[j]
    <3>1. i \in DOMAIN delivered /\ delivered'[i] = delivered[i]
      <4>1. i # Len(delivered) + 1
        BY <1>0, <1>8, <2>1
      <4> QED BY <1>8, <4>1
    <3>2. CASE j \in DOMAIN delivered /\ delivered'[j] = delivered[j]
      BY <1>3, <2>1, <3>1, <3>2 DEF PacketInv, InOrder, Clean
    <3>3. CASE delivered'[j] = k
      BY <1>0, <1>3, <1>4, <1>6, <3>1, <3>3
    <3> QED BY <1>8, <3>2, <3>3
  <2> QED BY <2>1 DEF InOrder, Clean
<1> QED BY <1>9, <1>10, <1>11, <1>12, <1>13 DEF PacketInv

\* A confirmation: the frames that are left are not those the receiver waits for.
LEMMA ConfirmingKeepsPackets ==
  ASSUME RepliesAreSafe, TypeOK, TypeOK', LinesInv, PacketInv, Harm,
         op["T"] = "transmitter_write", NEW in \in f_receive_frame("T"),
         Accepted("T", in), AckStep("T", in)
  PROVE  PacketInv'
<1>0. /\ packet \in Nat /\ n \in Nat /\ m \in Nat
      /\ \A c \in confirmed : c \in Nat
      /\ \A i \in DOMAIN delivered : delivered[i] \in Nat
  BY PacketTypes
<1>1. /\ n' = n + 1 /\ m' = m /\ m = n + 1
      /\ op'["T"] # "transmitter_write" /\ line'["R"] = line["R"]
      /\ \A i \in DOMAIN line["R"] :
           IsData(line["R"][i]) => line["R"][i].control = data_control_byte(n)
      /\ confirmed' = confirmed \cup {packet}
      /\ UNCHANGED <<packet, delivered>>
  BY Confirming
<1>2. /\ faults["unwritten"] \in Nat /\ faults'["unwritten"] \in Nat
      /\ faults["unwritten"] <= faults'["unwritten"]
      /\ faults'["unwritten"] <= MaxFaults["unwritten"]
  BY HarmBounds DEF PacketInv, ConfirmedInv
<1>3. CarryInv'
  BY <1>1 DEF PacketInv, CarryInv, IsData
<1>4. NewInv'
  <2>1. data_control_byte(n + 1) # data_control_byte(n)
    BY <1>0, ControlBytes
  <2>2. \A i \in DOMAIN line'["R"] :
          IsData(line'["R"][i]) => line'["R"][i].control # data_control_byte(n')
    BY <1>1, <2>1
  <2> QED BY <2>2 DEF NewInv, IsData
<1>5. DeliveredInv'
  <2>1. \A i \in DOMAIN delivered : delivered[i] <= packet
    BY DEF PacketInv, DeliveredInv
  <2> QED BY <1>1, <2>1 DEF DeliveredInv
<1>6. ConfirmedInv'
  <2>1. \A c \in confirmed' : c <= packet'
    BY <1>0, <1>1 DEF PacketInv, ConfirmedInv
  <2> QED BY <1>1, <1>2, <2>1 DEF ConfirmedInv
<1>7. InOrder'
  BY <1>1, <1>2 DEF PacketInv, InOrder
<1> QED BY <1>3, <1>4, <1>5, <1>6, <1>7 DEF PacketInv

LEMMA PacketStep ==
  ASSUME RepliesAreSafe, TypeOK, TypeOK', CallInv, LinesInv, PacketInv, [Next]_vars
  PROVE  PacketInv'
<1>1. Harm
  BY Harms
<1> QED BY <1>1, Steps, SilentKeepsPackets, WriteKeepsPackets, TakingKeepsPackets,
           ConfirmingKeepsPackets

LEMMA PacketInit == Init => PacketInv
<1> SUFFICES ASSUME Init PROVE PacketInv
  OBVIOUS
<1>1. /\ line["R"] = <<>> /\ delivered = <<>> /\ confirmed = {} /\ op["T"] = "start"
      /\ faults["unwritten"] = 0 /\ MaxFaults["unwritten"] \in Nat
  BY BoundsAssumption DEF Init, Side, Faults
<1> QED BY <1>1 DEF PacketInv, CarryInv, NewInv, DeliveredInv, ConfirmedInv, InOrder

\* All that is known of a state, for any constants.
AllInv == TypeOK /\ CallInv /\ LinesInv /\ PacketInv

LEMMA AllAlways ==
  ASSUME RepliesAreSafe
  PROVE  Spec => []AllInv
<1>1. Init => AllInv
  BY TypeInit, LinesInit, PacketInit DEF AllInv
<1>2. AllInv /\ [Next]_vars => AllInv'
  BY TypeStep, CallStep, LinesStep, PacketStep DEF AllInv
<1> QED BY <1>1, <1>2, PTL DEF Spec

\* Packets reach the receiver's client in the order they were written, and once if
\* every reply could be written, whatever is lost, damaged or late and whatever
\* the transmitter's client does after a failure.
THEOREM Ordered ==
  ASSUME RepliesAreSafe
  PROVE  Spec => []InOrder
<1>1. AllInv => InOrder
  BY DEF AllInv, PacketInv
<1> QED BY <1>1, AllAlways, PTL

-----------------------------------------------------------------------------
(* The delivery service.                                                   *)

\* No packet is delivered that is already confirmed, nor one before it.
THEOREM NothingAfterConfirm ==
  ASSUME RepliesAreSafe
  PROVE  Spec => NeverAfterConfirm
<1>1. ASSUME AllInv, [Next]_vars
      PROVE  [delivered' # delivered => \A c \in confirmed : c < delivered'[Len(delivered')]]_vars
  <2>1. CASE Silent \/ transmitter_write
    <3>1. UNCHANGED delivered
      BY <2>1 DEF Silent, transmitter_write
    <3> QED BY <3>1
  <2>2. ASSUME NEW in \in f_receive_frame("R"), Accept(in)
        PROVE  \A c \in confirmed : c < delivered'[Len(delivered')]
    <3>1. /\ m = n /\ line["R"] # <<>> /\ IsData(line["R"][1])
          /\ line["R"][1].control = data_control_byte(n)
          /\ delivered' = Append(delivered, line["R"][1].data)
      BY <1>1, <2>2, Taking DEF AllInv
    <3>2. /\ line["R"] \in Seq(Frame) /\ delivered \in Seq(Nat)
          /\ \A i \in DOMAIN line["R"] : line["R"][i].data \in Nat
          /\ \A c \in confirmed : c \in Nat
      BY <1>1, PacketTypes DEF AllInv
    <3>3. 1 \in DOMAIN line["R"]
      BY <3>1, <3>2
    <3>4. delivered'[Len(delivered')] = line["R"][1].data
      BY <3>1, <3>2, <3>3
    <3>5. \A c \in confirmed : c < line["R"][1].data
      BY <1>1, <3>1, <3>3 DEF AllInv, PacketInv, NewInv
    <3> QED BY <3>4, <3>5
  <2>3. ASSUME op["T"] = "transmitter_write", NEW in \in f_receive_frame("T"),
               Accepted("T", in), AckStep("T", in)
        PROVE  UNCHANGED delivered
    BY <2>3 DEF AckStep
  <2> QED BY <1>1, <2>1, <2>2, <2>3, Steps DEF AllInv
<1>2. AllInv /\ [Next]_vars =>
        [delivered' # delivered => \A c \in confirmed : c < delivered'[Len(delivered')]]_vars
  BY <1>1
<1> QED BY <1>2, AllAlways, PTL DEF Spec, NeverAfterConfirm

LEMMA ServiceInit ==
  ASSUME Init
  PROVE  Service!Init
<1>1. /\ packet = 0 /\ op["T"] # "transmitter_write" /\ delivered = <<>> /\ confirmed = {}
      /\ frame_number["R"] = frame_number["T"]
  BY DEF Init, Side
<1> QED BY <1>1 DEF Service!Init

LEMMA DeliverImplements ==
  ASSUME AllInv, AllInv', Harm, NEW in \in f_receive_frame("R"), Accept(in),
         UNCHANGED <<packet, confirmed>>
  PROVE  \E k \in 1..packet : Service!Deliver(k)
<1> DEFINE k == line["R"][1].data
<1>1. /\ m = n /\ line["R"] # <<>> /\ IsData(line["R"][1])
      /\ line["R"][1].control = data_control_byte(n)
      /\ delivered' = Append(delivered, k)
      /\ n' = n /\ m' \in {m, m + 1} /\ op'["T"] = op["T"]
      /\ m' # m + 1 => faults'["unwritten"] # 0
  BY Taking DEF AllInv
<1>2. /\ packet \in Nat /\ n \in Nat /\ m \in Nat /\ line["R"] \in Seq(Frame)
      /\ \A i \in DOMAIN line["R"] : line["R"][i].data \in Nat
      /\ \A c \in confirmed : c \in Nat
  BY PacketTypes DEF AllInv
<1>3. 1 \in DOMAIN line["R"] /\ k \in Nat /\ k # 0
  BY <1>1, <1>2 DEF IsData, NoPacket
<1>4. k <= packet
  BY <1>1, <1>3 DEF AllInv, PacketInv, CarryInv
<1>5. /\ \A c \in confirmed : c < k
      /\ \A i \in DOMAIN delivered : delivered[i] <= k
      /\ Clean => \A i \in DOMAIN delivered : delivered[i] < k
  BY <1>1, <1>3 DEF AllInv, PacketInv, NewInv
<1>6. /\ faults["unwritten"] \in Nat /\ faults'["unwritten"] \in Nat
      /\ faults["unwritten"] <= faults'["unwritten"]
      /\ faults'["unwritten"] <= MaxFaults["unwritten"]
  BY HarmBounds DEF AllInv, PacketInv, ConfirmedInv
<1>7. MaxFaults["unwritten"] = 0 => Clean /\ faults'["unwritten"] = 0
  BY <1>6 DEF Clean
<1> HIDE DEF k
<1>8. k \in 1..packet /\ \A c \in confirmed : c < k
  BY <1>2, <1>3, <1>4, <1>5
<1>9. frame_number["R"] = frame_number["T"] /\ frame_number'["T"] = n
  BY <1>1 DEF n, m
<1>10. MaxFaults["unwritten"] = 0 => frame_number'["R"] # frame_number'["T"]
  <2>1. MaxFaults["unwritten"] = 0 => m' = n + 1
    BY <1>1, <1>7
  <2> QED BY <1>2, <1>9, <2>1 DEF m
<1>11. \A i \in DOMAIN delivered : IF MaxFaults["unwritten"] = 0 THEN delivered[i] < k
                                                                ELSE delivered[i] <= k
  BY <1>5, <1>7
<1>12. (frame_number'["R"] # frame_number'["T"]) \in BOOLEAN
  OBVIOUS
<1>13. Service!Deliver(k)
  BY <1>1, <1>8, <1>9, <1>10, <1>11, <1>12 DEF Service!Deliver
<1> QED BY <1>8, <1>13

LEMMA ConfirmImplements ==
  ASSUME RepliesAreSafe, AllInv, op["T"] = "transmitter_write",
         NEW in \in f_receive_frame("T"), Accepted("T", in), AckStep("T", in)
  PROVE  Service!Confirm
<1>1. /\ n' = n + 1 /\ m' = m /\ m = n + 1 /\ n \in Nat
      /\ op'["T"] # "transmitter_write"
      /\ confirmed' = confirmed \cup {packet}
      /\ UNCHANGED <<packet, delivered>>
  BY Confirming, PacketTypes DEF AllInv
<1>2. frame_number["R"] # frame_number["T"] /\ frame_number'["R"] = frame_number'["T"]
  BY <1>1 DEF n, m
<1> QED BY <1>1, <1>2 DEF Service!Confirm

LEMMA ServiceStep ==
  ASSUME RepliesAreSafe, AllInv, AllInv', [Next]_vars
  PROVE  [Service!Next]_(Service!vars)
<1>1. CASE Silent
  <2>1. /\ UNCHANGED <<packet, delivered, confirmed>>
        /\ (frame_number'["R"] # frame_number'["T"]) = (frame_number["R"] # frame_number["T"])
        /\ op'["T"] = "transmitter_write" => op["T"] = "transmitter_write"
    BY <1>1 DEF Silent
  <2>2. CASE (op'["T"] = "transmitter_write") = (op["T"] = "transmitter_write")
    BY <2>1, <2>2 DEF Service!vars
  <2>3. CASE op["T"] = "transmitter_write" /\ op'["T"] # "transmitter_write"
    <3>1. Service!Fail
      BY <2>1, <2>3 DEF Service!Fail
    <3> QED BY <3>1 DEF Service!Next
  <2> QED BY <2>1, <2>2, <2>3
<1>2. CASE transmitter_write
  <2>1. /\ op["T"] # "transmitter_write" /\ packet' = packet + 1
        /\ UNCHANGED <<delivered, confirmed, frame_number>>
    BY <1>2 DEF transmitter_write, HasPort
  <2>2. (op'["T"] = "transmitter_write") \in BOOLEAN
    OBVIOUS
  <2>3. Service!Submit
    BY <2>1, <2>2 DEF Service!Submit
  <2> QED BY <2>3 DEF Service!Next
<1>3. ASSUME NEW in \in f_receive_frame("R"), Accept(in), UNCHANGED <<packet, confirmed>>
      PROVE  Service!Next
  <2>1. \E k \in 1..packet : Service!Deliver(k)
    BY <1>3, Harms, DeliverImplements
  <2> QED BY <2>1 DEF Service!Next
<1>4. ASSUME op["T"] = "transmitter_write", NEW in \in f_receive_frame("T"),
             Accepted("T", in), AckStep("T", in)
      PROVE  Service!Next
  <2>1. Service!Confirm
    BY <1>4, ConfirmImplements
  <2> QED BY <2>1 DEF Service!Next
<1> QED BY <1>1, <1>2, <1>3, <1>4, Steps DEF AllInv

\* The frames, the numbers modulo 2, the retransmissions and the rejections
\* implement the delivery service, for any number of packets, attempts and faults.
THEOREM Implements ==
  ASSUME RepliesAreSafe
  PROVE  Spec => ServiceSpec
<1>1. Init => Service!Init
  BY ServiceInit
<1>2. AllInv /\ AllInv' /\ [Next]_vars => [Service!Next]_(Service!vars)
  BY ServiceStep
<1> QED BY <1>1, <1>2, AllAlways, PTL DEF Spec, ServiceSpec, Service!Spec

\* What is known of the packets on the line holds in every state.
THEOREM PacketsInOrder ==
  ASSUME RepliesAreSafe
  PROVE  Spec => []PacketInv
<1>1. AllInv => PacketInv
  BY DEF AllInv
<1> QED BY <1>1, AllAlways, PTL

=============================================================================
