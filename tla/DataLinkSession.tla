-------------------------- MODULE DataLinkSession ---------------------------
(***************************************************************************)
(* The proofs about a session of the data link as a whole: it survives     *)
(* faults of the frames sent while there are fewer of them than attempts,  *)
(* and it ends on both sides.                                              *)
(***************************************************************************)
EXTENDS DataLinkProofs

-----------------------------------------------------------------------------
(* The end of a session: a transmitter whose disconnect returned 0         *)
(* has seen a DISC, and only a receiver that is leaving sends one, if no   *)
(* damaged header reads as one.                                            *)

\* The calls a receiver is in, or has ended with, once it has sent a DISC.
Leaving == {"disconnect", "handle_disconnect", "closed", "left_open", "crashed"}

NotDISC == {f \in Frame : f.control # C_DISC}

\* A DISC on its way to the transmitter is of a receiver that is leaving.
DiscInv == op["R"] \in Leaving \/ \A i \in DOMAIN line["T"] : line["T"][i] \in NotDISC

\* A step in which a leaving receiver goes on leaving, any other sends a DISC only
\* as it leaves, and the transmitter's disconnect succeeds only on a leaving one.
EndsInOrder ==
  /\ op["R"] \in Leaving => op'["R"] \in Leaving
  /\ op'["R"] \in Leaving \/ Follows(line'["T"], line["T"], NotDISC)
  /\ op'["T"] = "closed" /\ retval'["T"] = 0 =>
       op["R"] \in Leaving \/ (op["T"] = "closed" /\ retval["T"] = 0)

\* The receiver's other answers.
LEMMA NoDISC ==
  /\ FRAME(C_UA) \in NotDISC
  /\ \A k \in Nat, a \in BOOLEAN : FRAME(data_reply_byte(k, a)) \in NotDISC
<1>1. FRAME(C_UA).control # C_DISC
  BY DEF FRAME, C_UA, C_DISC
<1>2. ASSUME NEW k \in Nat, NEW a \in BOOLEAN
      PROVE  FRAME(data_reply_byte(k, a)).control # C_DISC
  <2>1. data_reply_byte(k, TRUE) \in {1, 129} /\ data_reply_byte(k, FALSE) \in {7, 135}
    BY ControlBytes, ZenonT(60)
  <2>2. C_DISC \notin {1, 129, 7, 135}
    BY DEF C_DISC
  <2>3. data_reply_byte(k, a) \in {1, 129, 7, 135}
    <3>1. CASE a = TRUE
      BY <2>1, <3>1
    <3>2. CASE a = FALSE
      BY <2>1, <3>2
    <3> QED BY <3>1, <3>2
  <2>4. data_reply_byte(k, a) # C_DISC
    BY <2>2, <2>3
  <2> QED BY <2>4 DEF FRAME
<1> QED BY <1>1, <1>2, SupervisionFrames DEF NotDISC

LEMMA ReturnValue ==
  ASSUME TypeOK, NEW s \in Side, NEW o \in Exchanges, NEW r, NEW ln, NEW kinds,
         Return(s, o, r, ln, kinds)
  PROVE  /\ \A t \in Side : t # s => retval'[t] = retval[t]
         /\ retval'[s] \in {r, -1}
         /\ o \notin {"disconnect", "handle_disconnect"} => op'[s] \in {"none", "left_open"}
<1>1. retval \in [Side -> {0, -1}] /\ op \in [Side -> Ops]
  BY DEF TypeOK
<1>2. retval' = [retval EXCEPT ![s] = r] \/ retval' = [retval EXCEPT ![s] = -1]
  BY DEF Return
<1>3. o \notin {"disconnect", "handle_disconnect"} =>
        op' = [op EXCEPT ![s] = "none"] \/ op' = [op EXCEPT ![s] = "left_open"]
  BY DEF Return
<1> QED BY <1>1, <1>2, <1>3

LEMMA BeginValue ==
  ASSUME TypeOK, NEW s \in Side, NEW o \in Exchanges, NEW k, NEW p, NEW ln,
         Begin(s, o, k, p, ln)
  PROVE  /\ \A t \in Side : t # s => retval'[t] = retval[t]
         /\ op'[s] = o \/ retval'[s] = -1
<1>1. PICK out \in f_send_frame(s, OutFrame(o, k, p), ln) :
        \/ op' = [op EXCEPT ![s] = o] /\ UNCHANGED retval
        \/ Return(s, o, -1, out.line, out.kinds)
  BY DEF Begin
<1>2. CASE op' = [op EXCEPT ![s] = o] /\ UNCHANGED retval
  BY <1>2 DEF TypeOK
<1>3. CASE Return(s, o, -1, out.line, out.kinds)
  BY <1>3, ReturnValue
<1> QED BY <1>1, <1>2, <1>3

\* An exchange goes on, or it returns: 0 only for a reply it accepted.
LEMMA AckStepReturns ==
  ASSUME TypeOK, NEW s \in Side, op[s] \in Exchanges, NEW in, AckStep(s, in),
         in.line \in [Side -> Seq(Frame)],
         op[s] = "transmitter_write" => packet \in 1..MaxPackets
  PROVE  \/ UNCHANGED <<op, retval>> /\ line'[s] = in.line[s]
         \/ \E r, ln, kinds : /\ Return(s, op[s], r, ln, kinds)
                              /\ ln \in [Side -> Seq(Frame)] /\ ln[s] = in.line[s]
                              /\ r # -1 => Accepted(s, in)
<1> DEFINE IsReturn(r, ln, kinds) == /\ Return(s, op[s], r, ln, kinds)
                                     /\ ln \in [Side -> Seq(Frame)] /\ ln[s] = in.line[s]
                                     /\ r # -1 => Accepted(s, in)
<1>0. /\ FRAME(C_UA) \in Frame
      /\ OutFrame(op[s], frame_number[s], packet) \in Frame
  <2>1. frame_number[s] \in Nat /\ packet \in 0..MaxPackets
    BY DEF TypeOK
  <2> QED BY <2>1, OutFrameType, SupervisionFrames
<1>1. CASE Complete(s, in)
  <2>1. Accepted(s, in)
    BY <1>1 DEF Complete
  <2>2. CASE op[s] = "disconnect"
    <3>1. PICK out \in f_send_frame(s, FRAME(C_UA), in.line), r \in {0, -1} :
            Return(s, op[s], r, out.line, in.kinds \cup out.kinds)
      BY <1>1, <2>2 DEF Complete
    <3>2. out.line \in [Side -> Seq(Frame)] /\ out.line[s] = in.line[s]
      BY <1>0, Sending
    <3>3. IsReturn(r, out.line, in.kinds \cup out.kinds)
      BY <2>1, <3>1, <3>2
    <3> QED BY <3>3
  <2>3. CASE op[s] # "disconnect"
    <3>1. IsReturn(0, in.line, in.kinds)
      BY <1>1, <2>1, <2>3 DEF Complete
    <3> QED BY <3>1
  <2> QED BY <2>2, <2>3
<1>2. CASE GiveUp(s, in)
  <2>1. IsReturn(-1, in.line, in.kinds)
    BY <1>2 DEF GiveUp
  <2> QED BY <2>1
<1>3. CASE Resend(s, in)
  <2>1. PICK out \in f_send_frame(s, OutFrame(op[s], frame_number[s], packet), in.line) :
          \/ line' = out.line /\ UNCHANGED <<op, retval>>
          \/ Return(s, op[s], -1, out.line, in.kinds \cup out.kinds)
    BY <1>3 DEF Resend
  <2>2. out.line \in [Side -> Seq(Frame)] /\ out.line[s] = in.line[s]
    BY <1>0, Sending
  <2>3. CASE line' = out.line /\ UNCHANGED <<op, retval>>
    BY <2>2, <2>3
  <2>4. CASE Return(s, op[s], -1, out.line, in.kinds \cup out.kinds)
    <3>1. IsReturn(-1, out.line, in.kinds \cup out.kinds)
      BY <2>2, <2>4
    <3> QED BY <3>1
  <2> QED BY <2>1, <2>3, <2>4
<1> QED BY <1>1, <1>2, <1>3 DEF AckStep

-----------------------------------------------------------------------------
\* What a side finds at the head of its line: a frame's control byte, or a byte
\* of a damaged one.
LEMMA ReceivedControl ==
  ASSUME TypeOK, NEW s \in Side, NEW in \in f_receive_frame(s)
  PROVE  \/ in.control \in Misread \cup {0}
         \/ line[s] # <<>> /\ in.control = line[s][1].control
<1>1. line[s] \in Seq(Frame)
  BY DEF TypeOK
<1>2. line[s] # <<>> => Head(line[s]) = line[s][1]
  BY <1>1
<1> DEFINE hd == Head(line[s])
<1>3. CASE line[s] # <<>> /\ in \in Intact(s) \cup Unbuffered(s)
  <2>1. in.control = hd.control
    BY <1>3 DEF Intact, Unbuffered
  <2> QED BY <1>2, <1>3, <2>1
<1>4. ASSUME NEW c, in = Damaged(c, line) \/ in = Damaged(c, Taken(s)),
             \/ c \in Misread \cup {0}
             \/ line[s] # <<>> /\ c = hd.control
      PROVE  \/ in.control \in Misread \cup {0}
             \/ line[s] # <<>> /\ in.control = line[s][1].control
  <2>1. in.control = c
    BY <1>4 DEF Damaged
  <2> QED BY <1>2, <1>4, <2>1
<1> QED BY <1>3, <1>4 DEF f_receive_frame

\* A step of the transmitter's that does not touch the receiver.
LEMMA TransmitterEnds ==
  ASSUME TypeOK, op'["R"] = op["R"], NEW F, F \subseteq NotDISC,
         Follows(line'["T"], line["T"], F),
         op'["T"] = "closed" /\ retval'["T"] = 0 =>
           op["R"] \in Leaving \/ (op["T"] = "closed" /\ retval["T"] = 0)
  PROVE  EndsInOrder
BY FollowsMore DEF EndsInOrder

\* A step of the receiver's that does not touch the transmitter.
LEMMA ReceiverEnds ==
  ASSUME TypeOK, op'["T"] = op["T"], retval'["T"] = retval["T"],
         op["R"] \in Leaving => op'["R"] \in Leaving,
         op'["R"] \in Leaving \/ Follows(line'["T"], line["T"], NotDISC)
  PROVE  EndsInOrder
BY DEF EndsInOrder

LEMMA ExchangeEnds ==
  ASSUME C_DISC \notin Misread, TypeOK, CallInv, DiscInv, NEW s \in Side,
         op[s] \in Exchanges, NEW in, in.line \in [Side -> Seq(Frame)], Thinned(in.line),
         in \in f_receive_frame(s) \/ in.control = 0, AckStep(s, in)
  PROVE  EndsInOrder
<1>0. /\ "T" \in Side /\ "R" \in Side
      /\ op[s] = "transmitter_write" => packet \in 1..MaxPackets
  BY DEF Side, TypeOK, CallInv
<1>1. CASE UNCHANGED <<op, retval>> /\ line'[s] = in.line[s]
  <2>1. CASE s = "T"
    <3>1. Follows(line'["T"], line["T"], {})
      BY <1>0, <1>1, <2>1 DEF Thinned
    <3> QED BY <1>1, <3>1, TransmitterEnds
  <2>2. CASE s = "R"
    <3>1. op["R"] \in Leaving
      BY <2>2 DEF CallInv, Exchanges, Leaving
    <3> QED BY <1>1, <3>1, ReceiverEnds
  <2> QED BY <2>1, <2>2 DEF Side
<1>2. ASSUME NEW r, NEW ln \in [Side -> Seq(Frame)], NEW kinds,
             Return(s, op[s], r, ln, kinds), ln[s] = in.line[s], r # -1 => Accepted(s, in)
      PROVE  EndsInOrder
  <2>1. /\ \A t \in Side : t # s => op'[t] = op[t] /\ retval'[t] = retval[t]
        /\ op[s] \in {"disconnect", "handle_disconnect"} => op'[s] \in HungUp
        /\ op[s] \notin {"disconnect", "handle_disconnect"} => op'[s] \in {"none", "left_open"}
        /\ retval'[s] \in {r, -1}
    BY <1>2, ReturnSides, ReturnValue
  <2>2. CASE s = "R"
    <3>1. op["R"] \in {"disconnect", "handle_disconnect"}
      BY <2>2 DEF CallInv, Exchanges
    <3>2. op'["R"] \in Leaving
      BY <2>1, <2>2, <3>1 DEF Leaving, HungUp
    <3> QED BY <1>0, <2>1, <2>2, <3>2, ReceiverEnds
  <2>3. CASE s = "T"
    <3>1. Follows(line'["T"], line["T"], {})
      <4>1. Follows(ln["T"], line["T"], {})
        BY <1>0, <1>2, <2>3 DEF Thinned
      <4> QED BY <1>0, <1>2, <2>3, <4>1, ReturnLines
    <3>2. op'["R"] = op["R"]
      BY <1>0, <2>1, <2>3
    <3>3. ASSUME op'["T"] = "closed", retval'["T"] = 0
          PROVE  op["R"] \in Leaving
      <4>1. Accepted("T", in)
        BY <1>2, <2>1, <2>3, <3>3
      <4>2. op["T"] = "disconnect"
        BY <2>1, <2>3, <3>3 DEF CallInv
      <4>3. in.control = C_DISC
        BY <4>1, <4>2 DEF Accepted, Wanted
      <4>4. C_DISC # 0
        BY DEF C_DISC
      <4>5. line["T"] # <<>> /\ line["T"][1].control = C_DISC
        BY <1>0, <2>3, <4>3, <4>4, ReceivedControl
      <4>6. line["T"] \in Seq(Frame)
        BY <1>0 DEF TypeOK
      <4>7. 1 \in DOMAIN line["T"]
        BY <4>5, <4>6
      <4> QED BY <4>5, <4>7 DEF DiscInv, NotDISC
    <3> QED BY <3>1, <3>2, <3>3, TransmitterEnds
  <2> QED BY <2>2, <2>3 DEF Side
<1> QED BY <1>0, <1>1, <1>2, AckStepReturns

LEMMA BeginEnds ==
  ASSUME TypeOK, CallInv, NEW s \in Side, NEW o \in Exchanges, NEW k, NEW p,
         OutFrame(o, k, p) \in Frame, NEW ln \in [Side -> Seq(Frame)], Thinned(ln),
         Begin(s, o, k, p, ln), s = "R" => o \in {"disconnect", "handle_disconnect"}
  PROVE  EndsInOrder
<1>0. "T" \in Side /\ "R" \in Side
  BY DEF Side
<1>1. /\ Follows(line'[s], line[s], {})
      /\ \A t \in Side : t # s => op'[t] = op[t] /\ retval'[t] = retval[t]
      /\ op'[s] = o \/ retval'[s] = -1
      /\ \/ op'[s] = o
         \/ o \in {"disconnect", "handle_disconnect"} => op'[s] \in HungUp
  <2>1. OutFrame(o, k, p) \in Frame /\ Frame \subseteq Frame
    OBVIOUS
  <2> QED BY <2>1, BeginLines, BeginValue
<1>2. CASE s = "R"
  <2>1. op'["R"] \in Leaving
    BY <1>1, <1>2 DEF Leaving, HungUp
  <2> QED BY <1>0, <1>1, <1>2, <2>1, ReceiverEnds
<1>3. CASE s = "T"
  <2>1. op'["R"] = op["R"] /\ Follows(line'["T"], line["T"], {})
    BY <1>0, <1>1, <1>3
  <2>2. ~(op'["T"] = "closed" /\ retval'["T"] = 0)
    BY <1>1, <1>3 DEF Exchanges
  <2> QED BY <2>1, <2>2, TransmitterEnds
<1> QED BY <1>2, <1>3 DEF Side

\* The receiver answers what it has taken off its line.
LEMMA AnswerEnds ==
  ASSUME TypeOK, NEW in \in f_receive_frame("R"), NEW c, FRAME(c) \in NotDISC,
         NEW out \in f_send_frame("R", FRAME(c), in.line), line' = out.line,
         op'["T"] = op["T"], retval'["T"] = retval["T"], op["R"] \notin Leaving
  PROVE  EndsInOrder
<1>1. /\ "R" \in Side /\ Peer("R") = "T"
      /\ FRAME(c) \in Frame
  BY DEF Side, Peer, NotDISC
<1>2. in.line \in [Side -> Seq(Frame)] /\ Thinned(in.line)
  BY <1>1, ReceiveThins
<1>3. Follows(line'["T"], line["T"], NotDISC)
  BY <1>1, <1>2, SendLines
<1> QED BY <1>3, ReceiverEnds

LEMMA ReadEnds ==
  ASSUME TypeOK, CallInv, read_receive
  PROVE  EndsInOrder
<1>0. /\ "T" \in Side /\ "R" \in Side /\ "T" # "R"
      /\ op \in [Side -> Ops] /\ retval \in [Side -> {0, -1}] /\ frame_number["R"] \in Nat
      /\ op["R"] = "receiver_read" /\ op["R"] \notin Leaving
  BY DEF Side, TypeOK, Leaving, read_receive
<1>1. PICK in \in f_receive_frame("R") : Reject(in) \/ Accept(in) \/ Disconnected(in)
  BY DEF read_receive
<1>2. CASE Reject(in) \/ Accept(in)
  <2>1. PICK a \in BOOLEAN :
          \E out \in f_send_frame("R", FRAME(data_reply_byte(frame_number["R"], a)), in.line) :
            line' = out.line
    BY <1>2 DEF Reject, Accept
  <2>2. \/ UNCHANGED <<op, retval>>
        \/ op' = [op EXCEPT !["R"] = "none"] /\ retval' = [retval EXCEPT !["R"] = 0]
    BY <1>2 DEF Reject, Accept, ReadReturns
  <2>3. op'["T"] = op["T"] /\ retval'["T"] = retval["T"]
    BY <1>0, <2>2
  <2>4. FRAME(data_reply_byte(frame_number["R"], a)) \in NotDISC
    BY <1>0, NoDISC
  <2> QED BY <1>0, <2>1, <2>3, <2>4, AnswerEnds
<1>3. CASE Disconnected(in)
  <2>1. Begin("R", "handle_disconnect", frame_number["R"], NoPacket, in.line)
    BY <1>3 DEF Disconnected
  <2>2. in.line \in [Side -> Seq(Frame)] /\ Thinned(in.line)
    BY <1>0, ReceiveThins
  <2>3. OutFrame("handle_disconnect", frame_number["R"], NoPacket) \in Frame
    <3>1. OutFrame("handle_disconnect", frame_number["R"], NoPacket) = FRAME(C_DISC)
      BY DEF OutFrame
    <3> QED BY <3>1, SupervisionFrames
  <2>4. "handle_disconnect" \in Exchanges
    BY DEF Exchanges
  <2> QED BY <1>0, <2>1, <2>2, <2>3, <2>4, BeginEnds
<1> QED BY <1>1, <1>2, <1>3

\* A step that changes neither what is returned nor, to "closed", a call.
LEMMA QuietEnds ==
  ASSUME TypeOK, op'["T"] # "closed" \/ (op'["T"] = op["T"] /\ retval'["T"] = retval["T"]),
         op["R"] \in Leaving => op'["R"] \in Leaving,
         \/ line'["T"] \in {line["T"], <<>>}
         \/ line["T"] # <<>> /\ line'["T"] = Tail(line["T"])
  PROVE  EndsInOrder
<1>1. line["T"] \in Seq(Frame)
  BY DEF TypeOK, Side
<1>2. Follows(line'["T"], line["T"], NotDISC)
  BY <1>1, FollowsRules
<1> QED BY <1>2 DEF EndsInOrder

LEMMA EndsStep ==
  ASSUME C_DISC \notin Misread, TypeOK, CallInv, DiscInv, [Next]_vars
  PROVE  EndsInOrder
<1>0. /\ "T" \in Side /\ "R" \in Side /\ "T" # "R"
      /\ op \in [Side -> Ops] /\ retval \in [Side -> {0, -1}]
      /\ line \in [Side -> Seq(Frame)] /\ frame_number \in [Side -> Nat]
      /\ Thinned(line)
      /\ {"transmitter_connect", "transmitter_write", "disconnect",
          "handle_disconnect"} \subseteq Exchanges
  BY ThinnedLine DEF Side, TypeOK, Exchanges
<1>1. CASE transmitter_connect
  <2>1. CASE UNCHANGED <<op, line>> /\ retval' = [retval EXCEPT !["T"] = -1]
    <3>1. /\ op'["T"] # "closed" /\ line'["T"] = line["T"]
          /\ op["R"] \in Leaving => op'["R"] \in Leaving
      BY <1>1, <2>1 DEF transmitter_connect
    <3> QED BY <3>1, QuietEnds
  <2>2. ASSUME NEW k \in 0..Len(line["T"]),
               Begin("T", "transmitter_connect", 0, NoPacket,
                     [line EXCEPT !["T"] = SubSeq(@, k + 1, Len(@))])
        PROVE  EndsInOrder
    <3> DEFINE ln == [line EXCEPT !["T"] = SubSeq(@, k + 1, Len(@))]
    <3>1. ln \in [Side -> Seq(Frame)] /\ ln["T"] = SubSeq(line["T"], k + 1, Len(line["T"]))
          /\ ln["R"] = line["R"]
      <4>1. SubSeq(line["T"], k + 1, Len(line["T"])) \in Seq(Frame)
        BY <1>0
      <4> QED BY <1>0, <4>1
    <3>2. Thinned(ln)
      <4>1. Follows(ln["T"], line["T"], {}) /\ Follows(ln["R"], line["R"], {})
        BY <1>0, <3>1, FollowsRules
      <4> QED BY <4>1 DEF Thinned, Side
    <3>3. OutFrame("transmitter_connect", 0, NoPacket) \in Frame
      <4>1. OutFrame("transmitter_connect", 0, NoPacket) = FRAME(C_SET)
        BY DEF OutFrame
      <4> QED BY <4>1, SupervisionFrames
    <3>4. Begin("T", "transmitter_connect", 0, NoPacket, ln)
      BY <2>2
    <3> HIDE DEF ln
    <3> QED BY <1>0, <3>1, <3>2, <3>3, <3>4, BeginEnds
  <2> QED BY <1>1, <2>1, <2>2 DEF transmitter_connect
<1>2. CASE transmitter_write
  <2>1. /\ Begin("T", "transmitter_write", frame_number["T"], packet + 1, line)
        /\ packet + 1 \in 1..MaxPackets
    BY <1>2, BoundsAssumption DEF transmitter_write, TypeOK
  <2>2. OutFrame("transmitter_write", frame_number["T"], packet + 1) \in Frame
    <3>1. packet + 1 \in 0..MaxPackets
      BY <2>1, BoundsAssumption
    <3> QED BY <1>0, <2>1, <3>1, OutFrameType
  <2> QED BY <1>0, <2>1, <2>2, BeginEnds
<1>3. CASE receiver_listen \/ receiver_read \/ wait_for_disconnect \/ UNCHANGED vars
  <2>1. /\ op["R"] \in Leaving => op'["R"] \in Leaving
        /\ line'["T"] = line["T"] /\ op'["T"] = op["T"] /\ retval'["T"] = retval["T"]
    BY <1>0, <1>3 DEF receiver_listen, receiver_read, wait_for_disconnect, vars, Leaving
  <2> QED BY <2>1, QuietEnds
<1>4. CASE listen_receive
  <2>1. PICK in \in f_receive_frame("R") :
          \/ /\ \E out \in f_send_frame("R", FRAME(C_UA), in.line) : line' = out.line
             /\ op' = [op EXCEPT !["R"] = "none"]
             /\ retval' = [retval EXCEPT !["R"] = 0]
          \/ line' = in.line /\ UNCHANGED <<op, retval>>
    BY <1>4 DEF listen_receive
  <2>2. op["R"] \notin Leaving /\ op'["T"] = op["T"] /\ retval'["T"] = retval["T"]
    BY <1>0, <1>4, <2>1 DEF listen_receive, Leaving
  <2>3. CASE line' = in.line
    <3>1. Follows(line'["T"], line["T"], {})
      BY <1>0, <2>3, ReceiveThins DEF Thinned
    <3> QED BY <2>2, <3>1, FollowsMore, ReceiverEnds
  <2>4. CASE \E out \in f_send_frame("R", FRAME(C_UA), in.line) : line' = out.line
    BY <2>2, <2>4, NoDISC, AnswerEnds
  <2> QED BY <2>1, <2>3, <2>4
<1>5. CASE read_receive
  BY <1>5, ReadEnds
<1>6. CASE wait_receive
  <2>1. PICK in \in f_receive_frame("R") :
          \/ Begin("R", "handle_disconnect", frame_number["R"], NoPacket, in.line)
          \/ line' = in.line /\ UNCHANGED <<op, retval>>
    BY <1>6 DEF wait_receive
  <2>2. in.line \in [Side -> Seq(Frame)] /\ Thinned(in.line)
    BY <1>0, ReceiveThins
  <2>3. CASE line' = in.line /\ UNCHANGED <<op, retval>>
    <3>1. Follows(line'["T"], line["T"], {})
      BY <1>0, <2>2, <2>3 DEF Thinned
    <3> QED BY <2>3, <3>1, FollowsMore, ReceiverEnds
  <2>4. CASE Begin("R", "handle_disconnect", frame_number["R"], NoPacket, in.line)
    <3>1. OutFrame("handle_disconnect", frame_number["R"], NoPacket) \in Frame
      <4>1. OutFrame("handle_disconnect", frame_number["R"], NoPacket) = FRAME(C_DISC)
        BY DEF OutFrame
      <4> QED BY <4>1, SupervisionFrames
    <3> QED BY <1>0, <2>2, <2>4, <3>1, BeginEnds
  <2> QED BY <2>1, <2>3, <2>4
<1>7. ASSUME NEW s \in Side, disconnect(s)
      PROVE  EndsInOrder
  <2>1. Begin(s, "disconnect", frame_number[s], NoPacket, line)
    BY <1>7 DEF disconnect
  <2>2. OutFrame("disconnect", frame_number[s], NoPacket) \in Frame
    <3>1. OutFrame("disconnect", frame_number[s], NoPacket) = FRAME(C_DISC)
      BY DEF OutFrame
    <3> QED BY <3>1, SupervisionFrames
  <2> QED BY <1>0, <2>1, <2>2, BeginEnds
<1>8. ASSUME NEW s \in Side, receive_reply(s)
      PROVE  EndsInOrder
  <2>1. PICK in \in f_receive_frame(s) : AckStep(s, in)
    BY <1>8 DEF receive_reply
  <2>2. in.line \in [Side -> Seq(Frame)] /\ Thinned(in.line) /\ op[s] \in Exchanges
    BY <1>8, ReceiveThins DEF receive_reply
  <2> QED BY <2>1, <2>2, ExchangeEnds
<1>9. ASSUME NEW s \in Side, timeout(s)
      PROVE  EndsInOrder
  <2>1. AckStep(s, TimedOut) /\ op[s] \in Exchanges
    BY <1>9 DEF timeout
  <2>2. TimedOut.line = line /\ TimedOut.control = 0
    BY DEF TimedOut
  <2> QED BY <1>0, <2>1, <2>2, ExchangeEnds
<1>10. ASSUME NEW s \in Side, crash(s)
       PROVE  EndsInOrder
  <2>1. /\ op' = [op EXCEPT ![s] = "crashed"] /\ line' = [line EXCEPT ![s] = <<>>]
        /\ UNCHANGED retval
    BY <1>10 DEF crash
  <2>2. /\ op'["T"] \in {op["T"], "crashed"} /\ retval'["T"] = retval["T"]
        /\ op'["R"] \in {op["R"], "crashed"}
        /\ line'["T"] \in {line["T"], <<>>}
    BY <1>0, <2>1
  <2>3. op["R"] \in Leaving => op'["R"] \in Leaving
    BY <2>2 DEF Leaving
  <2>4. op'["T"] # "closed" \/ (op'["T"] = op["T"] /\ retval'["T"] = retval["T"])
    BY <2>2
  <2> QED BY <2>2, <2>3, <2>4, QuietEnds
<1>11. ASSUME NEW s \in Side, lose(s)
       PROVE  EndsInOrder
  <2>1. /\ line[s] # <<>> /\ line' = [line EXCEPT ![s] = Tail(line[s])]
        /\ UNCHANGED <<op, retval>>
    BY <1>11 DEF lose, Taken
  <2>2. line'["T"] = line["T"] \/ (line["T"] # <<>> /\ line'["T"] = Tail(line["T"]))
    BY <1>0, <2>1
  <2>3. op'["T"] = op["T"] /\ op'["R"] = op["R"] /\ retval'["T"] = retval["T"]
    BY <2>1
  <2> QED BY <2>2, <2>3, QuietEnds
<1> QED BY <1>1, <1>2, <1>3, <1>4, <1>5, <1>6, <1>7, <1>8, <1>9, <1>10, <1>11 DEF Next

EndsInv == TypeOK /\ CallInv /\ DiscInv /\ BothClosed

\* When the transmitter's disconnect has returned 0, the receiver is in an exchange
\* of DISC or has closed its port, if no damaged header reads as a DISC.
THEOREM BothSidesClose ==
  ASSUME C_DISC \notin Misread
  PROVE  Spec => []BothClosed
<1>1. Init => EndsInv
  <2>1. ASSUME Init
        PROVE  DiscInv /\ BothClosed
    BY <2>1 DEF Init, DiscInv, BothClosed, Side
  <2> QED BY <2>1, TypeInit DEF EndsInv
<1>2. ASSUME EndsInv, [Next]_vars
      PROVE  EndsInv'
  <2>1. TypeOK' /\ CallInv' /\ EndsInOrder
    BY <1>2, TypeStep, CallStep, EndsStep DEF EndsInv
  <2>2. DiscInv'
    <3>1. SUFFICES ASSUME op'["R"] \notin Leaving, NEW i \in DOMAIN line'["T"]
                   PROVE  line'["T"][i] \in NotDISC
      BY DEF DiscInv, NotDISC
    <3>2. Follows(line'["T"], line["T"], NotDISC) /\ op["R"] \notin Leaving
      BY <2>1, <3>1 DEF EndsInOrder
    <3> QED BY <1>2, <3>1, <3>2 DEF EndsInv, DiscInv, Follows
  <2>3. BothClosed'
    BY <1>2, <2>1 DEF EndsInv, EndsInOrder, BothClosed, Leaving
  <2> QED BY <2>1, <2>2, <2>3 DEF EndsInv
<1>3. EndsInv => BothClosed
  BY DEF EndsInv
<1>4. EndsInv /\ [Next]_vars => EndsInv'
  BY <1>2
<1> QED BY <1>1, <1>3, <1>4, PTL DEF Spec

-----------------------------------------------------------------------------
(* A transmitter rides out the faults of the frames it sends. What the     *)
(* steps of either side do to the two lines, lt to the transmitter and lr  *)
(* to the receiver, and what that leaves of the promises made about them.  *)

\* A line at its ends.
LEMMA LineEnds ==
  ASSUME NEW q \in Seq(Frame)
  PROVE  /\ DOMAIN q = 1..Len(q) /\ Len(q) \in Nat
         /\ q # <<>> => /\ Len(q) >= 1 /\ Head(q) = q[1] /\ Head(q) \in Frame
                        /\ Tail(q) \in Seq(Frame) /\ Len(Tail(q)) = Len(q) - 1
                        /\ DOMAIN Tail(q) = 1..(Len(q) - 1)
                        /\ \A i \in 1..(Len(q) - 1) : Tail(q)[i] = q[i + 1]
         /\ q = <<>> <=> Len(q) = 0
OBVIOUS

LEMMA LineAppend ==
  ASSUME NEW q \in Seq(Frame), NEW f \in Frame
  PROVE  /\ Append(q, f) \in Seq(Frame)
         /\ Len(Append(q, f)) = Len(q) + 1
         /\ DOMAIN Append(q, f) = 1..(Len(q) + 1)
         /\ \A i \in 1..Len(q) : Append(q, f)[i] = q[i]
         /\ Append(q, f)[Len(q) + 1] = f
OBVIOUS

\* A bound that grows.
LEMMA Rising ==
  \A i \in Int, d \in Nat, d2 \in Nat :
    d2 >= d => (i <= d => i <= d2) /\ (i <= d + 1 => i <= d2 + 1)
OBVIOUS

\* The receiver has not taken what it was sent, if anything: it has rejected it or
\* ignored it, or the line has lost it. d2 faults have happened then, one more than
\* the d before unless the frame was stale.
Worn(lt, lr, lt2, lr2, k, d, d2) ==
  \/ lt2 = lt /\ lr2 = lr /\ d2 = d
  \/ /\ lt2 = lt \/ \E g \in Frame : IsReject(g.control) /\ lt2 = Append(lt, g)
     /\ \/ lr2 = lr /\ d2 = d + 1
        \/ /\ lr # <<>> /\ lr2 = Tail(lr)
           /\ d2 = d + 1 \/ (d2 = d /\ Stale(Head(lr), k))

\* Every frame that comes to be on its way is paid for by a fault.
Paid(lt, lr, lt2, lr2, d, d2) ==
  /\ d2 \in {d, d + 1} /\ lt2 \in Seq(Frame) /\ lr2 \in Seq(Frame)
  /\ lt2 = lt \/ \E g \in Frame : lt2 = Append(lt, g)
  /\ \A j \in DOMAIN lr2 : \E i \in DOMAIN lr : lr2[j] = lr[i]
  /\ Len(lt) + Len(lr) <= d => Len(lt2) + Len(lr2) <= d2
  /\ Len(lt) + Len(lr) <= d + 1 => Len(lt2) + Len(lr2) <= d2 + 1

LEMMA WornLength ==
  ASSUME NEW lt \in Seq(Frame), NEW lr \in Seq(Frame), NEW lt2, NEW lr2, NEW k,
         NEW d \in Nat, NEW d2, Worn(lt, lr, lt2, lr2, k, d, d2)
  PROVE  Paid(lt, lr, lt2, lr2, d, d2)
<1>1. d2 \in {d, d + 1} /\ (lt2 = lt \/ \E g \in Frame : lt2 = Append(lt, g))
  BY DEF Worn
<1>2. lt2 \in Seq(Frame) /\ Len(lt2) \in {Len(lt), Len(lt) + 1} /\ Len(lt) \in Nat
  BY <1>1, LineEnds, LineAppend
<1>3. CASE lt2 = lt /\ lr2 = lr /\ d2 = d
  BY <1>2, <1>3, LineEnds DEF Paid
<1>4. CASE lr2 = lr /\ d2 = d + 1
  BY <1>1, <1>2, <1>4, LineEnds DEF Paid
<1>5. CASE lr # <<>> /\ lr2 = Tail(lr)
  <2>1. /\ lr2 \in Seq(Frame) /\ Len(lr2) = Len(lr) - 1 /\ Len(lr) \in Nat
        /\ \A j \in DOMAIN lr2 : j + 1 \in DOMAIN lr /\ lr2[j] = lr[j + 1]
    BY <1>5, LineEnds
  <2>2. /\ Len(lt) + Len(lr) <= d => Len(lt2) + Len(lr2) <= d2
        /\ Len(lt) + Len(lr) <= d + 1 => Len(lt2) + Len(lr2) <= d2 + 1
    BY <1>1, <1>2, <2>1
  <2> QED BY <1>1, <1>2, <2>1, <2>2 DEF Paid
<1> QED BY <1>3, <1>4, <1>5 DEF Worn

LEMMA RejectsWorn ==
  ASSUME NEW lt \in Seq(Frame), NEW lt2, Rejects(lt),
         lt2 = lt \/ \E g \in Frame : IsReject(g.control) /\ lt2 = Append(lt, g)
  PROVE  Rejects(lt2) /\ lt2 \in Seq(Frame) /\ Len(lt2) \in {Len(lt), Len(lt) + 1}
<1>1. CASE lt2 = lt
  BY <1>1
<1>2. ASSUME NEW g \in Frame, IsReject(g.control), lt2 = Append(lt, g)
      PROVE  Rejects(lt2) /\ lt2 \in Seq(Frame) /\ Len(lt2) = Len(lt) + 1
  <2>1. \A i \in DOMAIN lt2 : (i \in DOMAIN lt /\ lt2[i] = lt[i]) \/ lt2[i] = g
    BY <1>2, LineEnds, LineAppend
  <2> QED BY <1>2, <2>1, LineAppend DEF Rejects
<1> QED BY <1>1, <1>2

LEMMA UnansweredWorn ==
  ASSUME NEW lt \in Seq(Frame), NEW lr \in Seq(Frame), NEW lt2, NEW lr2, NEW f,
         NEW k \in Nat, NEW u \in Nat, NEW d \in Nat, NEW d2,
         Unanswered(lt, lr, f, k, u, d), Worn(lt, lr, lt2, lr2, k, d, d2),
         d2 = d => ~Stale(f, k)
  PROVE  Unanswered(lt2, lr2, f, k, u, d2)
<1>1. Rejects(lt2) /\ Len(lt2) \in {Len(lt), Len(lt) + 1} /\ Len(lt) \in Nat
  BY RejectsWorn, LineEnds DEF Worn, Unanswered
<1>2. PICK q \in 1..(Len(lr) + 1) :
        /\ \A j \in DOMAIN lr : IF j < q THEN Stale(lr[j], k) ELSE lr[j] = f
        /\ u + Len(lt) + q <= d + 1
        /\ q = Len(lr) + 1 => u < d
  BY DEF Unanswered
<1>3. /\ DOMAIN lr = 1..Len(lr) /\ Len(lr) \in Nat /\ q \in Nat /\ q >= 1
      /\ d2 \in {d, d + 1}
  BY LineEnds DEF Worn
<1> DEFINE Good(p) == /\ \A j \in DOMAIN lr2 : IF j < p THEN Stale(lr2[j], k) ELSE lr2[j] = f
                      /\ u + Len(lt2) + p <= d2 + 1
                      /\ p = Len(lr2) + 1 => u < d2
<1>4. CASE lt2 = lt /\ lr2 = lr /\ d2 = d
  BY <1>4
<1>5. CASE lr2 = lr /\ d2 = d + 1
  <2>1. Good(q)
    BY <1>1, <1>2, <1>3, <1>5
  <2> HIDE DEF Good
  <2>2. \E p \in 1..(Len(lr2) + 1) : Good(p)
    BY <1>5, <2>1
  <2> QED BY <1>1, <2>2 DEF Good, Unanswered
<1>6. CASE lr # <<>> /\ lr2 = Tail(lr) /\ q > 1
  <2>1. /\ DOMAIN lr2 = 1..(Len(lr) - 1) /\ Len(lr2) = Len(lr) - 1
        /\ \A i \in 1..(Len(lr) - 1) : lr2[i] = lr[i + 1]
    BY <1>6, LineEnds
  <2>2. q - 1 \in 1..(Len(lr2) + 1)
    BY <1>2, <1>3, <1>6, <2>1
  <2>3. \A j \in DOMAIN lr2 : IF j < q - 1 THEN Stale(lr2[j], k) ELSE lr2[j] = f
    <3>1. TAKE j \in DOMAIN lr2
    <3>2. j + 1 \in DOMAIN lr /\ lr2[j] = lr[j + 1] /\ (j < q - 1 <=> j + 1 < q)
      BY <1>3, <2>1
    <3> QED BY <1>2, <3>2
  <2>4. Good(q - 1)
    <3>1. u + Len(lt2) + (q - 1) <= d2 + 1
      BY <1>1, <1>2, <1>3
    <3>2. q - 1 = Len(lr2) + 1 => u < d2
      BY <1>2, <1>3, <2>1
    <3> QED BY <2>3, <3>1, <3>2
  <2> HIDE DEF Good
  <2>5. \E p \in 1..(Len(lr2) + 1) : Good(p)
    BY <2>2, <2>4
  <2> QED BY <1>1, <2>5 DEF Good, Unanswered
<1>7. CASE lr # <<>> /\ lr2 = Tail(lr) /\ ~(q > 1)
  <2>1. /\ DOMAIN lr2 = 1..(Len(lr) - 1) /\ Len(lr2) = Len(lr) - 1 /\ Len(lr) >= 1
        /\ \A i \in 1..(Len(lr) - 1) : lr2[i] = lr[i + 1]
        /\ Head(lr) = lr[1]
    BY <1>7, LineEnds
  <2>2. q = 1 /\ lr[1] = f
    BY <1>2, <1>3, <1>7, <2>1
  <2>3. d2 = d + 1
    <3>1. lr2 # lr /\ Head(lr) = f
      BY <1>3, <2>1, <2>2
    <3>2. CASE d2 = d
      <4>1. Stale(f, k)
        BY <1>7, <3>1, <3>2 DEF Worn
      <4> QED BY <3>2, <4>1
    <3> QED BY <1>3, <3>2
  <2>4. \A j \in DOMAIN lr2 : lr2[j] = f /\ ~(j < 1)
    <3>1. TAKE j \in DOMAIN lr2
    <3>2. j + 1 \in DOMAIN lr /\ lr2[j] = lr[j + 1] /\ ~(j < 1) /\ ~(j + 1 < q)
      BY <1>3, <2>1, <2>2
    <3> QED BY <1>2, <3>2
  <2>5. Good(1)
    BY <1>1, <1>2, <1>3, <2>1, <2>2, <2>3, <2>4
  <2> HIDE DEF Good
  <2>6. \E p \in 1..(Len(lr2) + 1) : Good(p)
    BY <1>3, <2>1, <2>5
  <2> QED BY <1>1, <2>6 DEF Good, Unanswered
<1> QED BY <1>4, <1>5, <1>6, <1>7 DEF Worn

\* More behind the answer does not harm it.
LEMMA AnsweredWorn ==
  ASSUME NEW lt \in Seq(Frame), NEW lt2, NEW c, NEW u \in Nat, NEW d \in Nat, NEW d2 \in Nat,
         Answered(lt, c, u, d), lt2 = lt \/ (\E g \in Frame : lt2 = Append(lt, g)), d2 >= d
  PROVE  Answered(lt2, c, u, d2)
<1>1. PICK q \in DOMAIN lt :
        /\ lt[q].control = c
        /\ \A j \in DOMAIN lt : j < q => IsReject(lt[j].control)
        /\ u + q <= d + 1
  BY DEF Answered
<1>2. DOMAIN lt = 1..Len(lt) /\ Len(lt) \in Nat
  BY LineEnds
<1>3. CASE lt2 = lt
  BY <1>1, <1>2, <1>3 DEF Answered
<1>4. ASSUME NEW g \in Frame, lt2 = Append(lt, g)
      PROVE  Answered(lt2, c, u, d2)
  <2>1. /\ DOMAIN lt2 = 1..(Len(lt) + 1)
        /\ \A i \in 1..Len(lt) : lt2[i] = lt[i]
    BY <1>4, LineAppend
  <2>2. q \in DOMAIN lt2 /\ lt2[q].control = c /\ u + q <= d2 + 1
    BY <1>1, <1>2, <2>1
  <2>3. \A j \in DOMAIN lt2 : j < q => IsReject(lt2[j].control)
    BY <1>1, <1>2, <2>1
  <2> QED BY <2>2, <2>3 DEF Answered
<1> QED BY <1>3, <1>4

LEMMA SettledWorn ==
  ASSUME NEW lt \in Seq(Frame), NEW lr \in Seq(Frame), NEW lt2, NEW lr2, NEW c, NEW k,
         NEW d, NEW d2, Settled(lt, lr, c, k), Worn(lt, lr, lt2, lr2, k, d, d2), ~IsReject(c)
  PROVE  Settled(lt2, lr2, c, k)
<1>1. \A j \in DOMAIN lr2 : Stale(lr2[j], k)
  <2>1. lr2 = lr \/ \A j \in DOMAIN lr2 : j + 1 \in DOMAIN lr /\ lr2[j] = lr[j + 1]
    BY LineEnds DEF Worn
  <2> QED BY <2>1 DEF Settled
<1>2. /\ \A i \in DOMAIN lt2 : IsReject(lt2[i].control) \/ lt2[i].control = c
      /\ \A i, j \in DOMAIN lt2 : lt2[i].control = c /\ lt2[j].control = c => i = j
  <2>1. CASE lt2 = lt
    BY <2>1 DEF Settled
  <2>2. ASSUME NEW g \in Frame, IsReject(g.control), lt2 = Append(lt, g)
        PROVE  /\ \A i \in DOMAIN lt2 : IsReject(lt2[i].control) \/ lt2[i].control = c
               /\ \A i, j \in DOMAIN lt2 : lt2[i].control = c /\ lt2[j].control = c => i = j
    <3>1. \A i \in DOMAIN lt2 : (i \in DOMAIN lt /\ lt2[i] = lt[i]) \/ lt2[i] = g
      BY <2>2, LineEnds, LineAppend
    <3>2. \A i \in DOMAIN lt2 : lt2[i].control = c => i \in DOMAIN lt /\ lt2[i] = lt[i]
      BY <2>2, <3>1
    <3> QED BY <2>2, <3>1, <3>2 DEF Settled
  <2> QED BY <2>1, <2>2 DEF Worn
<1> QED BY <1>1, <1>2 DEF Settled
-----------------------------------------------------------------------------
(* The transmitter's side.                                                 *)

\* A call begins: it sends f behind what is left of the last one.
LEMMA FirstAttempt ==
  ASSUME NEW lt \in Seq(Frame), NEW lr \in Seq(Frame), NEW f \in Frame, NEW k, NEW d \in Nat,
         Rejects(lt), \A j \in DOMAIN lr : Stale(lr[j], k), Len(lt) + Len(lr) <= d
  PROVE  Unanswered(lt, Append(lr, f), f, k, 0, d)
<1>1. /\ DOMAIN lr = 1..Len(lr) /\ Len(lr) \in Nat /\ Len(lt) \in Nat
      /\ DOMAIN Append(lr, f) = 1..(Len(lr) + 1) /\ Len(Append(lr, f)) = Len(lr) + 1
      /\ \A i \in 1..Len(lr) : Append(lr, f)[i] = lr[i]
      /\ Append(lr, f)[Len(lr) + 1] = f
  BY LineEnds, LineAppend
<1> DEFINE lr2 == Append(lr, f)
           q == Len(lr) + 1
<1>2. q \in 1..(Len(lr2) + 1) /\ q # Len(lr2) + 1 /\ 0 + Len(lt) + q <= d + 1
  BY <1>1
<1>3. \A j \in DOMAIN lr2 : IF j < q THEN Stale(lr2[j], k) ELSE lr2[j] = f
  <2>1. TAKE j \in DOMAIN lr2
  <2>2. CASE j < q
    <3>1. j \in DOMAIN lr /\ lr2[j] = lr[j]
      BY <1>1, <2>2
    <3> QED BY <2>2, <3>1
  <2>3. CASE ~(j < q)
    BY <1>1, <2>3
  <2> QED BY <2>2, <2>3
<1> HIDE DEF lr2, q
<1> QED BY <1>2, <1>3 DEF Unanswered, lr2

\* A REJ comes in, or the alarm goes off on empty lines, and f is sent again.
LEMMA NextAttempt ==
  ASSUME NEW lt \in Seq(Frame), NEW lr \in Seq(Frame), NEW f \in Frame, NEW k,
         NEW u \in Nat, NEW d \in Nat, Unanswered(lt, lr, f, k, u, d),
         NEW lt2, NEW u2 \in {u, u + 1},
         \/ lt # <<>> /\ lt2 = Tail(lt)
         \/ lt = <<>> /\ lr = <<>> /\ lt2 = lt
  PROVE  u + 1 <= d /\ Unanswered(lt2, Append(lr, f), f, k, u2, d)
<1>1. /\ DOMAIN lr = 1..Len(lr) /\ Len(lr) \in Nat
      /\ DOMAIN Append(lr, f) = 1..(Len(lr) + 1) /\ Len(Append(lr, f)) = Len(lr) + 1
      /\ \A i \in 1..Len(lr) : Append(lr, f)[i] = lr[i]
      /\ Append(lr, f)[Len(lr) + 1] = f
      /\ DOMAIN lt = 1..Len(lt) /\ Len(lt) \in Nat
  BY LineEnds, LineAppend
<1>2. PICK q \in 1..(Len(lr) + 1) :
        /\ \A j \in DOMAIN lr : IF j < q THEN Stale(lr[j], k) ELSE lr[j] = f
        /\ u + Len(lt) + q <= d + 1
        /\ q = Len(lr) + 1 => u < d
  BY DEF Unanswered
<1> DEFINE lr2 == Append(lr, f)
<1>3. q \in 1..(Len(lr2) + 1) /\ q # Len(lr2) + 1 /\ q \in Nat /\ q >= 1
  BY <1>1
<1>4. \A j \in DOMAIN lr2 : IF j < q THEN Stale(lr2[j], k) ELSE lr2[j] = f
  <2>1. TAKE j \in DOMAIN lr2
  <2>2. CASE j \in DOMAIN lr
    <3>1. lr2[j] = lr[j]
      BY <1>1, <2>2
    <3> QED BY <1>2, <2>2, <3>1
  <2>3. CASE j \notin DOMAIN lr
    <3>1. j = Len(lr) + 1
      BY <1>1, <2>3
    <3>2. lr2[j] = f /\ ~(j < q)
      BY <1>1, <3>1
    <3> QED BY <3>2
  <2> QED BY <2>2, <2>3
<1> HIDE DEF lr2
<1>5. CASE lt # <<>> /\ lt2 = Tail(lt)
  <2>1. /\ Len(lt) >= 1 /\ Len(lt2) = Len(lt) - 1 /\ DOMAIN lt2 = 1..(Len(lt) - 1)
        /\ \A i \in 1..(Len(lt) - 1) : lt2[i] = lt[i + 1]
    BY <1>5, LineEnds
  <2>2. u + 1 <= d /\ u2 + Len(lt2) + q <= d + 1
    BY <1>1, <1>2, <1>3, <2>1
  <2>3. Rejects(lt2)
    <3>1. \A i \in DOMAIN lt2 : i + 1 \in DOMAIN lt /\ lt2[i] = lt[i + 1]
      BY <1>1, <2>1
    <3> QED BY <3>1 DEF Unanswered, Rejects
  <2> QED BY <1>3, <1>4, <2>2, <2>3 DEF Unanswered, lr2
<1>6. CASE lt = <<>> /\ lr = <<>> /\ lt2 = lt
  <2>1. Len(lt) = 0 /\ Len(lr) = 0
    BY <1>6, LineEnds
  <2>2. q = 1 /\ u < d
    BY <1>2, <1>3, <2>1
  <2>3. u + 1 <= d /\ u2 + Len(lt2) + q <= d + 1
    BY <1>6, <2>1, <2>2
  <2>4. Rejects(lt2)
    BY <1>6 DEF Unanswered
  <2> QED BY <1>3, <1>4, <2>3, <2>4 DEF Unanswered, lr2
<1> QED BY <1>5, <1>6

\* While the answer is on its way the first frame is a REJ, and an attempt is left
\* for it, or the answer itself.
Coming(lt, c, u, d) ==
  /\ lt # <<>> /\ Head(lt).control = lt[1].control
  /\ \/ lt[1].control = c
     \/ /\ IsReject(lt[1].control) /\ u + 1 <= d
        /\ \A u2 \in {u, u + 1} : Answered(Tail(lt), c, u2, d)

LEMMA AnsweredHead ==
  ASSUME NEW lt \in Seq(Frame), NEW c, NEW u \in Nat, NEW d \in Nat, Answered(lt, c, u, d)
  PROVE  Coming(lt, c, u, d)
<1>1. PICK q \in DOMAIN lt :
        /\ lt[q].control = c
        /\ \A j \in DOMAIN lt : j < q => IsReject(lt[j].control)
        /\ u + q <= d + 1
  BY DEF Answered
<1>2. /\ DOMAIN lt = 1..Len(lt) /\ Len(lt) \in Nat /\ lt # <<>> /\ Head(lt) = lt[1]
      /\ DOMAIN Tail(lt) = 1..(Len(lt) - 1)
      /\ \A i \in 1..(Len(lt) - 1) : Tail(lt)[i] = lt[i + 1]
  <2>1. DOMAIN lt = 1..Len(lt) /\ Len(lt) \in Nat /\ (lt = <<>> <=> Len(lt) = 0)
    BY LineEnds
  <2>2. lt # <<>>
    BY <1>1, <2>1
  <2> QED BY <2>1, <2>2, LineEnds
<1>3. CASE q = 1
  BY <1>1, <1>2, <1>3 DEF Coming
<1>4. CASE q # 1
  <2>1. q - 1 \in DOMAIN Tail(lt) /\ Tail(lt)[q - 1] = lt[q] /\ 1 < q /\ 1 \in DOMAIN lt
    BY <1>1, <1>2, <1>4
  <2>2. u + 1 <= d /\ \A u2 \in {u, u + 1} : u2 + (q - 1) <= d + 1
    BY <1>1, <1>2, <2>1
  <2>3. \A j \in DOMAIN Tail(lt) : j < q - 1 => IsReject(Tail(lt)[j].control)
    <3>1. ASSUME NEW j \in DOMAIN Tail(lt), j < q - 1
          PROVE  IsReject(Tail(lt)[j].control)
      <4>1. j + 1 \in DOMAIN lt /\ Tail(lt)[j] = lt[j + 1] /\ j + 1 < q
        BY <1>1, <1>2, <3>1
      <4> QED BY <1>1, <4>1
    <3> QED BY <3>1
  <2>4. \A u2 \in {u, u + 1} : Answered(Tail(lt), c, u2, d)
    BY <1>1, <2>1, <2>2, <2>3 DEF Answered
  <2> QED BY <1>1, <1>2, <2>1, <2>2, <2>4 DEF Coming
<1> QED BY <1>3, <1>4

\* The first frame is taken off and a frame f that is stale by now is sent again.
LEMMA SettledResent ==
  ASSUME NEW lt \in Seq(Frame), NEW lr \in Seq(Frame), NEW f \in Frame, NEW c, NEW k,
         Settled(lt, lr, c, k), Stale(f, k), lt # <<>>
  PROVE  Settled(Tail(lt), Append(lr, f), c, k)
<1>1. \A i \in DOMAIN Tail(lt) : i + 1 \in DOMAIN lt /\ Tail(lt)[i] = lt[i + 1] /\ i \in Nat
  BY LineEnds
<1>2. \A j \in DOMAIN Append(lr, f) :
        (j \in DOMAIN lr /\ Append(lr, f)[j] = lr[j]) \/ Append(lr, f)[j] = f
  BY LineEnds, LineAppend
<1>3. \A j \in DOMAIN Append(lr, f) : Stale(Append(lr, f)[j], k)
  BY <1>2 DEF Settled
<1>4. \A i \in DOMAIN Tail(lt) : IsReject(Tail(lt)[i].control) \/ Tail(lt)[i].control = c
  BY <1>1 DEF Settled
<1>5. ASSUME NEW i \in DOMAIN Tail(lt), NEW j \in DOMAIN Tail(lt),
             Tail(lt)[i].control = c, Tail(lt)[j].control = c
      PROVE  i = j
  <2>1. i + 1 = j + 1 /\ i \in Nat /\ j \in Nat
    BY <1>1, <1>5 DEF Settled
  <2> QED BY <2>1
<1> QED BY <1>3, <1>4, <1>5 DEF Settled

\* Once the answer is taken off, the lines are as between calls.
LEMMA SettledTaken ==
  ASSUME NEW lt \in Seq(Frame), NEW lr, NEW c, NEW k,
         Settled(lt, lr, c, k), lt # <<>>, lt[1].control = c
  PROVE  Rejects(Tail(lt)) /\ \A j \in DOMAIN lr : Stale(lr[j], k)
<1>1. \A i \in DOMAIN Tail(lt) : i + 1 \in DOMAIN lt /\ Tail(lt)[i] = lt[i + 1] /\ i + 1 # 1
  BY LineEnds
<1>2. 1 \in DOMAIN lt
  BY LineEnds
<1>3. \A i \in DOMAIN Tail(lt) : IsReject(Tail(lt)[i].control)
  BY <1>1, <1>2 DEF Settled
<1> QED BY <1>3 DEF Rejects, Settled

\* The receiver takes a copy of f and answers it with g.
LEMMA AnswerSent ==
  ASSUME NEW lt \in Seq(Frame), NEW lr \in Seq(Frame), NEW f, NEW g \in Frame,
         NEW k, NEW k2, NEW u \in Nat, NEW d \in Nat, Unanswered(lt, lr, f, k, u, d),
         lr # <<>>, ~IsReject(g.control),
         ~Stale(Head(lr), k) \/ \A j \in DOMAIN lr : lr[j] = f
  PROVE  /\ \A j \in DOMAIN lr : lr[j] = f
         /\ Answered(Append(lt, g), g.control, u, d)
         /\ Stale(f, k2) => Settled(Append(lt, g), Tail(lr), g.control, k2)
<1>1. PICK q \in 1..(Len(lr) + 1) :
        /\ \A j \in DOMAIN lr : IF j < q THEN Stale(lr[j], k) ELSE lr[j] = f
        /\ u + Len(lt) + q <= d + 1
  BY DEF Unanswered
<1>2. /\ DOMAIN lr = 1..Len(lr) /\ Len(lr) \in Nat /\ Len(lr) >= 1 /\ Head(lr) = lr[1]
      /\ \A i \in DOMAIN Tail(lr) : i + 1 \in DOMAIN lr /\ Tail(lr)[i] = lr[i + 1]
  BY LineEnds
<1>3. /\ DOMAIN lt = 1..Len(lt) /\ Len(lt) \in Nat
      /\ DOMAIN Append(lt, g) = 1..(Len(lt) + 1)
      /\ \A i \in 1..Len(lt) : Append(lt, g)[i] = lt[i]
      /\ Append(lt, g)[Len(lt) + 1] = g
  BY LineEnds, LineAppend
<1>4. \A j \in DOMAIN lr : lr[j] = f
  <2>1. CASE ~Stale(Head(lr), k)
    <3>1. 1 \in DOMAIN lr /\ ~(1 < q)
      BY <1>1, <1>2, <2>1
    <3>2. \A j \in DOMAIN lr : ~(j < q)
      BY <1>2, <3>1
    <3> QED BY <1>1, <3>2
  <2> QED BY <2>1
<1>5. \A i \in 1..Len(lt) : IsReject(Append(lt, g)[i].control)
  BY <1>3 DEF Unanswered, Rejects
<1>6. Answered(Append(lt, g), g.control, u, d)
  <2> DEFINE p == Len(lt) + 1
  <2>1. p \in DOMAIN Append(lt, g) /\ Append(lt, g)[p].control = g.control /\ u + p <= d + 1
    BY <1>1, <1>3
  <2>2. \A j \in DOMAIN Append(lt, g) : j < p => IsReject(Append(lt, g)[j].control)
    BY <1>3, <1>5
  <2> HIDE DEF p
  <2> QED BY <2>1, <2>2 DEF Answered
<1>7. ASSUME Stale(f, k2)
      PROVE  Settled(Append(lt, g), Tail(lr), g.control, k2)
  <2>1. \A i \in DOMAIN Append(lt, g) : i \in 1..Len(lt) \/ i = Len(lt) + 1
    BY <1>3
  <2>2. \A i \in DOMAIN Append(lt, g) : Append(lt, g)[i].control = g.control => i = Len(lt) + 1
    BY <1>5, <2>1
  <2>3. \A i \in DOMAIN Append(lt, g) :
          IsReject(Append(lt, g)[i].control) \/ Append(lt, g)[i].control = g.control
    BY <1>3, <1>5, <2>1
  <2>4. \A j \in DOMAIN Tail(lr) : Stale(Tail(lr)[j], k2)
    BY <1>2, <1>4, <1>7
  <2> QED BY <2>2, <2>3, <2>4 DEF Settled
<1> QED BY <1>4, <1>6, <1>7

LEMMA AnswerLength ==
  ASSUME NEW lt \in Seq(Frame), NEW lr \in Seq(Frame), NEW g \in Frame, lr # <<>>
  PROVE  Len(Append(lt, g)) + Len(Tail(lr)) = Len(lt) + Len(lr)
<1>1. /\ Len(Append(lt, g)) = Len(lt) + 1 /\ Len(Tail(lr)) = Len(lr) - 1
      /\ Len(lt) \in Nat /\ Len(lr) \in Nat
  BY LineEnds, LineAppend
<1> QED BY <1>1

-----------------------------------------------------------------------------
(* What the steps come to when only the frames sent to the receiver meet   *)
(* with faults.                                                            *)

\* A fault is counted, and is none of a write or a port.
LEMMA ForwardFaults ==
  ASSUME OnlyForwardFaults, TypeOK, NEW kinds, Suffer(kinds)
  PROVE  /\ "unwritten" \notin kinds /\ "port" \notin kinds
         /\ Harmed \in Nat /\ Harmed' \in Nat /\ Harmed' >= Harmed
         /\ kinds = {} => Harmed' = Harmed
         /\ kinds = {"lost"} \/ kinds = {"damaged"} => Harmed' = Harmed + 1
<1>1. /\ faults["lost"] \in Nat /\ faults["damaged"] \in Nat
      /\ faults["unwritten"] \in Nat /\ faults["port"] \in Nat
  BY DEF TypeOK, Faults
<1>2. /\ faults'["lost"] = IF "lost" \in kinds THEN faults["lost"] + 1 ELSE faults["lost"]
      /\ faults'["damaged"] = IF "damaged" \in kinds THEN faults["damaged"] + 1
                                                      ELSE faults["damaged"]
  BY DEF Suffer, Faults
<1>3. "unwritten" \notin kinds /\ "port" \notin kinds
  <2>1. ~(faults["unwritten"] < MaxFaults["unwritten"]) /\ ~(faults["port"] < MaxFaults["port"])
    BY <1>1 DEF OnlyForwardFaults
  <2> QED BY <2>1 DEF Suffer
<1> QED BY <1>1, <1>2, <1>3 DEF Harmed

LEMMA HarmedGrows ==
  ASSUME OnlyForwardFaults, TypeOK, Harm
  PROVE  Harmed \in Nat /\ Harmed' \in Nat /\ Harmed' >= Harmed
<1>1. CASE UNCHANGED faults
  BY <1>1 DEF TypeOK, Faults, Harmed
<1>2. ASSUME NEW kinds, Suffer(kinds)
      PROVE  Harmed \in Nat /\ Harmed' \in Nat /\ Harmed' >= Harmed
  BY <1>2, ForwardFaults
<1> QED BY <1>1, <1>2 DEF Harm

\* A frame that can be written is on the line if the peer's port is open.
LEMMA Written ==
  ASSUME NEW s \in Side, NEW f, NEW ln \in [Side -> Seq(Frame)],
         NEW out \in f_send_frame(s, f, ln), "unwritten" \notin out.kinds
  PROVE  /\ out.ret = SUCCESS_CODE /\ out.ret # ERROR_CODE /\ out.kinds = {}
         /\ out.line[s] = ln[s]
         /\ is_open(Peer(s)) => out.line[Peer(s)] = Append(ln[Peer(s)], f)
<1>1. Peer(s) \in Side /\ Peer(s) # s
  BY DEF Peer, Side
<1> DEFINE on == IF is_open(Peer(s)) THEN [ln EXCEPT ![Peer(s)] = Append(@, f)] ELSE ln
<1>2. /\ on[s] = ln[s]
      /\ is_open(Peer(s)) => on[Peer(s)] = Append(ln[Peer(s)], f)
  BY <1>1
<1>3. \/ out = [ret |-> SUCCESS_CODE, kinds |-> {}, line |-> on]
      \/ out = [ret |-> ERROR_CODE, kinds |-> {"unwritten"}, line |-> ln]
  BY DEF f_send_frame
<1> HIDE DEF on
<1> QED BY <1>2, <1>3 DEF SUCCESS_CODE, ERROR_CODE

LEMMA ForwardBegin ==
  ASSUME OnlyForwardFaults, TypeOK, NEW s \in Side, NEW o \in Exchanges, NEW k, NEW p,
         NEW ln \in [Side -> Seq(Frame)], Begin(s, o, k, p, ln)
  PROVE  /\ op' = [op EXCEPT ![s] = o]
         /\ ntries' = [ntries EXCEPT ![s] = NumRetransmissions]
         /\ UNCHANGED <<is_active, retval>> /\ Harmed' = Harmed
         /\ line'[s] = ln[s]
         /\ is_open(Peer(s)) => line'[Peer(s)] = Append(ln[Peer(s)], OutFrame(o, k, p))
<1> DEFINE f == OutFrame(o, k, p)
<1>1. PICK out \in f_send_frame(s, f, ln) :
        \/ /\ out.ret = SUCCESS_CODE
           /\ op' = [op EXCEPT ![s] = o]
           /\ ntries' = [ntries EXCEPT ![s] = NumRetransmissions]
           /\ line' = out.line
           /\ Suffer(out.kinds)
           /\ UNCHANGED <<is_active, retval>>
        \/ /\ out.ret = ERROR_CODE
           /\ Return(s, o, -1, out.line, out.kinds)
  BY DEF Begin
<1> HIDE DEF f
<1>2. "unwritten" \notin out.kinds
  <2>1. \E kinds : out.kinds \subseteq kinds /\ Suffer(kinds)
    BY <1>1 DEF Return
  <2> QED BY <2>1, ForwardFaults
<1>3. /\ out.ret # ERROR_CODE /\ out.kinds = {}
      /\ out.line[s] = ln[s]
      /\ is_open(Peer(s)) => out.line[Peer(s)] = Append(ln[Peer(s)], f)
  BY <1>2, Written
<1>4. Harmed' = Harmed
  BY <1>1, <1>3, ForwardFaults
<1> QED BY <1>1, <1>3, <1>4 DEF f

\* What comes back to the transmitter is what was sent.
LEMMA ForwardReply ==
  ASSUME OnlyForwardFaults, NEW in \in f_receive_frame("T")
  PROVE  /\ line["T"] # <<>> /\ in.kinds = {} /\ in.line = Taken("T")
         /\ in.control = Head(line["T"]).control
         /\ in.ret = SUCCESS_CODE \/ IsData(Head(line["T"]))
<1>1. line["T"] # <<>> /\ in \in Intact("T") \cup Unbuffered("T")
  BY DEF f_receive_frame, OnlyForwardFaults
<1> DEFINE hd == Head(line["T"])
<1>2. CASE in \in Intact("T")
  BY <1>1, <1>2 DEF Intact
<1>3. CASE in \in Unbuffered("T")
  BY <1>1, <1>3 DEF Unbuffered
<1> QED BY <1>1, <1>2, <1>3

\* What the receiver gets: the first frame, or damage.
LEMMA ForwardFrame ==
  ASSUME OnlyForwardFaults, TypeOK, NEW in \in f_receive_frame("R"),
         op["R"] = "receiver_read" \/ line["R"] = <<>> \/ ~IsData(Head(line["R"]))
  PROVE  /\ in.line \in [Side -> Seq(Frame)] /\ in.line["T"] = line["T"]
         /\ in.line["R"] = line["R"] \/ (line["R"] # <<>> /\ in.line["R"] = Tail(line["R"]))
         /\ \/ /\ in.ret = SUCCESS_CODE /\ in.kinds = {} /\ line["R"] # <<>>
               /\ in.line["R"] = Tail(line["R"]) /\ in.control = Head(line["R"]).control
            \/ /\ in.ret = BADFRAME_CODE /\ in.kinds = {"damaged"}
               /\ \/ in.control \in Misread \cup {0}
                  \/ /\ line["R"] # <<>> /\ in.line["R"] = Tail(line["R"])
                     /\ in.control = Head(line["R"]).control
<1>0. "R" \in Side /\ Peer("R") = "T"
  BY DEF Side, Peer
<1>1. /\ in.line \in [Side -> Seq(Frame)] /\ in.line["T"] = line["T"]
      /\ in.line["R"] = line["R"] \/ (line["R"] # <<>> /\ in.line["R"] = Tail(line["R"]))
      /\ in.ret = SUCCESS_CODE => /\ line["R"] # <<>>
                                  /\ in.line["R"] = Tail(line["R"])
                                  /\ in.control = Head(line["R"]).control
      /\ \/ in.control \in Misread \cup {0}
         \/ /\ line["R"] # <<>>
            /\ in.line["R"] = Tail(line["R"])
            /\ in.control = Head(line["R"]).control
  BY <1>0, Receiving
<1>2. \/ in.ret = SUCCESS_CODE /\ in.kinds = {}
      \/ in.ret = BADFRAME_CODE /\ in.kinds = {"damaged"}
  <2>1. CASE line["R"] # <<>> /\ in \in Intact("R")
    BY <2>1 DEF Intact
  <2>2. CASE line["R"] # <<>> /\ in \in Unbuffered("R")
    BY <2>2 DEF Unbuffered
  <2>3. ASSUME NEW c, NEW ln, in = Damaged(c, ln)
        PROVE  in.ret = BADFRAME_CODE /\ in.kinds = {"damaged"}
    BY <2>3 DEF Damaged
  <2> QED BY <2>1, <2>2, <2>3 DEF f_receive_frame
<1> QED BY <1>1, <1>2

\* The transmitter's exchange gets its answer.
LEMMA ForwardAnswered ==
  ASSUME OnlyForwardFaults, TypeOK,
         op["T"] \in {"transmitter_connect", "transmitter_write", "disconnect"},
         op["T"] = "transmitter_write" => is_active["T"],
         NEW in, in.line \in [Side -> Seq(Frame)], in.kinds = {}, AckStep("T", in),
         Accepted("T", in)
  PROVE  /\ retval'["T"] = 0 /\ Harmed' = Harmed
         /\ op'["R"] = op["R"] /\ frame_number'["R"] = frame_number["R"]
         /\ op["T"] = "disconnect" => op'["T"] = "closed"
         /\ op["T"] # "disconnect" =>
              /\ op'["T"] = "none" /\ is_active'["T"] /\ line' = in.line
              /\ frame_number'["T"] = IF op["T"] = "transmitter_write"
                                        THEN frame_number["T"] + 1 ELSE frame_number["T"]
<1>0. /\ "T" \in Side /\ "R" \in Side /\ "T" # "R"
      /\ op \in [Side -> Ops] /\ retval \in [Side -> {0, -1}]
      /\ is_active \in [Side -> BOOLEAN] /\ frame_number \in [Side -> Nat]
  BY DEF Side, TypeOK
<1>1. Complete("T", in)
  BY DEF AckStep, GiveUp, Resend
<1>2. /\ frame_number'["R"] = frame_number["R"]
      /\ frame_number'["T"] = IF op["T"] = "transmitter_write"
                                THEN frame_number["T"] + 1 ELSE frame_number["T"]
  BY <1>0, <1>1 DEF Complete
<1>3. CASE op["T"] = "disconnect"
  <2> DEFINE f == FRAME(C_UA)
  <2>1. PICK out \in f_send_frame("T", f, in.line) :
          Return("T", op["T"], IF out.ret = SUCCESS_CODE THEN 0 ELSE -1, out.line,
                 in.kinds \cup out.kinds)
    BY <1>1, <1>3 DEF Complete
  <2> HIDE DEF f
  <2>2. PICK unclosed \in SUBSET {"port"} :
          /\ op' = [op EXCEPT !["T"] = "closed"] \/ unclosed # {}
          /\ op'["R"] = op["R"]
          /\ retval' = [retval EXCEPT !["T"] = IF unclosed # {} THEN -1
                                               ELSE IF out.ret = SUCCESS_CODE THEN 0 ELSE -1]
          /\ Suffer(in.kinds \cup out.kinds \cup unclosed)
    BY <1>0, <1>3, <2>1 DEF Return
  <2>3. "unwritten" \notin out.kinds /\ unclosed = {}
    BY <2>2, ForwardFaults
  <2>4. out.ret = SUCCESS_CODE /\ out.kinds = {}
    <3>1. "T" \in Side /\ in.line \in [Side -> Seq(Frame)] /\ "unwritten" \notin out.kinds
      BY <1>0, <2>3
    <3> QED BY ONLY <2>1, <3>1, Written, Zenon
  <2>5. Harmed' = Harmed
    <3>1. in.kinds \cup out.kinds \cup unclosed = {}
      BY <2>3, <2>4
    <3> QED BY <2>2, <3>1, ForwardFaults
  <2> QED BY <1>0, <1>2, <1>3, <2>2, <2>3, <2>4, <2>5
<1>4. CASE op["T"] # "disconnect"
  <2>1. Return("T", op["T"], 0, in.line, in.kinds)
    BY <1>1, <1>4 DEF Complete
  <2>2. /\ op' = [op EXCEPT !["T"] = "none"]
        /\ is_active'["T"]
        /\ retval' = [retval EXCEPT !["T"] = 0]
        /\ line' = in.line
        /\ Suffer(in.kinds)
    BY <1>0, <1>4, <2>1 DEF Return
  <2>3. Harmed' = Harmed
    BY <2>2, ForwardFaults
  <2> QED BY <1>0, <1>2, <1>4, <2>2, <2>3
<1> QED BY <1>3, <1>4

\* It gets another reply, or none, and sends its frame again.
LEMMA ForwardResent ==
  ASSUME OnlyForwardFaults, TypeOK,
         op["T"] \in {"transmitter_connect", "transmitter_write", "disconnect"},
         NEW in, in.line \in [Side -> Seq(Frame)], in.kinds = {}, AckStep("T", in),
         ~Accepted("T", in), Left("T", in) > 0
  PROVE  /\ UNCHANGED <<op, is_active, retval, frame_number, packet>> /\ Harmed' = Harmed
         /\ ntries'["T"] = Left("T", in)
         /\ line'["T"] = in.line["T"]
         /\ is_open("R") =>
              line'["R"] = Append(in.line["R"], OutFrame(op["T"], frame_number["T"], packet))
<1>0. "T" \in Side /\ Peer("T") = "R" /\ DOMAIN ntries = Side
  BY DEF Side, TypeOK, Peer
<1>1. Resend("T", in) /\ UNCHANGED packet
  <2>1. ~(Left("T", in) = 0)
    OBVIOUS
  <2> QED BY <2>1 DEF AckStep, GiveUp, Complete
<1> DEFINE f == OutFrame(op["T"], frame_number["T"], packet)
<1>2. PICK out \in f_send_frame("T", f, in.line) :
        \/ /\ out.ret = SUCCESS_CODE
           /\ ntries' = [ntries EXCEPT !["T"] = Left("T", in)]
           /\ line' = out.line
           /\ Suffer(in.kinds \cup out.kinds)
           /\ UNCHANGED <<op, is_active, retval>>
        \/ /\ out.ret = ERROR_CODE
           /\ Return("T", op["T"], -1, out.line, in.kinds \cup out.kinds)
  BY <1>1 DEF Resend
<1> HIDE DEF f
<1>3. "unwritten" \notin out.kinds
  <2>1. \E kinds : out.kinds \subseteq kinds /\ Suffer(kinds)
    BY <1>2 DEF Return
  <2> QED BY <2>1, ForwardFaults
<1>4. /\ out.ret # ERROR_CODE /\ out.kinds = {}
      /\ out.line["T"] = in.line["T"]
      /\ is_open("R") => out.line["R"] = Append(in.line["R"], f)
  <2>1. /\ out.ret # ERROR_CODE /\ out.kinds = {} /\ out.line["T"] = in.line["T"]
        /\ is_open(Peer("T")) => out.line[Peer("T")] = Append(in.line[Peer("T")], f)
    <3>1. /\ "T" \in Side /\ out \in f_send_frame("T", f, in.line)
          /\ in.line \in [Side -> Seq(Frame)] /\ "unwritten" \notin out.kinds
      BY <1>0, <1>2, <1>3
    <3>2. out.ret # ERROR_CODE /\ out.kinds = {}
      BY ONLY <3>1, Written, SMTT(40)
    <3>3. out.line["T"] = in.line["T"]
      BY ONLY <3>1, Written, SMTT(40)
    <3>4. is_open(Peer("T")) => out.line[Peer("T")] = Append(in.line[Peer("T")], f)
      BY ONLY <3>1, Written, SMTT(40)
    <3> QED BY <3>2, <3>3, <3>4
  <2> QED BY <1>0, <2>1
<1>5. Harmed' = Harmed
  <2>1. Suffer({})
    BY <1>2, <1>4
  <2> QED BY <2>1, ForwardFaults
<1>6. UNCHANGED frame_number
  BY <1>1 DEF Resend
<1> QED BY <1>0, <1>1, <1>2, <1>4, <1>5, <1>6 DEF f

\* The receiver's steps, and those of its line.
ReceiverStep ==
  \/ receiver_listen \/ listen_receive \/ receiver_read \/ read_receive
  \/ wait_for_disconnect \/ wait_receive
  \/ disconnect("R") \/ receive_reply("R") \/ timeout("R") \/ crash("R") \/ lose("R")

LeavesTransmitter ==
  /\ op'["T"] = op["T"] /\ ntries'["T"] = ntries["T"] /\ is_active'["T"] = is_active["T"]
  /\ retval'["T"] = retval["T"] /\ frame_number'["T"] = frame_number["T"]
  /\ UNCHANGED packet

LEMMA ReceiverLeaves ==
  ASSUME TypeOK, CallInv, ReceiverStep
  PROVE  LeavesTransmitter
<1>0. /\ "T" \in Side /\ "R" \in Side /\ "T" # "R"
      /\ op \in [Side -> Ops] /\ retval \in [Side -> {0, -1}]
      /\ is_active \in [Side -> BOOLEAN] /\ frame_number \in [Side -> Nat]
      /\ ntries \in [Side -> 0..NumRetransmissions]
  BY DEF Side, TypeOK
<1> DEFINE Calls == /\ op'["T"] = op["T"] /\ ntries'["T"] = ntries["T"]
                    /\ is_active'["T"] = is_active["T"] /\ retval'["T"] = retval["T"]
<1>1. ASSUME NEW o \in Exchanges, NEW r, NEW ln, NEW kinds, Return("R", o, r, ln, kinds)
      PROVE  Calls
  <2>1. ntries'["T"] = ntries["T"]
    BY <1>0, <1>1 DEF Return
  <2> QED BY <1>0, <1>1, <2>1, ReturnSides, ReturnValue
<1>2. ASSUME NEW o \in Exchanges, NEW k, NEW p, NEW ln, Begin("R", o, k, p, ln)
      PROVE  Calls
  <2>1. PICK out :
          \/ /\ op' = [op EXCEPT !["R"] = o]
             /\ ntries' = [ntries EXCEPT !["R"] = NumRetransmissions]
             /\ UNCHANGED <<is_active, retval>>
          \/ Return("R", o, -1, out.line, out.kinds)
    BY <1>2 DEF Begin
  <2> QED BY <1>0, <1>1, <2>1
<1>3. ASSUME NEW in, op["R"] \in Exchanges, AckStep("R", in)
      PROVE  Calls /\ UNCHANGED <<frame_number, packet>>
  <2>1. op["R"] # "transmitter_write"
    BY DEF CallInv
  <2>2. UNCHANGED <<frame_number, packet>>
    BY <1>3, <2>1 DEF AckStep, Complete, GiveUp, Resend
  <2>3. \/ \E r, ln, kinds : Return("R", op["R"], r, ln, kinds)
        \/ /\ ntries' = [ntries EXCEPT !["R"] = Left("R", in)]
           /\ UNCHANGED <<op, is_active, retval>>
    BY <1>3 DEF AckStep, Complete, GiveUp, Resend
  <2> QED BY <1>0, <1>1, <1>3, <2>2, <2>3
<1>4. CASE receiver_listen \/ receiver_read \/ wait_for_disconnect
  BY <1>0, <1>4 DEF receiver_listen, receiver_read, wait_for_disconnect, LeavesTransmitter
<1>5. CASE listen_receive
  <2>1. /\ UNCHANGED <<ntries, frame_number, packet>>
        /\ \/ UNCHANGED <<op, is_active, retval>>
           \/ /\ op' = [op EXCEPT !["R"] = "none"]
              /\ is_active' = [is_active EXCEPT !["R"] = TRUE]
              /\ retval' = [retval EXCEPT !["R"] = 0]
    BY <1>5 DEF listen_receive
  <2> QED BY <1>0, <2>1 DEF LeavesTransmitter
<1>6. CASE read_receive
  <2>1. PICK in : Reject(in) \/ Accept(in) \/ Disconnected(in)
    BY <1>6 DEF read_receive
  <2>2. UNCHANGED packet
    BY <1>6 DEF read_receive
  <2>3. CASE Reject(in) \/ Accept(in)
    <3>1. /\ UNCHANGED <<ntries, is_active>>
          /\ UNCHANGED <<op, retval>> \/ ReadReturns
          /\ UNCHANGED frame_number \/ frame_number' = [frame_number EXCEPT !["R"] = @ + 1]
      BY <2>3 DEF Reject, Accept
    <3> QED BY <1>0, <2>2, <3>1 DEF ReadReturns, LeavesTransmitter
  <2>4. CASE Disconnected(in)
    <3>1. /\ Begin("R", "handle_disconnect", frame_number["R"], NoPacket, in.line)
          /\ UNCHANGED frame_number
      BY <2>4 DEF Disconnected
    <3> QED BY <1>2, <2>2, <3>1 DEF LeavesTransmitter, Exchanges
  <2> QED BY <2>1, <2>3, <2>4
<1>7. CASE wait_receive
  <2>1. PICK in :
          \/ Begin("R", "handle_disconnect", frame_number["R"], NoPacket, in.line)
          \/ UNCHANGED <<op, ntries, is_active, retval>>
    BY <1>7 DEF wait_receive
  <2>2. UNCHANGED <<frame_number, packet>>
    BY <1>7 DEF wait_receive
  <2> QED BY <1>2, <2>1, <2>2 DEF LeavesTransmitter, Exchanges
<1>8. CASE disconnect("R")
  BY <1>2, <1>8 DEF disconnect, LeavesTransmitter, Exchanges
<1>9. CASE receive_reply("R") \/ timeout("R")
  BY <1>3, <1>9 DEF receive_reply, timeout, LeavesTransmitter
<1>10. CASE crash("R") \/ lose("R")
  BY <1>0, <1>10 DEF crash, lose, LeavesTransmitter
<1> QED BY <1>4, <1>5, <1>6, <1>7, <1>8, <1>9, <1>10 DEF ReceiverStep

\* The receiver answers what it has taken off its line to an open port.
LEMMA ForwardAnswer ==
  ASSUME OnlyForwardFaults, TypeOK, is_open("T"), NEW f, NEW ln \in [Side -> Seq(Frame)],
         NEW out \in f_send_frame("R", f, ln), NEW kinds, Suffer(kinds \cup out.kinds)
  PROVE  /\ out.ret # ERROR_CODE /\ out.line["R"] = ln["R"]
         /\ out.line["T"] = Append(ln["T"], f) /\ Suffer(kinds)
<1>1. "R" \in Side /\ Peer("R") = "T"
  BY DEF Side, Peer
<1>2. "unwritten" \notin out.kinds
  BY ForwardFaults
<1>3. /\ out.ret # ERROR_CODE /\ out.kinds = {} /\ out.line["R"] = ln["R"]
      /\ out.line["T"] = Append(ln["T"], f)
  <2>1. /\ out.ret # ERROR_CODE /\ out.kinds = {} /\ out.line["R"] = ln["R"]
        /\ is_open(Peer("R")) => out.line[Peer("R")] = Append(ln[Peer("R")], f)
    BY <1>1, <1>2, Written
  <2> QED BY <1>1, <2>1
<1>4. kinds \cup out.kinds = kinds
  BY <1>3
<1> QED BY <1>3, <1>4

\* A step of a receiver that reads: a frame is lost or rejected, if anything happens
\* to the lines, or the frame it wants is taken, or a DISC.
LEMMA ReadingStep ==
  ASSUME OnlyForwardFaults, TypeOK, Reading, is_open("T"), ReceiverStep
  PROVE  \/ /\ Reading' /\ UNCHANGED frame_number
            /\ Worn(line["T"], line["R"], line'["T"], line'["R"], m, Harmed, Harmed')
         \/ /\ Reading' /\ Harmed' = Harmed /\ frame_number'["R"] = m + 1
            /\ line["R"] # <<>> /\ Head(line["R"]).control = data_control_byte(m)
            /\ line'["R"] = Tail(line["R"])
            /\ line'["T"] = Append(line["T"], FRAME(data_reply_byte(m, TRUE)))
         \/ /\ op'["R"] = "handle_disconnect" /\ Harmed' = Harmed
            /\ line["R"] # <<>> /\ Head(line["R"]).control = C_DISC
            /\ line'["T"] = Append(line["T"], FRAME(C_DISC))
<1>0. /\ "T" \in Side /\ "R" \in Side /\ "T" # "R" /\ Peer("R") = "T"
      /\ op \in [Side -> Ops] /\ frame_number \in [Side -> Nat]
      /\ line \in [Side -> Seq(Frame)] /\ m = frame_number["R"] /\ m \in Nat
      /\ op["R"] \in {"none", "receiver_read"}
  BY DEF Side, TypeOK, Peer, m, Reading
<1>1. CASE receiver_read
  <2>1. Reading' /\ UNCHANGED <<line, frame_number, faults>>
    BY <1>0, <1>1 DEF receiver_read, Reading
  <2> QED BY <2>1 DEF Harmed, Worn
<1>2. CASE lose("R")
  <2>1. /\ line["R"] # <<>> /\ line' = [line EXCEPT !["R"] = Tail(@)]
        /\ Suffer({"lost"}) /\ UNCHANGED <<op, frame_number>>
    BY <1>2 DEF lose, Taken
  <2>2. Harmed' = Harmed + 1
    BY <2>1, ForwardFaults
  <2>3. line'["R"] = Tail(line["R"]) /\ line'["T"] = line["T"]
    BY <1>0, <2>1
  <2>4. Worn(line["T"], line["R"], line'["T"], line'["R"], m, Harmed, Harmed')
    BY <2>1, <2>2, <2>3 DEF Worn
  <2> QED BY <2>1, <2>4 DEF Reading
<1>3. CASE read_receive
  <2>1. PICK in \in f_receive_frame("R") : Reject(in) \/ Accept(in) \/ Disconnected(in)
    BY <1>3 DEF read_receive
  <2>2. op["R"] = "receiver_read"
    BY <1>3 DEF read_receive
  <2>3. /\ in.line \in [Side -> Seq(Frame)] /\ in.line["T"] = line["T"]
        /\ in.line["R"] = line["R"] \/ (line["R"] # <<>> /\ in.line["R"] = Tail(line["R"]))
        /\ \/ /\ in.ret = SUCCESS_CODE /\ in.kinds = {} /\ line["R"] # <<>>
              /\ in.line["R"] = Tail(line["R"]) /\ in.control = Head(line["R"]).control
           \/ in.ret = BADFRAME_CODE /\ in.kinds = {"damaged"}
        /\ SUCCESS_CODE # BADFRAME_CODE
    BY <2>2, ForwardFrame DEF SUCCESS_CODE, BADFRAME_CODE
  <2>4. CASE Reject(in)
    <3> DEFINE f == FRAME(data_reply_byte(frame_number["R"], FALSE))
    <3>1. PICK out \in f_send_frame("R", f, in.line) :
             /\ line' = out.line
             /\ Suffer(in.kinds \cup out.kinds)
             /\ \/ UNCHANGED op
                \/ out.ret = ERROR_CODE
      BY <2>4 DEF Reject
    <3>2. f \in Frame /\ IsReject(f.control)
      <4>1. f \in Frame
        BY <1>0, SupervisionFrames
      <4>2. f.control = 7 \/ f.control = 135
        <5>1. data_reply_byte(frame_number["R"], FALSE) \in {7, 135}
          BY <1>0, ControlBytes
        <5> QED BY <5>1 DEF FRAME
      <4>3. 7 % 8 = 7 /\ 135 % 8 = 7
        OBVIOUS
      <4> QED BY <4>1, <4>2, <4>3 DEF IsReject, C_REJ
    <3> HIDE DEF f
    <3>3. /\ out.ret # ERROR_CODE /\ out.line["R"] = in.line["R"]
          /\ out.line["T"] = Append(line["T"], f) /\ Suffer(in.kinds)
      BY <2>3, <3>1, ForwardAnswer
    <3>4. Harmed' \in {Harmed, Harmed + 1} /\ (in.kinds = {"damaged"} => Harmed' = Harmed + 1)
          /\ (in.kinds = {} => Harmed' = Harmed)
      BY <2>3, <3>3, ForwardFaults
    <3>5. in.ret = SUCCESS_CODE => Stale(Head(line["R"]), m)
      BY <1>0, <2>3, <2>4 DEF Reject, Expected, Stale
    <3>6. Worn(line["T"], line["R"], line'["T"], line'["R"], m, Harmed, Harmed')
      BY <2>3, <3>1, <3>2, <3>3, <3>4, <3>5 DEF Worn
    <3>7. Reading' /\ UNCHANGED frame_number
      BY <2>4, <3>1, <3>3 DEF Reject, Reading
    <3> QED BY <3>6, <3>7
  <2>5. CASE Accept(in)
    <3> DEFINE f == FRAME(data_reply_byte(frame_number["R"], TRUE))
    <3>1. PICK out \in f_send_frame("R", f, in.line) :
             /\ line' = out.line
             /\ Suffer(in.kinds \cup out.kinds)
             /\ \/ /\ frame_number' = [frame_number EXCEPT !["R"] = @ + 1]
                   /\ UNCHANGED op \/ op' = [op EXCEPT !["R"] = "none"]
                \/ out.ret = ERROR_CODE
      BY <2>5 DEF Accept, ReadReturns
    <3>2. f = FRAME(data_reply_byte(m, TRUE))
      BY <1>0
    <3> HIDE DEF f
    <3>3. /\ out.ret # ERROR_CODE /\ out.line["R"] = in.line["R"]
          /\ out.line["T"] = Append(line["T"], f) /\ Suffer(in.kinds)
      BY <2>3, <3>1, ForwardAnswer
    <3>4. in.ret = SUCCESS_CODE /\ in.control = data_control_byte(m)
      BY <1>0, <2>5 DEF Accept, Expected
    <3>5. /\ in.kinds = {} /\ line["R"] # <<>>
          /\ in.line["R"] = Tail(line["R"]) /\ in.control = Head(line["R"]).control
      BY <2>3, <3>4
    <3>6. Harmed' = Harmed
      BY <3>3, <3>5, ForwardFaults
    <3>7. Reading' /\ frame_number'["R"] = m + 1
      BY <1>0, <2>2, <3>1, <3>3 DEF Reading
    <3> QED BY <3>1, <3>2, <3>3, <3>4, <3>5, <3>6, <3>7
  <2>6. CASE Disconnected(in)
    <3>1. /\ in.ret = SUCCESS_CODE /\ in.control = C_DISC
          /\ Begin("R", "handle_disconnect", frame_number["R"], NoPacket, in.line)
      BY <2>6 DEF Disconnected
    <3>2. line["R"] # <<>> /\ Head(line["R"]).control = C_DISC
      BY <2>3, <3>1
    <3>3. OutFrame("handle_disconnect", frame_number["R"], NoPacket) = FRAME(C_DISC)
      BY DEF OutFrame
    <3>4. "handle_disconnect" \in Exchanges
      BY DEF Exchanges
    <3>5. /\ op' = [op EXCEPT !["R"] = "handle_disconnect"] /\ Harmed' = Harmed
          /\ line'["T"] = Append(line["T"],
                                 OutFrame("handle_disconnect", frame_number["R"], NoPacket))
      <4> DEFINE f == OutFrame("handle_disconnect", frame_number["R"], NoPacket)
      <4>1. /\ op' = [op EXCEPT !["R"] = "handle_disconnect"] /\ Harmed' = Harmed
            /\ is_open(Peer("R")) => line'[Peer("R")] = Append(in.line[Peer("R")], f)
        BY <1>0, <2>3, <3>1, <3>4, ForwardBegin
      <4> QED BY <1>0, <2>3, <4>1
    <3> QED BY <1>0, <3>2, <3>3, <3>5
  <2> QED BY <2>1, <2>4, <2>5, <2>6
<1>4. ~(receiver_listen \/ listen_receive \/ wait_for_disconnect \/ wait_receive
        \/ disconnect("R") \/ receive_reply("R") \/ timeout("R") \/ crash("R"))
  BY <1>0 DEF OnlyForwardFaults, receiver_listen, listen_receive, wait_for_disconnect,
     wait_receive, disconnect, receive_reply, timeout, crash, Exchanges
<1> QED BY <1>1, <1>2, <1>3, <1>4 DEF ReceiverStep

\* A step of a receiver that listens for a SET.
LEMMA ListeningStep ==
  ASSUME OnlyForwardFaults, TypeOK, op["R"] = "receiver_listen", ReceiverStep,
         \A j \in DOMAIN line["R"] : line["R"][j] = FRAME(C_SET),
         is_open("T") \/ line["R"] = <<>>
  PROVE  /\ UNCHANGED frame_number
         /\ \/ /\ op'["R"] = "receiver_listen" /\ Harmed' = Harmed + 1
               /\ line'["T"] = line["T"]
               /\ \/ line'["R"] = line["R"]
                  \/ line["R"] # <<>> /\ line'["R"] = Tail(line["R"])
            \/ /\ op'["R"] = "none" /\ is_open("T") /\ line["R"] # <<>>
               /\ line'["R"] = Tail(line["R"])
               /\ line'["T"] = Append(line["T"], FRAME(C_UA))
<1>0. /\ "T" \in Side /\ "R" \in Side /\ "T" # "R" /\ Peer("R") = "T"
      /\ op \in [Side -> Ops] /\ line \in [Side -> Seq(Frame)]
  BY DEF Side, TypeOK, Peer
<1>1. line["R"] # <<>> => Head(line["R"]).control = C_SET /\ ~IsData(Head(line["R"]))
  <2>1. line["R"] # <<>> => Head(line["R"]) = FRAME(C_SET)
    BY <1>0, LineEnds
  <2> QED BY <2>1 DEF FRAME, IsData
<1>2. CASE lose("R")
  <2>1. /\ line["R"] # <<>> /\ line' = [line EXCEPT !["R"] = Tail(@)]
        /\ Suffer({"lost"}) /\ UNCHANGED <<op, frame_number>>
    BY <1>2 DEF lose, Taken
  <2>2. Harmed' = Harmed + 1
    BY <2>1, ForwardFaults
  <2> QED BY <1>0, <2>1, <2>2
<1>3. CASE listen_receive
  <2>1. PICK in \in f_receive_frame("R") :
          \/ /\ IsSet(in)
             /\ \E out \in f_send_frame("R", FRAME(C_UA), in.line) :
                  /\ line' = out.line
                  /\ Suffer(in.kinds \cup out.kinds)
             /\ op' = [op EXCEPT !["R"] = "none"]
          \/ /\ ~IsSet(in)
             /\ line' = in.line
             /\ Suffer(in.kinds)
             /\ UNCHANGED op
    BY <1>3 DEF listen_receive
  <2>2. UNCHANGED frame_number
    BY <1>3 DEF listen_receive
  <2>3. /\ in.line \in [Side -> Seq(Frame)] /\ in.line["T"] = line["T"]
        /\ in.line["R"] = line["R"] \/ (line["R"] # <<>> /\ in.line["R"] = Tail(line["R"]))
        /\ \/ /\ in.ret = SUCCESS_CODE /\ in.kinds = {} /\ line["R"] # <<>>
              /\ in.line["R"] = Tail(line["R"]) /\ in.control = Head(line["R"]).control
           \/ /\ in.ret = BADFRAME_CODE /\ in.kinds = {"damaged"}
              /\ \/ in.control \in Misread \cup {0}
                 \/ /\ line["R"] # <<>> /\ in.line["R"] = Tail(line["R"])
                    /\ in.control = Head(line["R"]).control
    BY <1>1, ForwardFrame
  <2>4. CASE ~IsSet(in) /\ line' = in.line /\ Suffer(in.kinds) /\ UNCHANGED op
    <3>1. in.kinds = {"damaged"}
      BY <1>1, <2>3, <2>4 DEF IsSet
    <3>2. Harmed' = Harmed + 1
      BY <2>4, <3>1, ForwardFaults
    <3> QED BY <2>2, <2>3, <2>4, <3>2
  <2>5. CASE IsSet(in)
    <3>1. C_SET \notin Misread \cup {0}
      BY DEF OnlyForwardFaults, C_SET
    <3>2. line["R"] # <<>> /\ in.line["R"] = Tail(line["R"])
      BY <2>3, <2>5, <3>1 DEF IsSet
    <3> DEFINE f == FRAME(C_UA)
    <3>3. PICK out \in f_send_frame("R", f, in.line) :
            line' = out.line /\ Suffer(in.kinds \cup out.kinds)
      BY <2>1, <2>5
    <3> HIDE DEF f
    <3>4. out.line["R"] = in.line["R"] /\ out.line["T"] = Append(in.line["T"], f)
      BY <2>3, <3>2, <3>3, ForwardAnswer
    <3>5. op'["R"] = "none"
      BY <1>0, <2>1, <2>5
    <3> QED BY <2>2, <2>3, <3>2, <3>3, <3>4, <3>5 DEF f
  <2> QED BY <2>1, <2>4, <2>5
<1>4. ~(receiver_listen \/ receiver_read \/ read_receive \/ wait_for_disconnect
        \/ wait_receive \/ disconnect("R") \/ receive_reply("R") \/ timeout("R"))
  BY DEF receiver_listen, receiver_read, read_receive, wait_for_disconnect,
     wait_receive, disconnect, HasPort, receive_reply, timeout, Exchanges
<1>5. ~crash("R")
  BY <1>1 DEF crash
<1> QED BY <1>2, <1>3, <1>4, <1>5 DEF ReceiverStep

\* A step of a receiver that has answered a DISC.
LEMMA LeavingStep ==
  ASSUME OnlyForwardFaults, TypeOK, op["R"] \in {"handle_disconnect", "closed", "crashed"},
         ReceiverStep
  PROVE  /\ op'["R"] \in {"handle_disconnect", "closed", "crashed"}
         /\ line'["T"] = line["T"] \/ \E g \in Frame : line'["T"] = Append(line["T"], g)
<1>0. /\ "T" \in Side /\ "R" \in Side /\ "T" # "R" /\ Peer("R") = "T"
      /\ op \in [Side -> Ops] /\ line \in [Side -> Seq(Frame)]
  BY DEF Side, TypeOK, Peer
<1> DEFINE More(ln) == ln["T"] = line["T"] \/ \E g \in Frame : ln["T"] = Append(line["T"], g)
<1>1. CASE lose("R") \/ crash("R")
  <2>1. /\ line'["T"] = line["T"]
        /\ op' = op \/ op' = [op EXCEPT !["R"] = "crashed"]
    BY <1>0, <1>1 DEF lose, crash, Taken
  <2> QED BY <1>0, <2>1
<1>2. CASE receive_reply("R") \/ timeout("R")
  <2>1. PICK in : in \in f_receive_frame("R") \cup {TimedOut} /\ AckStep("R", in)
    BY <1>2 DEF receive_reply, timeout
  <2>2. in.line \in [Side -> Seq(Frame)] /\ in.line["T"] = line["T"]
    <3>1. CASE in = TimedOut
      BY <1>0, <3>1 DEF TimedOut
    <3>2. CASE in \in f_receive_frame("R")
      BY <1>0, <3>2, Receiving
    <3> QED BY <2>1, <3>1, <3>2
  <2>3. op["R"] = "handle_disconnect"
    BY <1>2 DEF receive_reply, timeout, Exchanges
  <2> DEFINE f == OutFrame(op["R"], frame_number["R"], packet)
  <2>4. f \in Frame
    <3>1. f = FRAME(C_DISC)
      BY <2>3 DEF OutFrame
    <3> HIDE DEF f
    <3> QED BY <3>1, SupervisionFrames
  <2>5. \/ Return("R", op["R"], 0, in.line, in.kinds)
        \/ Return("R", op["R"], -1, in.line, in.kinds)
        \/ \E out \in f_send_frame("R", f, in.line) :
             \/ line' = out.line /\ UNCHANGED op
             \/ Return("R", op["R"], -1, out.line, in.kinds \cup out.kinds)
    BY <2>1, <2>3 DEF AckStep, Complete, GiveUp, Resend
  <2> HIDE DEF f
  <2>6. ASSUME NEW ln \in [Side -> Seq(Frame)], More(ln), NEW r, NEW kinds,
               Return("R", op["R"], r, ln, kinds)
        PROVE  op'["R"] = "closed" /\ More(line')
    <3>1. PICK unclosed \in SUBSET {"port"} :
            /\ Suffer(kinds \cup unclosed)
            /\ \/ op' = [op EXCEPT !["R"] = "closed"] /\ line' = [ln EXCEPT !["R"] = <<>>]
               \/ unclosed # {}
      BY <2>3, <2>6 DEF Return
    <3>2. unclosed = {}
      BY <3>1, ForwardFaults
    <3> QED BY <1>0, <2>6, <3>1, <3>2
  <2>7. ASSUME NEW out \in f_send_frame("R", f, in.line)
        PROVE  out.line \in [Side -> Seq(Frame)] /\ More(out.line)
    <3>1. /\ out.line \in [Side -> Seq(Frame)]
          /\ out.line[Peer("R")] \in {in.line[Peer("R")], Append(in.line[Peer("R")], f)}
      BY <1>0, <2>2, <2>4, <2>7, Sending, Zenon
    <3> QED BY <1>0, <2>2, <2>4, <3>1
  <2>8. More(in.line)
    BY <2>2
  <2> HIDE DEF More
  <2>9. More(line') /\ op'["R"] \in {"handle_disconnect", "closed"}
    BY <2>2, <2>3, <2>5, <2>6, <2>7, <2>8
  <2> QED BY <2>9 DEF More
<1>3. ~(receiver_listen \/ listen_receive \/ receiver_read \/ read_receive
        \/ wait_for_disconnect \/ wait_receive \/ disconnect("R"))
  BY DEF receiver_listen, listen_receive, receiver_read, read_receive,
     wait_for_disconnect, wait_receive, disconnect, HasPort
<1> QED BY <1>1, <1>2, <1>3 DEF ReceiverStep

-----------------------------------------------------------------------------
(* The transmitter's exchanges.                                            *)

\* The control bytes that tell an answer from a REJ and a stale frame from the one
\* the receiver is waiting for.
LEMMA Answers ==
  /\ ~IsReject(C_UA) /\ ~IsReject(C_DISC) /\ C_UA \notin {0, 64} /\ C_DISC \notin {0, 64}
  /\ \A c : IsReject(c) => c \notin {0, 64}
  /\ \A k \in Nat : /\ ~IsReject(data_reply_byte(k, TRUE))
                    /\ data_reply_byte(k, TRUE) \notin {0, 64}
                    /\ data_control_byte(k) \in {0, 64}
                    /\ data_control_byte(k + 1) # data_control_byte(k)
<1>1. ~IsReject(C_UA) /\ ~IsReject(C_DISC) /\ C_UA \notin {0, 64} /\ C_DISC \notin {0, 64}
  BY DEF IsReject, C_REJ, C_UA, C_DISC
<1>2. \A c : IsReject(c) => c \notin {0, 64}
  <2>1. 0 % 8 = 0 /\ 64 % 8 = 0
    OBVIOUS
  <2> QED BY <2>1 DEF IsReject, C_REJ
<1>3. ~IsReject(1) /\ ~IsReject(129)
  BY DEF IsReject, C_REJ
<1>4. ASSUME NEW k \in Nat
      PROVE  /\ ~IsReject(data_reply_byte(k, TRUE))
             /\ data_reply_byte(k, TRUE) \notin {0, 64}
             /\ data_control_byte(k) \in {0, 64}
             /\ data_control_byte(k + 1) # data_control_byte(k)
  <2>1. /\ data_reply_byte(k, TRUE) \in {1, 129}
        /\ data_control_byte(k) \in {0, 64}
        /\ data_control_byte(k + 1) # data_control_byte(k)
    BY ControlBytes, ZenonT(60)
  <2>2. 1 \notin {0, 64} /\ 129 \notin {0, 64}
    OBVIOUS
  <2>3. ~IsReject(data_reply_byte(k, TRUE)) /\ data_reply_byte(k, TRUE) \notin {0, 64}
    <3>1. PICK b \in {1, 129} : data_reply_byte(k, TRUE) = b
      BY <2>1, Zenon
    <3>2. ~IsReject(b) /\ b \notin {0, 64}
      BY <1>3, <2>2
    <3> QED BY <3>1, <3>2, Zenon
  <2> QED BY <2>1, <2>3, Zenon
<1> QED BY <1>1, <1>2, <1>4

\* The numbers and the lines.
LEMMA AttemptTypes ==
  ASSUME TypeOK
  PROVE  /\ "T" \in Side /\ "R" \in Side /\ "T" # "R"
         /\ line["T"] \in Seq(Frame) /\ line["R"] \in Seq(Frame)
         /\ line \in [Side -> Seq(Frame)] /\ op \in [Side -> Ops]
         /\ n \in Nat /\ m \in Nat /\ n = frame_number["T"] /\ m = frame_number["R"]
         /\ Len(line["T"]) \in Nat /\ Len(line["R"]) \in Nat
         /\ NumRetransmissions \in Nat /\ ntries["T"] \in Nat
         /\ Used \in Nat /\ Used = NumRetransmissions - ntries["T"]
         /\ Harmed \in Nat
<1>1. /\ "T" \in Side /\ "R" \in Side /\ "T" # "R"
      /\ line \in [Side -> Seq(Frame)] /\ op \in [Side -> Ops]
      /\ n \in Nat /\ m \in Nat /\ n = frame_number["T"] /\ m = frame_number["R"]
  BY DEF TypeOK, Side, n, m
<1>2. Len(line["T"]) \in Nat /\ Len(line["R"]) \in Nat
  BY <1>1, LineEnds
<1>3. NumRetransmissions \in Nat /\ ntries["T"] \in 0..NumRetransmissions
  BY <1>1, RetransmissionsAssumption DEF TypeOK
<1>4. Used \in Nat /\ Used = NumRetransmissions - ntries["T"]
  BY <1>3 DEF Used
<1>5. Harmed \in Nat
  BY DEF Harmed, TypeOK, Faults
<1> QED BY <1>1, <1>2, <1>3, <1>4, <1>5

Calling == op["T"] \in {"transmitter_connect", "transmitter_write", "disconnect"}

\* What the transmitter gets: the first frame of its line, or no answer at all.
LEMMA ReplyOrNone ==
  ASSUME OnlyForwardFaults, TypeOK, receive_reply("T") \/ timeout("T")
  PROVE  \E in :
           /\ in.line \in [Side -> Seq(Frame)] /\ in.kinds = {} /\ AckStep("T", in)
           /\ \/ /\ in.ret = TIMEOUT_CODE /\ in.control = 0 /\ in.line = line
                 /\ line["T"] = <<>> /\ (line["R"] = <<>> \/ op["R"] = "left_open")
              \/ /\ line["T"] # <<>> /\ in.line = Taken("T")
                 /\ in.control = Head(line["T"]).control
                 /\ in.ret = SUCCESS_CODE \/ IsData(Head(line["T"]))
<1>1. CASE receive_reply("T")
  <2>1. PICK in \in f_receive_frame("T") : AckStep("T", in)
    BY <1>1 DEF receive_reply
  <2>2. in.line \in [Side -> Seq(Frame)]
    BY AttemptTypes, Receiving
  <2>3. /\ line["T"] # <<>> /\ in.kinds = {} /\ in.line = Taken("T")
        /\ in.control = Head(line["T"]).control
        /\ in.ret = SUCCESS_CODE \/ IsData(Head(line["T"]))
    BY ForwardReply
  <2> QED BY <2>1, <2>2, <2>3
<1>2. CASE timeout("T")
  <2> DEFINE in == TimedOut
  <2>1. /\ in.ret = TIMEOUT_CODE /\ in.control = 0 /\ in.line = line /\ in.kinds = {}
    BY DEF TimedOut
  <2>2. /\ AckStep("T", in) /\ line["T"] = <<>>
        /\ line["R"] = <<>> \/ op["R"] = "left_open"
    BY <1>2 DEF timeout, OnlyForwardFaults, Quiet, Idle, Side, Exchanges
  <2>3. in.line \in [Side -> Seq(Frame)]
    BY <2>1 DEF TypeOK
  <2> HIDE DEF in
  <2> QED BY <2>1, <2>2, <2>3
<1> QED BY <1>1, <1>2

\* An exchange whose frame the receiver has not taken goes on: an attempt is left.
LEMMA UnansweredStep ==
  ASSUME OnlyForwardFaults, TypeOK, Calling, receive_reply("T") \/ timeout("T"),
         Harmed < NumRetransmissions, is_open("R"), op["R"] # "left_open",
         ~IsReject(Wanted(op["T"], n)), Wanted(op["T"], n) # 0,
         NEW f \in Frame, f = OutFrame(op["T"], n, packet), NEW k,
         Unanswered(line["T"], line["R"], f, k, Used, Harmed)
  PROVE  /\ UNCHANGED <<op, is_active, retval, frame_number, packet>> /\ Harmed' = Harmed
         /\ line'["R"] = Append(line["R"], f)
         /\ Unanswered(line'["T"], line'["R"], f, k, Used', Harmed')
         /\ OnTheWay <= Harmed + 1 => OnTheWay' <= Harmed + 1
<1>0. /\ "T" \in Side /\ "R" \in Side /\ "T" # "R"
      /\ line["T"] \in Seq(Frame) /\ line["R"] \in Seq(Frame)
      /\ line \in [Side -> Seq(Frame)] /\ n = frame_number["T"]
      /\ Len(line["T"]) \in Nat /\ Len(line["R"]) \in Nat
      /\ NumRetransmissions \in Nat /\ ntries["T"] \in Nat
      /\ Used \in Nat /\ Used = NumRetransmissions - ntries["T"] /\ Harmed \in Nat
  BY AttemptTypes
<1>1. PICK in :
        /\ in.line \in [Side -> Seq(Frame)] /\ in.kinds = {} /\ AckStep("T", in)
        /\ \/ /\ in.ret = TIMEOUT_CODE /\ in.control = 0 /\ in.line = line
              /\ line["T"] = <<>> /\ line["R"] = <<>>
           \/ /\ line["T"] # <<>> /\ in.line = Taken("T")
              /\ in.control = Head(line["T"]).control
  BY ReplyOrNone
<1>2. /\ in.line["R"] = line["R"]
      /\ \/ line["T"] # <<>> /\ in.line["T"] = Tail(line["T"])
         \/ line["T"] = <<>> /\ line["R"] = <<>> /\ in.line["T"] = line["T"]
  BY <1>0, <1>1 DEF Taken
<1>3. in.control # Wanted(op["T"], n)
  <2>1. line["T"] # <<>> => IsReject(Head(line["T"]).control)
    <3>1. line["T"] # <<>> => 1 \in DOMAIN line["T"] /\ Head(line["T"]) = line["T"][1]
      BY <1>0, LineEnds
    <3> QED BY <3>1 DEF Unanswered, Rejects
  <2> QED BY <1>1, <2>1
<1>4. ~Accepted("T", in)
  BY <1>0, <1>3 DEF Accepted
<1>5. Left("T", in) \in {ntries["T"] - 1, ntries["T"]}
  BY DEF Left
<1> DEFINE u2 == NumRetransmissions - Left("T", in)
<1>6. u2 \in {Used, Used + 1}
  BY <1>0, <1>5
<1>7. /\ Used + 1 <= Harmed
      /\ Unanswered(in.line["T"], Append(line["R"], f), f, k, u2, Harmed)
  BY <1>0, <1>2, <1>6, NextAttempt
<1>8. Left("T", in) > 0
  BY <1>0, <1>5, <1>7
<1>9. /\ UNCHANGED <<op, is_active, retval, frame_number, packet>> /\ Harmed' = Harmed
      /\ ntries'["T"] = Left("T", in) /\ line'["T"] = in.line["T"]
      /\ line'["R"] = Append(in.line["R"], f)
  BY <1>0, <1>1, <1>4, <1>8, ForwardResent DEF Calling
<1>10. Used' = u2
  BY <1>9 DEF Used
<1>11. OnTheWay <= Harmed + 1 => OnTheWay' <= Harmed + 1
  <2>1. Len(line'["R"]) = Len(line["R"]) + 1
    BY <1>0, <1>2, <1>9, LineAppend
  <2>2. \/ Len(line'["T"]) = Len(line["T"]) - 1
        \/ Len(line'["T"]) = 0 /\ Len(line["R"]) = 0
    BY <1>0, <1>2, <1>9, LineEnds
  <2>3. CASE Len(line'["T"]) = Len(line["T"]) - 1
    <3>1. Len(line'["T"]) + Len(line'["R"]) = Len(line["T"]) + Len(line["R"])
      BY <1>0, <2>1, <2>3
    <3> QED BY <3>1, Zenon DEF OnTheWay
  <2>4. CASE Len(line'["T"]) = 0 /\ Len(line["R"]) = 0
    <3>1. OnTheWay' = 1
      BY <2>1, <2>4 DEF OnTheWay
    <3>2. 1 <= Harmed + 1
      BY <1>0
    <3> QED BY <3>1, <3>2, Zenon
  <2> QED BY <2>2, <2>3, <2>4
<1> QED BY <1>2, <1>7, <1>9, <1>10, <1>11

\* An exchange whose answer is on its way gets it, or a REJ before it.
LEMMA AnsweredStep ==
  ASSUME OnlyForwardFaults, TypeOK, Calling, receive_reply("T") \/ timeout("T"),
         op["T"] = "transmitter_write" => is_active["T"],
         Harmed < NumRetransmissions, NEW c, c = Wanted(op["T"], n), ~IsReject(c),
         c \notin {0, 64}, Answered(line["T"], c, Used, Harmed)
  PROVE  /\ Harmed' = Harmed /\ line["T"] # <<>>
         /\ \/ /\ UNCHANGED <<op, is_active, retval, frame_number, packet>>
               /\ line'["T"] = Tail(line["T"])
               /\ is_open("R") => line'["R"] = Append(line["R"], OutFrame(op["T"], n, packet))
               /\ Answered(line'["T"], c, Used', Harmed')
            \/ /\ retval'["T"] = 0 /\ op'["R"] = op["R"] /\ line["T"][1].control = c
               /\ frame_number'["R"] = frame_number["R"]
               /\ op["T"] = "disconnect" => op'["T"] = "closed"
               /\ op["T"] # "disconnect" =>
                    /\ op'["T"] = "none" /\ is_active'["T"]
                    /\ line'["T"] = Tail(line["T"]) /\ line'["R"] = line["R"]
                    /\ frame_number'["T"] = IF op["T"] = "transmitter_write" THEN n + 1 ELSE n
<1>0. /\ "T" \in Side /\ "R" \in Side /\ "T" # "R"
      /\ line["T"] \in Seq(Frame) /\ line["R"] \in Seq(Frame)
      /\ line \in [Side -> Seq(Frame)] /\ n = frame_number["T"]
      /\ NumRetransmissions \in Nat /\ ntries["T"] \in Nat
      /\ Used \in Nat /\ Used = NumRetransmissions - ntries["T"] /\ Harmed \in Nat
  BY AttemptTypes
<1>1. /\ line["T"] # <<>> /\ Head(line["T"]).control = line["T"][1].control
      /\ \/ line["T"][1].control = c
         \/ /\ IsReject(line["T"][1].control) /\ Used + 1 <= Harmed
            /\ \A u2 \in {Used, Used + 1} : Answered(Tail(line["T"]), c, u2, Harmed)
  <2>1. Coming(line["T"], c, Used, Harmed)
    BY <1>0, AnsweredHead, Zenon
  <2> QED BY <2>1 DEF Coming
<1>2. PICK in :
        /\ in.line \in [Side -> Seq(Frame)] /\ in.kinds = {} /\ AckStep("T", in)
        /\ in.line = Taken("T") /\ in.control = Head(line["T"]).control
        /\ in.ret = SUCCESS_CODE \/ IsData(Head(line["T"]))
  BY <1>1, ReplyOrNone
<1>3. in.line["T"] = Tail(line["T"]) /\ in.line["R"] = line["R"]
  BY <1>0, <1>2 DEF Taken
<1>4. CASE line["T"][1].control = c
  <2>1. ~IsData(Head(line["T"]))
    <3>1. Head(line["T"]) \in Frame
      BY <1>0, <1>1, LineEnds
    <3> QED BY <1>1, <1>4, <3>1, FrameFields
  <2>2. Accepted("T", in)
    BY <1>0, <1>1, <1>2, <1>4, <2>1 DEF Accepted, Charged
  <2>3. /\ retval'["T"] = 0 /\ Harmed' = Harmed
        /\ op'["R"] = op["R"] /\ frame_number'["R"] = frame_number["R"]
        /\ op["T"] = "disconnect" => op'["T"] = "closed"
        /\ op["T"] # "disconnect" =>
             /\ op'["T"] = "none" /\ is_active'["T"] /\ line' = in.line
             /\ frame_number'["T"] = IF op["T"] = "transmitter_write"
                                       THEN frame_number["T"] + 1 ELSE frame_number["T"]
    BY <1>2, <2>2, ForwardAnswered DEF Calling
  <2> QED BY <1>0, <1>1, <1>3, <1>4, <2>3
<1>5. CASE /\ IsReject(line["T"][1].control) /\ Used + 1 <= Harmed
           /\ \A u2 \in {Used, Used + 1} : Answered(Tail(line["T"]), c, u2, Harmed)
  <2>1. ~Accepted("T", in)
    BY <1>0, <1>1, <1>2, <1>5 DEF Accepted
  <2>2. Left("T", in) \in {ntries["T"] - 1, ntries["T"]}
    BY DEF Left
  <2>3. Left("T", in) > 0
    BY <1>0, <1>5, <2>2
  <2>4. /\ UNCHANGED <<op, is_active, retval, frame_number, packet>> /\ Harmed' = Harmed
        /\ ntries'["T"] = Left("T", in) /\ line'["T"] = in.line["T"]
        /\ is_open("R") =>
             line'["R"] = Append(in.line["R"], OutFrame(op["T"], frame_number["T"], packet))
    BY <1>2, <2>1, <2>3, ForwardResent DEF Calling
  <2>5. Used' \in {Used, Used + 1}
    BY <1>0, <2>2, <2>4 DEF Used
  <2> QED BY <1>0, <1>1, <1>3, <1>5, <2>4, <2>5
<1> QED BY <1>1, <1>4, <1>5

-----------------------------------------------------------------------------
(* The steps of the receiver.                                              *)

\* Which of the frames sent the receiver at k rejects.
LEMMA AttemptFrames ==
  /\ \A k \in Nat : Stale(FRAME(C_SET), k) /\ ~Stale(FRAME(C_DISC), k)
  /\ \A k \in Nat : \A p :
       /\ ~Stale(OutFrame("transmitter_write", k, p), k)
       /\ Stale(OutFrame("transmitter_write", k, p), k + 1)
       /\ OutFrame("transmitter_write", k, p).control = data_control_byte(k)
<1>1. \A k \in Nat : C_SET \notin {C_DISC, data_control_byte(k)}
  BY DEF C_SET, C_DISC, data_control_byte
<1>2. \A k \in Nat : Stale(FRAME(C_SET), k) /\ ~Stale(FRAME(C_DISC), k)
  BY <1>1 DEF Stale, FRAME
<1>3. \A k \in Nat : \A p : OutFrame("transmitter_write", k, p).control = data_control_byte(k)
  BY DEF OutFrame
<1>4. \A k \in Nat : data_control_byte(k) \notin {C_DISC, data_control_byte(k + 1)}
  BY Answers
<1>5. \A k \in Nat : \A p :
        /\ ~Stale(OutFrame("transmitter_write", k, p), k)
        /\ Stale(OutFrame("transmitter_write", k, p), k + 1)
  BY <1>3, <1>4 DEF Stale
<1> QED BY <1>2, <1>3, <1>5

LEMMA ReceiverHolds ==
  ASSUME OnlyForwardFaults, TypeOK, CallInv, ReceiverStep
  PROVE  /\ LeavesTransmitter /\ n' = n /\ Used' = Used /\ m' = frame_number'["R"]
         /\ Harmed' \in Nat /\ Harmed' >= Harmed
<1>1. LeavesTransmitter
  BY ReceiverLeaves
<1>2. n' = n /\ Used' = Used /\ m' = frame_number'["R"]
  BY <1>1 DEF LeavesTransmitter, n, m, Used
<1>3. Next
  BY DEF ReceiverStep, Next, Side
<1>4. Harm
  BY <1>3, Harms
<1>5. Harmed' \in Nat /\ Harmed' >= Harmed
  BY <1>4, HarmedGrows
<1> QED BY <1>1, <1>2, <1>5

LEMMA ReceiverStarting ==
  ASSUME OnlyForwardFaults, TypeOK, CallInv, ReceiverStep, Starting
  PROVE  Starting'
<1>0. /\ "T" \in Side /\ "R" \in Side /\ "T" # "R"
      /\ line["T"] \in Seq(Frame) /\ line["R"] \in Seq(Frame) /\ op \in [Side -> Ops]
      /\ Len(line["T"]) \in Nat /\ Len(line["R"]) \in Nat
  BY AttemptTypes
<1>1. line["T"] = <<>> /\ line["R"] = <<>>
  <2>1. Len(line["T"]) + Len(line["R"]) = 0
    BY DEF Starting, OnTheWay
  <2>2. \A i, j \in Nat : i + j = 0 => i = 0 /\ j = 0
    OBVIOUS
  <2>3. Len(line["T"]) = 0 /\ Len(line["R"]) = 0
    BY <1>0, <2>1, <2>2, Zenon
  <2> QED BY <1>0, <2>3, LineEnds
<1>2. op'["T"] = "start" /\ n' = n
  BY ReceiverHolds DEF LeavesTransmitter, Starting
<1>3. /\ op'["R"] \in {"start", "receiver_listen"} /\ UNCHANGED frame_number
      /\ line'["T"] = line["T"] /\ line'["R"] = line["R"]
  <2>1. CASE receiver_listen
    BY <1>0, <2>1 DEF receiver_listen
  <2>2. CASE op["R"] = "receiver_listen"
    <3>1. \A j \in DOMAIN line["R"] : line["R"][j] = FRAME(C_SET)
      BY <1>0, <1>1, LineEnds
    <3> QED BY <1>1, <2>2, <3>1, ListeningStep
  <2>3. CASE op["R"] # "receiver_listen" /\ ~receiver_listen
    <3>1. op["R"] = "start"
      BY <2>3 DEF Starting
    <3> QED BY <1>1, <2>3, <3>1
         DEF ReceiverStep, listen_receive, receiver_read, read_receive, wait_for_disconnect,
             wait_receive, disconnect, HasPort, receive_reply, timeout, crash, lose, Exchanges
  <2> QED BY <2>1, <2>2, <2>3
<1>4. m' = 0 /\ n' = 0
  BY <1>2, <1>3 DEF Starting, m, n
<1>5. OnTheWay' = OnTheWay
  BY <1>3, Zenon DEF OnTheWay
<1> QED BY <1>2, <1>3, <1>4, <1>5 DEF Starting

LEMMA ReceiverConnecting ==
  ASSUME OnlyForwardFaults, TypeOK, CallInv, ReceiverStep, Connecting
  PROVE  Connecting'
<1>0. /\ "T" \in Side /\ "R" \in Side /\ "T" # "R"
      /\ line["T"] \in Seq(Frame) /\ line["R"] \in Seq(Frame)
      /\ Len(line["T"]) \in Nat /\ Len(line["R"]) \in Nat
      /\ n \in Nat /\ m \in Nat /\ m = frame_number["R"] /\ Used \in Nat /\ Harmed \in Nat
  BY AttemptTypes
<1>1. /\ op'["T"] = "transmitter_connect" /\ n' = n /\ Used' = Used
      /\ m' = frame_number'["R"] /\ Harmed' \in Nat /\ Harmed' >= Harmed
  BY ReceiverHolds DEF LeavesTransmitter, Connecting
<1>2. is_open("T") /\ m = n /\ \A j \in DOMAIN line["R"] : line["R"][j] = FRAME(C_SET)
  BY DEF Connecting, is_open
<1>3. Len(line["T"]) + Len(line["R"]) <= Harmed + 1
  BY DEF Connecting, OnTheWay
<1> DEFINE C == FRAME(C_SET)
           A == FRAME(C_UA)
<1>4. /\ A \in Frame /\ A.control = C_UA /\ ~IsReject(C_UA) /\ Stale(C, m)
  BY <1>0, SupervisionFrames, AttemptFrames, Answers DEF FRAME
<1> HIDE DEF C, A
<1>5. CASE op["R"] = "receiver_listen"
  <2>1. Unanswered(line["T"], line["R"], C, m, Used, Harmed)
    BY <1>5 DEF Connecting, C, Reading
  <2>2. /\ UNCHANGED frame_number
        /\ \/ /\ op'["R"] = "receiver_listen" /\ Harmed' = Harmed + 1
              /\ line'["T"] = line["T"]
              /\ \/ line'["R"] = line["R"]
                 \/ line["R"] # <<>> /\ line'["R"] = Tail(line["R"])
           \/ /\ op'["R"] = "none" /\ line["R"] # <<>>
              /\ line'["R"] = Tail(line["R"])
              /\ line'["T"] = Append(line["T"], A)
    BY <1>2, <1>5, ListeningStep DEF A
  <2>3. m' = m
    BY <1>0, <1>1, <2>2
  <2>4. CASE op'["R"] = "receiver_listen" /\ Harmed' = Harmed + 1
    <3>1. Worn(line["T"], line["R"], line'["T"], line'["R"], m, Harmed, Harmed')
      BY <2>2, <2>4 DEF Worn
    <3>2. Unanswered(line'["T"], line'["R"], C, m, Used, Harmed')
      <4>1. Harmed' # Harmed
        BY <1>0, <2>4
      <4> QED BY <1>0, <1>1, <2>1, <3>1, <4>1, UnansweredWorn
    <3>3. /\ \A j \in DOMAIN line'["R"] : \E i \in DOMAIN line["R"] : line'["R"][j] = line["R"][i]
          /\ line'["T"] \in Seq(Frame) /\ line'["R"] \in Seq(Frame)
          /\ Len(line["T"]) + Len(line["R"]) <= Harmed + 1 =>
               Len(line'["T"]) + Len(line'["R"]) <= Harmed' + 1
      <4>1. Paid(line["T"], line["R"], line'["T"], line'["R"], Harmed, Harmed')
        BY <1>0, <3>1, WornLength, Zenon
      <4> QED BY <4>1, Zenon DEF Paid
    <3>4. OnTheWay' <= Harmed' + 1
      BY <1>3, <3>3, Zenon DEF OnTheWay
    <3>5. \A j \in DOMAIN line'["R"] : line'["R"][j] = FRAME(C_SET)
      BY <1>2, <3>3
    <3> QED BY <1>1, <1>2, <2>3, <2>4, <3>2, <3>4, <3>5 DEF Connecting, C
  <2>5. CASE /\ op'["R"] = "none" /\ line["R"] # <<>>
             /\ line'["R"] = Tail(line["R"]) /\ line'["T"] = Append(line["T"], A)
    <3>1. /\ Answered(line'["T"], A.control, Used, Harmed)
          /\ Settled(line'["T"], line'["R"], A.control, m)
          /\ Len(line'["T"]) + Len(line'["R"]) = Len(line["T"]) + Len(line["R"])
      <4>1. \A j \in DOMAIN line["R"] : line["R"][j] = C
        BY <1>2 DEF C
      <4>2. ~IsReject(A.control)
        BY <1>4
      <4>3. /\ Answered(Append(line["T"], A), A.control, Used, Harmed)
            /\ Stale(C, m) => Settled(Append(line["T"], A), Tail(line["R"]), A.control, m)
        BY ONLY <1>0, <1>4, <2>1, <2>5, <4>1, <4>2, AnswerSent, Zenon
      <4>4. Len(Append(line["T"], A)) + Len(Tail(line["R"])) = Len(line["T"]) + Len(line["R"])
        BY <1>0, <1>4, <2>5, AnswerLength
      <4> QED BY <1>4, <2>5, <4>3, <4>4, Zenon
    <3>2. /\ line'["T"] \in Seq(Frame)
          /\ \A j \in DOMAIN line'["R"] :
               j + 1 \in DOMAIN line["R"] /\ line'["R"][j] = line["R"][j + 1]
      BY <1>0, <1>4, <2>5, LineEnds, LineAppend
    <3>3. Answered(line'["T"], C_UA, Used, Harmed')
      BY <1>0, <1>1, <1>4, <3>1, <3>2, AnsweredWorn
    <3>4. OnTheWay' <= Harmed' + 1
      <4>1. Len(line["T"]) + Len(line["R"]) \in Int
        BY <1>0
      <4>2. Len(line'["T"]) + Len(line'["R"]) <= Harmed' + 1
        BY <1>0, <1>1, <1>3, <3>1, <4>1, Rising, Zenon
      <4> QED BY <4>2 DEF OnTheWay
    <3>5. \A j \in DOMAIN line'["R"] : line'["R"][j] = FRAME(C_SET)
      BY <1>2, <3>2
    <3> QED BY <1>1, <1>2, <1>4, <2>3, <2>5, <3>1, <3>3, <3>4, <3>5 DEF Connecting, Reading
  <2> QED BY <2>2, <2>4, <2>5
<1>6. CASE Reading
  <2>1. Answered(line["T"], C_UA, Used, Harmed) /\ Settled(line["T"], line["R"], C_UA, m)
    BY <1>6 DEF Connecting, Reading
  <2>2. line["R"] # <<>> => Head(line["R"]).control \notin {data_control_byte(m), C_DISC}
    <3>1. line["R"] # <<>> => Head(line["R"]) = C
      BY <1>0, <1>2, LineEnds DEF C
    <3> QED BY <1>4, <3>1 DEF Stale
  <2>3. /\ Reading' /\ UNCHANGED frame_number
        /\ Worn(line["T"], line["R"], line'["T"], line'["R"], m, Harmed, Harmed')
    BY <1>2, <1>6, <2>2, ReadingStep
  <2>4. m' = m
    BY <1>0, <1>1, <2>3
  <2>5. /\ line'["T"] \in Seq(Frame) /\ line'["R"] \in Seq(Frame)
        /\ line'["T"] = line["T"] \/ \E g \in Frame : line'["T"] = Append(line["T"], g)
        /\ \A j \in DOMAIN line'["R"] : \E i \in DOMAIN line["R"] : line'["R"][j] = line["R"][i]
        /\ Len(line["T"]) + Len(line["R"]) <= Harmed + 1 =>
             Len(line'["T"]) + Len(line'["R"]) <= Harmed' + 1
    <3>1. Paid(line["T"], line["R"], line'["T"], line'["R"], Harmed, Harmed')
      BY <1>0, <2>3, WornLength, Zenon
    <3> QED BY <3>1, Zenon DEF Paid
  <2>6. OnTheWay' <= Harmed' + 1
    BY <1>3, <2>5, Zenon DEF OnTheWay
  <2>7. Answered(line'["T"], C_UA, Used, Harmed')
    BY <1>0, <1>1, <2>1, <2>5, AnsweredWorn
  <2>8. Settled(line'["T"], line'["R"], C_UA, m)
    BY <1>0, <1>4, <2>1, <2>3, SettledWorn
  <2>9. \A j \in DOMAIN line'["R"] : line'["R"][j] = FRAME(C_SET)
    BY <1>2, <2>5
  <2> QED BY <1>1, <1>2, <2>3, <2>4, <2>6, <2>7, <2>8, <2>9 DEF Connecting
<1> QED BY <1>5, <1>6 DEF Connecting

LEMMA ReceiverWriting ==
  ASSUME OnlyForwardFaults, TypeOK, CallInv, ReceiverStep, Writing
  PROVE  Writing'
<1>0. /\ "T" \in Side /\ "R" \in Side /\ "T" # "R"
      /\ line["T"] \in Seq(Frame) /\ line["R"] \in Seq(Frame)
      /\ Len(line["T"]) \in Nat /\ Len(line["R"]) \in Nat
      /\ n \in Nat /\ m \in Nat /\ m = frame_number["R"] /\ Used \in Nat /\ Harmed \in Nat
  BY AttemptTypes
<1>1. /\ op'["T"] = "transmitter_write" /\ is_active'["T"]
      /\ n' = n /\ Used' = Used /\ packet' = packet
      /\ m' = frame_number'["R"] /\ Harmed' \in Nat /\ Harmed' >= Harmed
  BY ReceiverHolds DEF LeavesTransmitter, Writing
<1>2. is_open("T") /\ Reading
  BY DEF Writing, is_open
<1>3. Len(line["T"]) + Len(line["R"]) <= Harmed + 1
  BY DEF Writing, OnTheWay
<1> DEFINE F == OutFrame("transmitter_write", n, packet)
           A == FRAME(data_reply_byte(n, TRUE))
<1>4. /\ A \in Frame /\ A.control = data_reply_byte(n, TRUE) /\ ~IsReject(A.control)
      /\ ~Stale(F, n) /\ Stale(F, n + 1) /\ F.control # C_DISC
  <2>1. A \in Frame /\ A.control = data_reply_byte(n, TRUE) /\ ~IsReject(A.control)
    BY <1>0, SupervisionFrames, Answers DEF FRAME
  <2>2. ~Stale(F, n) /\ Stale(F, n + 1) /\ F.control = data_control_byte(n)
    BY <1>0, AttemptFrames
  <2> HIDE DEF A, F
  <2>3. data_control_byte(n) # C_DISC
    BY <1>0, Answers
  <2> QED BY <2>1, <2>2, <2>3
<1>5. F' = F
  BY <1>1
<1> HIDE DEF F, A
<1>6. ASSUME /\ Reading' /\ UNCHANGED frame_number
             /\ Worn(line["T"], line["R"], line'["T"], line'["R"], m, Harmed, Harmed')
      PROVE  Writing'
  <2>1. m' = m
    BY <1>0, <1>1, <1>6
  <2>2. Paid(line["T"], line["R"], line'["T"], line'["R"], Harmed, Harmed')
    BY <1>0, <1>6, WornLength, Zenon
  <2>3. OnTheWay' <= Harmed' + 1
    BY <1>3, <2>2, Zenon DEF OnTheWay, Paid
  <2>4. CASE m = n /\ Unanswered(line["T"], line["R"], F, m, Used, Harmed)
    <3>1. Unanswered(line'["T"], line'["R"], F, m, Used, Harmed')
      BY <1>0, <1>1, <1>4, <1>6, <2>4, UnansweredWorn
    <3> QED BY <1>1, <1>5, <1>6, <2>1, <2>3, <2>4, <3>1 DEF Writing, F
  <2>5. CASE /\ m = n + 1 /\ Answered(line["T"], A.control, Used, Harmed)
             /\ Settled(line["T"], line["R"], A.control, m)
    <3>1. Answered(line'["T"], A.control, Used, Harmed')
      <4>1. line'["T"] = line["T"] \/ \E g \in Frame : line'["T"] = Append(line["T"], g)
        BY <2>2, Zenon DEF Paid
      <4> QED BY <1>0, <1>1, <2>5, <4>1, AnsweredWorn
    <3>2. Settled(line'["T"], line'["R"], A.control, m)
      BY <1>0, <1>4, <1>6, <2>5, SettledWorn
    <3> QED BY <1>1, <1>4, <1>6, <2>1, <2>3, <2>5, <3>1, <3>2 DEF Writing
  <2> QED BY <1>4, <2>4, <2>5 DEF Writing, F
<1>7. ASSUME line["R"] # <<>>, Head(line["R"]).control \in {data_control_byte(m), C_DISC}
      PROVE  m = n /\ Unanswered(line["T"], line["R"], F, m, Used, Harmed)
  <2>1. ~Stale(Head(line["R"]), m)
    BY <1>7 DEF Stale
  <2>2. 1 \in DOMAIN line["R"] /\ Head(line["R"]) = line["R"][1]
    BY <1>0, <1>7, LineEnds
  <2>3. ~Settled(line["T"], line["R"], data_reply_byte(n, TRUE), m)
    BY <2>1, <2>2 DEF Settled
  <2> QED BY <2>3 DEF Writing, F
<1>8. ASSUME line["R"] # <<>>, Head(line["R"]).control = data_control_byte(m),
             Reading', Harmed' = Harmed, frame_number'["R"] = m + 1,
             line'["R"] = Tail(line["R"]),
             line'["T"] = Append(line["T"], FRAME(data_reply_byte(m, TRUE)))
      PROVE  Writing'
  <2>1. m = n /\ Unanswered(line["T"], line["R"], F, n, Used, Harmed) /\ ~Stale(Head(line["R"]), n)
    BY <1>7, <1>8 DEF Stale
  <2>2. line'["T"] = Append(line["T"], A)
    BY <1>8, <2>1 DEF A
  <2>3. /\ Answered(Append(line["T"], A), A.control, Used, Harmed)
        /\ Stale(F, n + 1) => Settled(Append(line["T"], A), Tail(line["R"]), A.control, n + 1)
    BY ONLY <1>0, <1>4, <1>8, <2>1, AnswerSent, Zenon
  <2>4. Len(Append(line["T"], A)) + Len(Tail(line["R"])) = Len(line["T"]) + Len(line["R"])
    BY <1>0, <1>4, <1>8, AnswerLength
  <2>5. OnTheWay' <= Harmed' + 1
    BY <1>3, <1>8, <2>2, <2>4, Zenon DEF OnTheWay
  <2>6. m' = n + 1
    BY <1>1, <1>8, <2>1
  <2>7. /\ Answered(line'["T"], A.control, Used, Harmed')
        /\ Settled(line'["T"], line'["R"], A.control, n + 1)
    BY <1>4, <1>8, <2>2, <2>3, Zenon
  <2> QED BY <1>1, <1>4, <1>8, <2>5, <2>6, <2>7 DEF Writing
<1>9. ~(line["R"] # <<>> /\ Head(line["R"]).control = C_DISC)
  <2> SUFFICES ASSUME line["R"] # <<>>, Head(line["R"]).control = C_DISC
               PROVE  FALSE
    OBVIOUS
  <2>1. m = n /\ Unanswered(line["T"], line["R"], F, n, Used, Harmed)
    BY <1>7
  <2>2. line["R"] # <<>> /\ ~Stale(Head(line["R"]), n)
    BY DEF Stale
  <2>3. \A j \in DOMAIN line["R"] : line["R"][j] = F
    BY ONLY <1>0, <1>4, <2>1, <2>2, AnswerSent, Zenon
  <2>4. 1 \in DOMAIN line["R"] /\ Head(line["R"]) = line["R"][1]
    BY <1>0, LineEnds
  <2> QED BY <1>4, <2>3, <2>4
<1> QED BY <1>2, <1>6, <1>8, <1>9, ReadingStep

LEMMA ReceiverBetweenCalls ==
  ASSUME OnlyForwardFaults, TypeOK, CallInv, ReceiverStep, BetweenCalls
  PROVE  BetweenCalls'
<1>0. /\ line["T"] \in Seq(Frame) /\ line["R"] \in Seq(Frame)
      /\ m \in Nat /\ m = frame_number["R"] /\ Harmed \in Nat
  BY AttemptTypes
<1>1. /\ op'["T"] = "none" /\ is_active'["T"] /\ n' = n /\ m' = frame_number'["R"]
  BY ReceiverHolds DEF LeavesTransmitter, BetweenCalls
<1>2. is_open("T") /\ Reading
  BY DEF BetweenCalls, is_open
<1>3. line["R"] # <<>> => Head(line["R"]).control \notin {data_control_byte(m), C_DISC}
  <2>1. line["R"] # <<>> => 1 \in DOMAIN line["R"] /\ Head(line["R"]) = line["R"][1]
    BY <1>0, LineEnds
  <2> QED BY <2>1 DEF BetweenCalls, Stale
<1>4. /\ Reading' /\ UNCHANGED frame_number
      /\ Worn(line["T"], line["R"], line'["T"], line'["R"], m, Harmed, Harmed')
  BY <1>2, <1>3, ReadingStep
<1>5. m' = n'
  BY <1>0, <1>1, <1>4 DEF BetweenCalls
<1>6. Paid(line["T"], line["R"], line'["T"], line'["R"], Harmed, Harmed')
  BY <1>0, <1>4, WornLength, Zenon
<1>7. OnTheWay' <= Harmed'
  <2>1. Len(line["T"]) + Len(line["R"]) <= Harmed
    BY DEF BetweenCalls, OnTheWay
  <2> QED BY <1>6, <2>1, Zenon DEF OnTheWay, Paid
<1>8. Rejects(line'["T"])
  <2>1. \/ line'["T"] = line["T"]
        \/ \E g \in Frame : IsReject(g.control) /\ line'["T"] = Append(line["T"], g)
    BY <1>4, Zenon DEF Worn
  <2>2. Rejects(line["T"])
    BY DEF BetweenCalls
  <2> QED BY <1>0, <2>1, <2>2, RejectsWorn
<1>9. \A j \in DOMAIN line'["R"] : Stale(line'["R"][j], m')
  <2>1. \A j \in DOMAIN line'["R"] : \E i \in DOMAIN line["R"] : line'["R"][j] = line["R"][i]
    BY <1>6, Zenon DEF Paid
  <2>2. m' = m
    BY <1>0, <1>1, <1>4
  <2> QED BY <2>1, <2>2 DEF BetweenCalls
<1> QED BY <1>1, <1>4, <1>5, <1>7, <1>8, <1>9 DEF BetweenCalls

LEMMA ReceiverDisconnecting ==
  ASSUME OnlyForwardFaults, TypeOK, CallInv, ReceiverStep, Disconnecting
  PROVE  Disconnecting'
<1>0. /\ line["T"] \in Seq(Frame) /\ line["R"] \in Seq(Frame)
      /\ n \in Nat /\ m \in Nat /\ m = frame_number["R"] /\ Used \in Nat /\ Harmed \in Nat
  BY AttemptTypes
<1>1. /\ op'["T"] = "disconnect" /\ n' = n /\ Used' = Used
      /\ m' = frame_number'["R"] /\ Harmed' \in Nat /\ Harmed' >= Harmed
  BY ReceiverHolds DEF LeavesTransmitter, Disconnecting
<1>2. is_open("T")
  BY DEF Disconnecting, is_open
<1> DEFINE F == FRAME(C_DISC)
<1>3. /\ F \in Frame /\ F.control = C_DISC /\ ~IsReject(F.control) /\ ~Stale(F, m)
      /\ F.control # data_control_byte(m)
  <2>1. F \in Frame /\ F.control = C_DISC /\ ~IsReject(F.control) /\ ~Stale(F, m)
    BY <1>0, SupervisionFrames, AttemptFrames, Answers DEF FRAME
  <2> HIDE DEF F
  <2>2. data_control_byte(m) # C_DISC
    BY <1>0, Answers
  <2> QED BY <2>1, <2>2
<1> HIDE DEF F
<1>4. CASE op["R"] \in {"handle_disconnect", "closed", "crashed"}
  <2>1. Answered(line["T"], C_DISC, Used, Harmed)
    BY <1>4 DEF Disconnecting, Reading
  <2>2. /\ op'["R"] \in {"handle_disconnect", "closed", "crashed"}
        /\ line'["T"] = line["T"] \/ \E g \in Frame : line'["T"] = Append(line["T"], g)
    BY <1>4, LeavingStep
  <2>3. Answered(line'["T"], C_DISC, Used, Harmed')
    BY <1>0, <1>1, <2>1, <2>2, AnsweredWorn
  <2> QED BY <1>1, <2>2, <2>3 DEF Disconnecting
<1>5. CASE Reading
  <2>1. m = n /\ Unanswered(line["T"], line["R"], F, m, Used, Harmed)
    BY <1>5 DEF Disconnecting, Reading, F
  <2>2. ASSUME /\ Reading' /\ UNCHANGED frame_number
               /\ Worn(line["T"], line["R"], line'["T"], line'["R"], m, Harmed, Harmed')
        PROVE  Disconnecting'
    <3>1. m' = m
      BY <1>0, <1>1, <2>2
    <3>2. Unanswered(line'["T"], line'["R"], F, m, Used, Harmed')
      BY <1>0, <1>1, <1>3, <2>1, <2>2, UnansweredWorn
    <3> QED BY <1>1, <2>1, <2>2, <3>1, <3>2 DEF Disconnecting, F
  <2>3. ASSUME line["R"] # <<>>, ~Stale(Head(line["R"]), m)
        PROVE  /\ Head(line["R"]) = F
               /\ Answered(Append(line["T"], F), F.control, Used, Harmed)
    <3>1. /\ \A j \in DOMAIN line["R"] : line["R"][j] = F
          /\ Answered(Append(line["T"], F), F.control, Used, Harmed)
      BY ONLY <1>0, <1>3, <2>1, <2>3, AnswerSent, Zenon
    <3>2. 1 \in DOMAIN line["R"] /\ Head(line["R"]) = line["R"][1]
      BY <1>0, <2>3, LineEnds
    <3> QED BY <3>1, <3>2
  <2>4. ~(line["R"] # <<>> /\ Head(line["R"]).control = data_control_byte(m))
    <3>1. line["R"] # <<>> /\ Head(line["R"]).control = data_control_byte(m) =>
            ~Stale(Head(line["R"]), m)
      BY DEF Stale
    <3> QED BY <1>3, <2>3, <3>1
  <2>5. ASSUME op'["R"] = "handle_disconnect", Harmed' = Harmed, line["R"] # <<>>,
               Head(line["R"]).control = C_DISC,
               line'["T"] = Append(line["T"], FRAME(C_DISC))
        PROVE  Disconnecting'
    <3>1. ~Stale(Head(line["R"]), m)
      BY <2>5 DEF Stale
    <3>2. Answered(line'["T"], C_DISC, Used, Harmed)
      BY <1>3, <2>3, <2>5, <3>1 DEF F
    <3> QED BY <1>1, <2>5, <3>2 DEF Disconnecting
  <2> QED BY <1>2, <1>5, <2>2, <2>4, <2>5, ReadingStep
<1> QED BY <1>4, <1>5 DEF Disconnecting

-----------------------------------------------------------------------------
(* The steps of the transmitter.                                           *)

\* A call of the transmitter's begins: its frame is behind what is left.
LEMMA TransmitterBegins ==
  ASSUME OnlyForwardFaults, TypeOK, is_open("R"),
         NEW o \in {"transmitter_connect", "transmitter_write", "disconnect"}, NEW k, NEW p,
         NEW ln \in [Side -> Seq(Frame)], Begin("T", o, k, p, ln), ln["R"] = line["R"],
         OutFrame(o, k, p) \in Frame, NEW b \in Nat,
         Rejects(ln["T"]), \A j \in DOMAIN line["R"] : Stale(line["R"][j], b),
         Len(ln["T"]) + Len(line["R"]) <= Harmed
  PROVE  /\ op'["T"] = o /\ op'["R"] = op["R"] /\ UNCHANGED <<is_active, retval>>
         /\ Harmed' = Harmed /\ OnTheWay' <= Harmed + 1
         /\ line'["T"] = ln["T"] /\ line'["R"] = Append(line["R"], OutFrame(o, k, p))
         /\ Unanswered(line'["T"], line'["R"], OutFrame(o, k, p), b, Used', Harmed')
<1> DEFINE f == OutFrame(o, k, p)
<1>0. /\ "T" \in Side /\ "R" \in Side /\ "T" # "R" /\ Peer("T") = "R"
      /\ op \in [Side -> Ops] /\ Harmed \in Nat /\ line["R"] \in Seq(Frame)
      /\ ln["T"] \in Seq(Frame) /\ NumRetransmissions \in Nat /\ DOMAIN ntries = Side
  BY AttemptTypes DEF Peer, TypeOK, Side
<1>1. f \in Frame
  OBVIOUS
<1> HIDE DEF f
<1>2. /\ op' = [op EXCEPT !["T"] = o]
      /\ ntries' = [ntries EXCEPT !["T"] = NumRetransmissions]
      /\ UNCHANGED <<is_active, retval>> /\ Harmed' = Harmed
      /\ line'["T"] = ln["T"]
      /\ line'["R"] = Append(line["R"], f)
  <2>1. o \in Exchanges
    BY DEF Exchanges
  <2>2. /\ op' = [op EXCEPT !["T"] = o]
        /\ ntries' = [ntries EXCEPT !["T"] = NumRetransmissions]
        /\ UNCHANGED <<is_active, retval>> /\ Harmed' = Harmed
        /\ line'["T"] = ln["T"]
        /\ is_open(Peer("T")) => line'[Peer("T")] = Append(ln[Peer("T")], f)
    BY <1>0, <2>1, ForwardBegin DEF f
  <2> QED BY <1>0, <2>2
<1>3. Used' = 0
  BY <1>0, <1>2 DEF Used
<1>4. Unanswered(ln["T"], Append(line["R"], f), f, b, 0, Harmed)
  BY <1>0, <1>1, FirstAttempt
<1>5. OnTheWay' <= Harmed + 1
  <2>1. Len(line'["R"]) = Len(line["R"]) + 1 /\ Len(line["R"]) \in Nat /\ Len(ln["T"]) \in Nat
    BY <1>0, <1>1, <1>2, LineEnds, LineAppend
  <2>2. Len(ln["T"]) + Len(line'["R"]) <= Harmed + 1
    BY <1>0, <2>1
  <2> QED BY <1>2, <2>2 DEF OnTheWay
<1> QED BY <1>0, <1>2, <1>3, <1>4, <1>5 DEF f

LEMMA TransmitterConnects ==
  ASSUME OnlyForwardFaults, TypeOK, transmitter_connect, Starting
  PROVE  Connecting' /\ UNCHANGED retval
<1>0. /\ "T" \in Side /\ "R" \in Side /\ "T" # "R"
      /\ line["T"] \in Seq(Frame) /\ line["R"] \in Seq(Frame) /\ line \in [Side -> Seq(Frame)]
      /\ Len(line["T"]) \in Nat /\ Len(line["R"]) \in Nat /\ Harmed \in Nat
      /\ frame_number \in [Side -> Nat] /\ n = frame_number["T"] /\ m = frame_number["R"]
  BY AttemptTypes DEF TypeOK
<1>1. line["T"] = <<>> /\ line["R"] = <<>>
  <2>1. Len(line["T"]) + Len(line["R"]) = 0
    BY DEF Starting, OnTheWay
  <2>2. \A i, j \in Nat : i + j = 0 => i = 0 /\ j = 0
    OBVIOUS
  <2>3. Len(line["T"]) = 0 /\ Len(line["R"]) = 0
    BY <1>0, <2>1, <2>2, Zenon
  <2> QED BY <1>0, <2>3, LineEnds
<1>2. op["R"] = "receiver_listen" /\ is_open("R")
  BY DEF transmitter_connect, OnlyForwardFaults, Starting, is_open
<1>3. m' = 0 /\ n' = 0
  <2>1. frame_number' = [frame_number EXCEPT !["T"] = 0]
    BY DEF transmitter_connect
  <2>2. frame_number["R"] = 0
    BY <1>0 DEF Starting
  <2> QED BY <1>0, <2>1, <2>2 DEF m, n
<1>4. ~Suffer({"port"})
  BY ForwardFaults
<1>5. PICK k \in 0..Len(line["T"]) :
        Begin("T", "transmitter_connect", 0, NoPacket,
              [line EXCEPT !["T"] = SubSeq(@, k + 1, Len(@))])
  BY <1>4 DEF transmitter_connect
<1> DEFINE ln == [line EXCEPT !["T"] = SubSeq(@, k + 1, Len(@))]
<1>6. ln["T"] = <<>> /\ ln["R"] = line["R"] /\ ln \in [Side -> Seq(Frame)]
  <2>1. Len(line["T"]) = 0
    BY <1>0, <1>1, LineEnds
  <2>2. k = 0
    BY <1>5, <2>1
  <2>3. SubSeq(line["T"], k + 1, Len(line["T"])) = <<>>
    BY <1>1, <2>1, <2>2
  <2> QED BY <1>0, <2>3
<1>7. OutFrame("transmitter_connect", 0, NoPacket) = FRAME(C_SET) /\ FRAME(C_SET) \in Frame
  BY SupervisionFrames DEF OutFrame
<1>8. Begin("T", "transmitter_connect", 0, NoPacket, ln)
  BY <1>5
<1> HIDE DEF ln
<1>9. Rejects(ln["T"]) /\ Len(ln["T"]) + Len(line["R"]) <= Harmed
      /\ \A j \in DOMAIN line["R"] : Stale(line["R"][j], 0)
  BY <1>0, <1>1, <1>6 DEF Rejects
<1>10. /\ op'["T"] = "transmitter_connect" /\ op'["R"] = op["R"]
       /\ UNCHANGED <<is_active, retval>>
       /\ Harmed' = Harmed /\ OnTheWay' <= Harmed + 1
       /\ line'["R"] = Append(line["R"], FRAME(C_SET))
       /\ Unanswered(line'["T"], line'["R"], FRAME(C_SET), 0, Used', Harmed')
  BY <1>2, <1>6, <1>7, <1>8, <1>9, TransmitterBegins
<1>11. \A j \in DOMAIN line'["R"] : line'["R"][j] = FRAME(C_SET)
  BY <1>1, <1>10
<1> QED BY <1>2, <1>3, <1>10, <1>11 DEF Connecting

LEMMA TransmitterWrites ==
  ASSUME OnlyForwardFaults, TypeOK, transmitter_write, BetweenCalls
  PROVE  Writing' /\ UNCHANGED retval
<1>0. /\ line["T"] \in Seq(Frame) /\ line["R"] \in Seq(Frame) /\ line \in [Side -> Seq(Frame)]
      /\ Harmed \in Nat /\ n \in Nat /\ n = frame_number["T"] /\ m = frame_number["R"]
  BY AttemptTypes
<1>1. m = n /\ m' = m /\ n' = n /\ packet' = packet + 1
  BY DEF transmitter_write, BetweenCalls, m, n
<1>2. is_open("R") /\ op["R"] \in {"none", "receiver_read"}
  BY DEF BetweenCalls, Reading, is_open
<1> DEFINE f == OutFrame("transmitter_write", n, packet + 1)
<1>3. f \in Frame /\ Begin("T", "transmitter_write", n, packet + 1, line)
  <2>1. packet + 1 \in 1..MaxPackets
    BY BoundsAssumption DEF TypeOK, transmitter_write
  <2>2. packet + 1 \in 0..MaxPackets
    BY <2>1
  <2> QED BY <1>0, <2>1, <2>2, OutFrameType DEF transmitter_write, Exchanges
<1>4. /\ Rejects(line["T"]) /\ \A j \in DOMAIN line["R"] : Stale(line["R"][j], n)
      /\ Len(line["T"]) + Len(line["R"]) <= Harmed
  BY <1>1 DEF BetweenCalls, OnTheWay
<1>5. /\ op'["T"] = "transmitter_write" /\ op'["R"] = op["R"]
      /\ UNCHANGED <<is_active, retval>>
      /\ Harmed' = Harmed /\ OnTheWay' <= Harmed + 1
      /\ Unanswered(line'["T"], line'["R"], f, n, Used', Harmed')
  BY <1>0, <1>2, <1>3, <1>4, TransmitterBegins
<1>6. OutFrame("transmitter_write", n, packet)' = f
  BY <1>1
<1> HIDE DEF f
<1>7. is_active'["T"]
  BY <1>5 DEF BetweenCalls
<1> QED BY <1>1, <1>2, <1>5, <1>6, <1>7 DEF Writing, Reading

LEMMA TransmitterDisconnects ==
  ASSUME OnlyForwardFaults, TypeOK, disconnect("T"), BetweenCalls
  PROVE  Disconnecting' /\ UNCHANGED retval
<1>0. /\ line["T"] \in Seq(Frame) /\ line["R"] \in Seq(Frame) /\ line \in [Side -> Seq(Frame)]
      /\ Harmed \in Nat /\ n \in Nat /\ n = frame_number["T"] /\ m = frame_number["R"]
  BY AttemptTypes
<1>1. m = n /\ m' = m /\ n' = n
  BY DEF disconnect, BetweenCalls, m, n
<1>2. is_open("R") /\ op["R"] \in {"none", "receiver_read"}
  BY DEF BetweenCalls, Reading, is_open
<1>3. /\ OutFrame("disconnect", n, NoPacket) = FRAME(C_DISC) /\ FRAME(C_DISC) \in Frame
      /\ Begin("T", "disconnect", n, NoPacket, line)
  BY <1>0, SupervisionFrames DEF OutFrame, disconnect
<1>4. /\ Rejects(line["T"]) /\ \A j \in DOMAIN line["R"] : Stale(line["R"][j], n)
      /\ Len(line["T"]) + Len(line["R"]) <= Harmed
  BY <1>1 DEF BetweenCalls, OnTheWay
<1> DEFINE f == OutFrame("disconnect", n, NoPacket)
<1>5. f = FRAME(C_DISC) /\ f \in Frame
  BY <1>3
<1>6. /\ op'["T"] = "disconnect" /\ op'["R"] = op["R"]
      /\ UNCHANGED <<is_active, retval>>
      /\ Unanswered(line'["T"], line'["R"], f, n, Used', Harmed')
  BY <1>0, <1>2, <1>3, <1>4, <1>5, TransmitterBegins
<1> HIDE DEF f
<1> QED BY <1>1, <1>2, <1>5, <1>6 DEF Disconnecting, Reading

\* An exchange that opens or writes gets its answer and leaves the lines as they are
\* between calls, or gets a REJ before it.
LEMMA SettledStep ==
  ASSUME OnlyForwardFaults, TypeOK, op["T"] \in {"transmitter_connect", "transmitter_write"},
         op["T"] = "transmitter_write" => is_active["T"],
         receive_reply("T") \/ timeout("T"), Harmed < NumRetransmissions, is_open("R"),
         NEW c, c = Wanted(op["T"], n), ~IsReject(c), c \notin {0, 64},
         Answered(line["T"], c, Used, Harmed), NEW k, Settled(line["T"], line["R"], c, k),
         NEW f \in Frame, f = OutFrame(op["T"], n, packet), Stale(f, k),
         OnTheWay <= Harmed + 1
  PROVE  /\ Harmed' = Harmed
         /\ \/ /\ UNCHANGED <<op, is_active, retval, frame_number, packet>>
               /\ line'["R"] = Append(line["R"], f) /\ OnTheWay' <= Harmed + 1
               /\ Answered(line'["T"], c, Used', Harmed')
               /\ Settled(line'["T"], line'["R"], c, k)
            \/ /\ op'["T"] = "none" /\ is_active'["T"] /\ retval'["T"] = 0
               /\ op'["R"] = op["R"] /\ frame_number'["R"] = frame_number["R"]
               /\ frame_number'["T"] = IF op["T"] = "transmitter_write" THEN n + 1 ELSE n
               /\ Rejects(line'["T"]) /\ \A j \in DOMAIN line'["R"] : Stale(line'["R"][j], k)
               /\ OnTheWay' <= Harmed
<1>0. /\ line["T"] \in Seq(Frame) /\ line["R"] \in Seq(Frame)
      /\ Len(line["T"]) \in Nat /\ Len(line["R"]) \in Nat /\ Harmed \in Nat
  BY AttemptTypes
<1>1. Calling
  BY DEF Calling
<1>2. /\ Harmed' = Harmed /\ line["T"] # <<>>
      /\ \/ /\ UNCHANGED <<op, is_active, retval, frame_number, packet>>
            /\ line'["T"] = Tail(line["T"])
            /\ line'["R"] = Append(line["R"], f)
            /\ Answered(line'["T"], c, Used', Harmed')
         \/ /\ retval'["T"] = 0 /\ op'["R"] = op["R"] /\ line["T"][1].control = c
            /\ frame_number'["R"] = frame_number["R"]
            /\ op'["T"] = "none" /\ is_active'["T"]
            /\ line'["T"] = Tail(line["T"]) /\ line'["R"] = line["R"]
            /\ frame_number'["T"] = IF op["T"] = "transmitter_write" THEN n + 1 ELSE n
  BY <1>1, AnsweredStep
<1>3. Len(line["T"]) + Len(line["R"]) <= Harmed + 1
  BY DEF OnTheWay
<1>4. Len(Tail(line["T"])) = Len(line["T"]) - 1
  BY <1>0, <1>2, LineEnds
<1>5. CASE /\ UNCHANGED <<op, is_active, retval, frame_number, packet>>
           /\ line'["T"] = Tail(line["T"])
           /\ line'["R"] = Append(line["R"], f)
           /\ Answered(line'["T"], c, Used', Harmed')
  <2>1. Settled(Tail(line["T"]), Append(line["R"], f), c, k)
    BY <1>0, <1>2, SettledResent
  <2>2. Len(Append(line["R"], f)) = Len(line["R"]) + 1
    BY <1>0, LineAppend
  <2>3. Len(Tail(line["T"])) + Len(Append(line["R"], f)) = Len(line["T"]) + Len(line["R"])
    <3>1. \A i, j \in Nat : (i - 1) + (j + 1) = i + j
      OBVIOUS
    <3> QED BY <1>0, <1>4, <2>2, <3>1, Zenon
  <2>4. OnTheWay' <= Harmed + 1
    BY <1>3, <1>5, <2>3, Zenon DEF OnTheWay
  <2> QED BY <1>2, <1>5, <2>1, <2>4
<1>6. CASE /\ retval'["T"] = 0 /\ op'["R"] = op["R"] /\ line["T"][1].control = c
           /\ frame_number'["R"] = frame_number["R"]
           /\ op'["T"] = "none" /\ is_active'["T"]
           /\ line'["T"] = Tail(line["T"]) /\ line'["R"] = line["R"]
           /\ frame_number'["T"] = IF op["T"] = "transmitter_write" THEN n + 1 ELSE n
  <2>1. Rejects(Tail(line["T"])) /\ \A j \in DOMAIN line["R"] : Stale(line["R"][j], k)
    BY <1>0, <1>2, <1>6, SettledTaken
  <2>2. \A i, j, d \in Nat : i + j <= d + 1 => (i - 1) + j <= d
    OBVIOUS
  <2>3. OnTheWay' <= Harmed
    BY <1>0, <1>3, <1>4, <1>6, <2>2, Zenon DEF OnTheWay
  <2> QED BY <1>2, <1>6, <2>1, <2>3
<1> QED BY <1>2, <1>5, <1>6

LEMMA TransmitterConnecting ==
  ASSUME OnlyForwardFaults, TypeOK, receive_reply("T") \/ timeout("T"), Connecting,
         Harmed < NumRetransmissions
  PROVE  (Connecting' \/ BetweenCalls') /\ retval'["T"] \in {retval["T"], 0}
<1>0. /\ n \in Nat /\ m \in Nat /\ n = frame_number["T"] /\ m = frame_number["R"]
      /\ line["R"] \in Seq(Frame) /\ Harmed \in Nat
  BY AttemptTypes
<1> DEFINE f == FRAME(C_SET)
<1>1. /\ f = OutFrame(op["T"], n, packet) /\ Wanted(op["T"], n) = C_UA
      /\ op["T"] = "transmitter_connect"
  BY DEF Connecting, OutFrame, Wanted
<1>2. f \in Frame /\ Stale(f, m)
  BY <1>0, SupervisionFrames, AttemptFrames
<1>3. ~IsReject(C_UA) /\ C_UA \notin {0, 64}
  BY Answers
<1>4. m = n /\ OnTheWay <= Harmed + 1 /\ \A j \in DOMAIN line["R"] : line["R"][j] = f
  BY DEF Connecting
<1> HIDE DEF f
<1>5. line'["R"] = Append(line["R"], f) => \A j \in DOMAIN line'["R"] : line'["R"][j] = f
  <2>1. \A j \in DOMAIN Append(line["R"], f) :
          \/ j \in DOMAIN line["R"] /\ Append(line["R"], f)[j] = line["R"][j]
          \/ Append(line["R"], f)[j] = f
    BY <1>0, <1>2, LineEnds, LineAppend
  <2> QED BY <1>4, <2>1
<1>6. CASE op["R"] = "receiver_listen"
  <2>1. is_open("R") /\ Calling /\ op["R"] # "left_open"
    BY <1>1, <1>6 DEF is_open, Calling
  <2>2. Unanswered(line["T"], line["R"], f, m, Used, Harmed)
    BY <1>6 DEF Connecting, Reading, f
  <2>3. /\ UNCHANGED <<op, is_active, retval, frame_number, packet>> /\ Harmed' = Harmed
        /\ line'["R"] = Append(line["R"], f)
        /\ Unanswered(line'["T"], line'["R"], f, m, Used', Harmed')
        /\ OnTheWay <= Harmed + 1 => OnTheWay' <= Harmed + 1
    BY <1>1, <1>2, <1>3, <2>1, <2>2, UnansweredStep
  <2>4. OnTheWay' <= Harmed' + 1
    BY <1>4, <2>3, Zenon
  <2>5. m' = m /\ n' = n
    BY <2>3 DEF m, n
  <2> QED BY <1>1, <1>4, <1>5, <1>6, <2>3, <2>4, <2>5 DEF Connecting, f
<1>7. CASE Reading
  <2>1. is_open("R")
    BY <1>7 DEF is_open, Reading
  <2>2. Answered(line["T"], C_UA, Used, Harmed) /\ Settled(line["T"], line["R"], C_UA, m)
    BY <1>7 DEF Connecting, Reading
  <2>3. /\ Harmed' = Harmed
        /\ \/ /\ UNCHANGED <<op, is_active, retval, frame_number, packet>>
              /\ line'["R"] = Append(line["R"], f) /\ OnTheWay' <= Harmed + 1
              /\ Answered(line'["T"], C_UA, Used', Harmed')
              /\ Settled(line'["T"], line'["R"], C_UA, m)
           \/ /\ op'["T"] = "none" /\ is_active'["T"] /\ retval'["T"] = 0
              /\ op'["R"] = op["R"] /\ frame_number'["R"] = frame_number["R"]
              /\ frame_number'["T"] = n
              /\ Rejects(line'["T"]) /\ \A j \in DOMAIN line'["R"] : Stale(line'["R"][j], m)
              /\ OnTheWay' <= Harmed
    BY <1>1, <1>2, <1>3, <1>4, <2>1, <2>2, SettledStep
  <2>4. Reading' /\ m' = m /\ n' = n
    BY <1>0, <1>7, <2>3 DEF Reading, m, n
  <2>5. CASE UNCHANGED op
    BY <1>1, <1>4, <1>5, <2>3, <2>4, <2>5 DEF Connecting, f
  <2>6. CASE op'["T"] = "none" /\ ~UNCHANGED op
    BY <1>4, <2>3, <2>4, <2>6 DEF BetweenCalls
  <2> QED BY <2>3, <2>5, <2>6
<1> QED BY <1>6, <1>7 DEF Connecting

LEMMA TransmitterWriting ==
  ASSUME OnlyForwardFaults, TypeOK, CallInv, receive_reply("T") \/ timeout("T"), Writing,
         Harmed < NumRetransmissions
  PROVE  (Writing' \/ BetweenCalls') /\ retval'["T"] \in {retval["T"], 0}
<1>0. /\ n \in Nat /\ m \in Nat /\ n = frame_number["T"] /\ m = frame_number["R"]
      /\ Harmed \in Nat
  BY AttemptTypes
<1> DEFINE f == OutFrame("transmitter_write", n, packet)
           c == data_reply_byte(n, TRUE)
<1>1. /\ op["T"] = "transmitter_write" /\ is_active["T"] /\ Calling
      /\ Reading /\ is_open("R") /\ op["R"] # "left_open"
      /\ OnTheWay <= Harmed + 1
  BY DEF Writing, Reading, is_open, Calling
<1>2. f = OutFrame(op["T"], n, packet) /\ Wanted(op["T"], n) = c
  BY <1>1 DEF Wanted
<1>3. f \in Frame /\ Stale(f, n + 1)
  <2>1. packet \in 0..MaxPackets /\ packet > 0
    BY <1>1 DEF TypeOK, CallInv
  <2>2. packet \in 1..MaxPackets
    BY <2>1, BoundsAssumption
  <2> QED BY <1>0, <2>1, <2>2, OutFrameType, AttemptFrames DEF Exchanges
<1>4. ~IsReject(c) /\ c \notin {0, 64}
  BY <1>0, Answers
<1> HIDE DEF f, c
<1>5. CASE m = n /\ Unanswered(line["T"], line["R"], f, m, Used, Harmed)
  <2>1. c # 0
    BY <1>4
  <2>2. /\ UNCHANGED <<op, is_active, retval, frame_number, packet>> /\ Harmed' = Harmed
        /\ Unanswered(line'["T"], line'["R"], f, m, Used', Harmed')
        /\ OnTheWay <= Harmed + 1 => OnTheWay' <= Harmed + 1
    BY <1>1, <1>2, <1>3, <1>4, <1>5, <2>1, UnansweredStep
  <2>3. m' = m /\ n' = n /\ Reading'
    BY <1>1, <2>2 DEF m, n, Reading
  <2>4. OutFrame("transmitter_write", n, packet)' = f
    BY <2>2, <2>3 DEF f
  <2>5. OnTheWay' <= Harmed' + 1
    BY <1>1, <2>2, Zenon
  <2> QED BY <1>1, <1>5, <2>2, <2>3, <2>4, <2>5 DEF Writing
<1>6. CASE m = n + 1 /\ Answered(line["T"], c, Used, Harmed)
           /\ Settled(line["T"], line["R"], c, m)
  <2>1. Stale(f, m)
    BY <1>3, <1>6
  <2>2. /\ Harmed' = Harmed
        /\ \/ /\ UNCHANGED <<op, is_active, retval, frame_number, packet>>
              /\ OnTheWay' <= Harmed + 1
              /\ Answered(line'["T"], c, Used', Harmed')
              /\ Settled(line'["T"], line'["R"], c, m)
           \/ /\ op'["T"] = "none" /\ is_active'["T"] /\ retval'["T"] = 0
              /\ op'["R"] = op["R"] /\ frame_number'["R"] = frame_number["R"]
              /\ frame_number'["T"] = n + 1
              /\ Rejects(line'["T"]) /\ \A j \in DOMAIN line'["R"] : Stale(line'["R"][j], m)
              /\ OnTheWay' <= Harmed
    BY <1>1, <1>2, <1>3, <1>4, <1>6, <2>1, SettledStep
  <2>3. Reading' /\ m' = m
    BY <1>0, <1>1, <2>2 DEF Reading, m
  <2>4. CASE UNCHANGED <<op, is_active, retval, frame_number, packet>>
    <3>1. n' = n
      BY <2>4 DEF n
    <3>2. data_reply_byte(n, TRUE)' = c
      BY <3>1 DEF c
    <3>3. op'["T"] # "none"
      BY <1>1, <2>4
    <3> QED BY <1>1, <1>6, <2>2, <2>3, <2>4, <3>1, <3>2, <3>3 DEF Writing
  <2>5. CASE op'["T"] = "none" /\ ~UNCHANGED op
    <3>1. n' = m'
      BY <1>6, <2>2, <2>3, <2>5 DEF n
    <3> QED BY <2>2, <2>3, <2>5, <3>1 DEF BetweenCalls
  <2> QED BY <1>1, <2>2, <2>4, <2>5
<1> QED BY <1>5, <1>6 DEF Writing, f, c

LEMMA TransmitterDisconnecting ==
  ASSUME OnlyForwardFaults, TypeOK, receive_reply("T") \/ timeout("T"), Disconnecting,
         Harmed < NumRetransmissions
  PROVE  (Disconnecting' \/ op'["T"] = "closed") /\ retval'["T"] \in {retval["T"], 0}
<1>0. /\ n = frame_number["T"] /\ m = frame_number["R"]
  BY AttemptTypes
<1> DEFINE f == FRAME(C_DISC)
<1>1. /\ op["T"] = "disconnect" /\ Calling
      /\ f = OutFrame(op["T"], n, packet) /\ Wanted(op["T"], n) = C_DISC
  BY DEF Disconnecting, Calling, OutFrame, Wanted
<1>2. f \in Frame
  BY SupervisionFrames
<1>3. ~IsReject(C_DISC) /\ C_DISC \notin {0, 64}
  BY Answers
<1> HIDE DEF f
<1>4. CASE Reading /\ m = n /\ Unanswered(line["T"], line["R"], f, m, Used, Harmed)
  <2>1. is_open("R") /\ op["R"] # "left_open"
    BY <1>4 DEF is_open, Reading
  <2>2. /\ UNCHANGED <<op, is_active, retval, frame_number, packet>>
        /\ Unanswered(line'["T"], line'["R"], f, m, Used', Harmed')
    BY <1>1, <1>2, <1>3, <1>4, <2>1, UnansweredStep
  <2>3. m' = m /\ n' = n /\ Reading'
    BY <1>4, <2>2 DEF m, n, Reading
  <2> QED BY <1>1, <1>4, <2>2, <2>3 DEF Disconnecting, f
<1>5. CASE /\ op["R"] \in {"handle_disconnect", "closed", "crashed"}
           /\ Answered(line["T"], C_DISC, Used, Harmed)
  <2>1. \/ /\ UNCHANGED <<op, is_active, retval, frame_number, packet>>
           /\ Answered(line'["T"], C_DISC, Used', Harmed')
        \/ retval'["T"] = 0 /\ op'["T"] = "closed"
    BY <1>1, <1>3, <1>5, AnsweredStep
  <2> QED BY <1>1, <1>5, <2>1 DEF Disconnecting
<1> QED BY <1>4, <1>5 DEF Disconnecting, f

-----------------------------------------------------------------------------
(* The transmitter rides out the faults of the frames it sends.            *)

\* The transmitter's steps.
TransmitterStep ==
  \/ transmitter_connect \/ transmitter_write
  \/ disconnect("T") \/ receive_reply("T") \/ timeout("T") \/ crash("T") \/ lose("T")

\* What comes back to a call in progress is a REJ or its answer, and no data.
LEMMA NoCrash ==
  ASSUME OnlyForwardFaults, TypeOK, Connecting \/ Writing \/ Disconnecting
  PROVE  ~crash("T")
<1>0. line["T"] \in Seq(Frame) /\ n \in Nat /\ Used \in Nat /\ Harmed \in Nat
  BY AttemptTypes
<1>1. ASSUME NEW f, NEW k, Unanswered(line["T"], line["R"], f, k, Used, Harmed),
             line["T"] # <<>>
      PROVE  IsReject(Head(line["T"]).control)
  <2>1. 1 \in DOMAIN line["T"] /\ Head(line["T"]) = line["T"][1]
    BY <1>0, <1>1, LineEnds
  <2> QED BY <1>1, <2>1 DEF Unanswered, Rejects
<1>2. ASSUME NEW c, Answered(line["T"], c, Used, Harmed)
      PROVE  Head(line["T"]).control = c \/ IsReject(Head(line["T"]).control)
  BY <1>0, <1>2, AnsweredHead DEF Coming
<1>3. \/ \E f, k : Unanswered(line["T"], line["R"], f, k, Used, Harmed)
      \/ \E c \in {C_UA, C_DISC, data_reply_byte(n, TRUE)} :
           Answered(line["T"], c, Used, Harmed)
  BY DEF Connecting, Writing, Disconnecting
<1>4. line["T"] # <<>> => Head(line["T"]).control \notin {0, 64}
  <2>1. \A c : IsReject(c) \/ c \in {C_UA, C_DISC, data_reply_byte(n, TRUE)} => c \notin {0, 64}
    BY <1>0, Answers
  <2>2. CASE \E f, k : Unanswered(line["T"], line["R"], f, k, Used, Harmed)
    <3>1. line["T"] # <<>> => IsReject(Head(line["T"]).control)
      BY <1>1, <2>2
    <3> QED BY <2>1, <3>1
  <2>3. ASSUME NEW c \in {C_UA, C_DISC, data_reply_byte(n, TRUE)},
               Answered(line["T"], c, Used, Harmed)
        PROVE  Head(line["T"]).control \notin {0, 64}
    <3>1. Head(line["T"]).control = c \/ IsReject(Head(line["T"]).control)
      BY <1>2, <2>3
    <3>2. c \notin {0, 64}
      BY <2>1
    <3> QED BY <2>1, <3>1, <3>2
  <2> QED BY <1>3, <2>2, <2>3
<1>5. line["T"] # <<>> => ~IsData(Head(line["T"]))
  <2>1. line["T"] # <<>> => Head(line["T"]) \in Frame
    BY <1>0, LineEnds
  <2> QED BY <1>4, <2>1, FrameFields
<1> QED BY <1>5 DEF crash

LEMMA TransmitterAttempts ==
  ASSUME OnlyForwardFaults, TypeOK, CallInv, TransmitterStep, retval["T"] = 0,
         Harmed < NumRetransmissions,
         Starting \/ Connecting \/ Writing \/ BetweenCalls \/ Disconnecting
         \/ op["T"] = "closed"
  PROVE  /\ retval'["T"] = 0
         /\ \/ Starting' \/ Connecting' \/ Writing' \/ BetweenCalls' \/ Disconnecting'
            \/ op'["T"] = "closed"
<1>1. ~lose("T")
  BY DEF lose, OnlyForwardFaults
<1>2. CASE Starting
  <2>1. transmitter_connect
    BY <1>1, <1>2 DEF Starting, TransmitterStep, transmitter_write, disconnect, HasPort,
                      receive_reply, timeout, crash, Exchanges
  <2> QED BY <1>2, <2>1, TransmitterConnects
<1>3. CASE Connecting \/ Writing \/ Disconnecting
  <2>1. op["T"] \in {"transmitter_connect", "transmitter_write", "disconnect"}
    BY <1>3 DEF Connecting, Writing, Disconnecting
  <2>2. ~crash("T")
    BY <1>3, NoCrash
  <2>3. receive_reply("T") \/ timeout("T")
    BY <1>1, <2>1, <2>2 DEF TransmitterStep, transmitter_connect, transmitter_write,
                            disconnect, HasPort
  <2>4. CASE Connecting
    BY <2>3, <2>4, TransmitterConnecting
  <2>5. CASE Writing
    BY <2>3, <2>5, TransmitterWriting
  <2>6. CASE Disconnecting
    BY <2>3, <2>6, TransmitterDisconnecting
  <2> QED BY <1>3, <2>4, <2>5, <2>6
<1>4. CASE BetweenCalls
  <2>1. transmitter_write \/ disconnect("T")
    BY <1>1, <1>4 DEF BetweenCalls, TransmitterStep, transmitter_connect,
                      receive_reply, timeout, crash, Exchanges
  <2>2. CASE transmitter_write
    BY <1>4, <2>2, TransmitterWrites
  <2>3. CASE disconnect("T")
    BY <1>4, <2>3, TransmitterDisconnects
  <2> QED BY <2>1, <2>2, <2>3
<1>5. CASE op["T"] = "closed"
  BY <1>1, <1>5 DEF TransmitterStep, transmitter_connect, transmitter_write, disconnect,
                    HasPort, receive_reply, timeout, crash, Exchanges
<1> QED BY <1>2, <1>3, <1>4, <1>5

LEMMA AttemptsStep ==
  ASSUME OnlyForwardFaults, TypeOK, CallInv, AttemptsInv, [Next]_vars
  PROVE  AttemptsInv'
<1>1. Harmed \in Nat /\ Harmed' \in Nat /\ Harmed' >= Harmed
  BY Harms, HarmedGrows
<1> SUFFICES ASSUME Harmed' < NumRetransmissions
             PROVE  /\ retval'["T"] = 0
                    /\ \/ Starting' \/ Connecting' \/ Writing' \/ BetweenCalls'
                       \/ Disconnecting' \/ op'["T"] = "closed"
  BY DEF AttemptsInv
<1>2. /\ Harmed < NumRetransmissions /\ retval["T"] = 0
      /\ Starting \/ Connecting \/ Writing \/ BetweenCalls \/ Disconnecting
         \/ op["T"] = "closed"
  <2>1. Harmed < NumRetransmissions
    BY <1>1, RetransmissionsAssumption
  <2> QED BY <2>1 DEF AttemptsInv
<1>3. CASE TransmitterStep
  BY <1>2, <1>3, TransmitterAttempts
<1>4. CASE ReceiverStep
  <2>1. retval'["T"] = 0 /\ op'["T"] = op["T"]
    BY <1>2, <1>4, ReceiverHolds DEF LeavesTransmitter
  <2> QED BY <1>2, <1>4, <2>1, ReceiverStarting, ReceiverConnecting, ReceiverWriting,
             ReceiverBetweenCalls, ReceiverDisconnecting
<1>5. CASE UNCHANGED vars
  <2>1. UNCHANGED <<op, ntries, frame_number, is_active, retval, line, packet, faults>>
    BY <1>5 DEF vars
  <2>2. n' = n /\ m' = m /\ Used' = Used /\ Harmed' = Harmed /\ OnTheWay' = OnTheWay
    BY <2>1 DEF n, m, Used, Harmed, OnTheWay
  <2>3. /\ Starting' <=> Starting
        /\ BetweenCalls' <=> BetweenCalls
    BY <2>1, <2>2 DEF Starting, BetweenCalls, Reading
  <2>4. Connecting' <=> Connecting
    BY <2>1, <2>2 DEF Connecting, Reading
  <2>5. Writing' <=> Writing
    BY <2>1, <2>2 DEF Writing, Reading
  <2>6. Disconnecting' <=> Disconnecting
    BY <2>1, <2>2 DEF Disconnecting, Reading
  <2> QED BY <1>2, <2>1, <2>3, <2>4, <2>5, <2>6
<1> QED BY <1>3, <1>4, <1>5 DEF Next, Side, TransmitterStep, ReceiverStep

LEMMA AttemptsInit == Init => AttemptsInv
<1> SUFFICES ASSUME Init
             PROVE  AttemptsInv
  OBVIOUS
<1>1. line["T"] = <<>> /\ line["R"] = <<>> /\ retval["T"] = 0 /\ n = 0 /\ m = 0
      /\ op["T"] = "start" /\ op["R"] = "start"
  BY DEF Init, Side, n, m
<1>2. OnTheWay = 0
  BY <1>1 DEF OnTheWay
<1> QED BY <1>1, <1>2 DEF AttemptsInv, Starting

\* Every attempt that f_send_acknowledged_frame counts as failed is paid for by a
\* fault of its own, on a line that harms only the frames of the transmitter, with an
\* alarm that outlasts the answer and a receiver that listens first.
THEOREM AttemptsPaid ==
  ASSUME OnlyForwardFaults
  PROVE  Spec => []AttemptsInv
<1>1. Spec => [](TypeOK /\ CallInv)
  BY TypeCorrect
<1>2. OnlyForwardFaults /\ TypeOK /\ CallInv /\ AttemptsInv /\ [Next]_vars => AttemptsInv'
  BY AttemptsStep
<1>3. OnlyForwardFaults
  OBVIOUS
<1> QED BY <1>1, <1>2, <1>3, AttemptsInit, PTL DEF Spec

\* On such a line no call of the transmitter's fails as long as there are fewer
\* faults than attempts.
THEOREM RidesOutForwardFaults ==
  ASSUME OnlyForwardFaults
  PROVE  Spec => []ToleratesForwardFaults
<1>1. Spec => []AttemptsInv
  BY AttemptsPaid
<1>2. AttemptsInv => ToleratesForwardFaults
  BY DEF AttemptsInv, ToleratesForwardFaults, Harmed
<1> QED BY <1>1, <1>2, PTL
=============================================================================
