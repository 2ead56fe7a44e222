----------------------------- MODULE DataLinkInv -----------------------------
(***************************************************************************)
(* The inductive invariant behind Window: what may be on the line, given   *)
(* the two frame numbers. Window alone is not inductive. To keep it, a     *)
(* data frame the receiver takes must be the transmitter's current one,    *)
(* and an RR the transmitter believes must be for it; each needs to know   *)
(* what is still on its way.                                               *)
(***************************************************************************)
EXTENDS DataLink

n == frame_number["T"]
m == frame_number["R"]

\* No damaged header reads as an RR. Without it the transmitter can take a frame
\* that failed its BCC for a confirmation (run refused_reply).
RepliesAreSafe == Misread \cap {data_reply_byte(0, TRUE), data_reply_byte(1, TRUE)} = {}

IsRR(f) == f.control \in {data_reply_byte(0, TRUE), data_reply_byte(1, TRUE)}

\* An RR on its way is the only one, it answers the frame the transmitter is at,
\* and the receiver has moved on from that frame.
ReplyInv ==
  \A i \in DOMAIN line["T"] :
    IsRR(line["T"][i]) =>
      /\ line["T"][i].control = data_reply_byte(n, TRUE)
      /\ m = n + 1
      /\ \A j \in DOMAIN line["T"] : IsRR(line["T"][j]) => i = j

\* When the receiver is ahead, every data frame on its way is a copy of the one
\* it has accepted. When it is not, copies of the frame before come first and
\* those of the current frame after them.
CopyInv ==
  \A i \in DOMAIN line["R"] :
    IsData(line["R"][i]) =>
      IF m = n + 1
        THEN line["R"][i].control = data_control_byte(n)
        ELSE line["R"][i].control = data_control_byte(n) =>
               \A j \in DOMAIN line["R"] :
                 i < j /\ IsData(line["R"][j]) =>
                   line["R"][j].control = data_control_byte(n)

\* A transmitter that has no connection yet.
Fresh == op["T"] \in {"start", "none", "transmitter_connect"} /\ ~is_active["T"]

\* A transmitter without a connection has sent no data and gets no RR, so that
\* transmitter_connect may start from frame number 0.
FreshInv ==
  Fresh =>
    /\ n = 0 /\ m = 0
    /\ \A i \in DOMAIN line["T"] : ~IsRR(line["T"][i])
    /\ \A i \in DOMAIN line["R"] : ~IsData(line["R"][i])

\* The transmitter writes, the receiver answers a DISC; an exchange has an attempt
\* left, and a write in progress has a packet.
CallInv ==
  /\ op["T"] \notin {"receiver_listen", "receiver_read", "handle_disconnect"}
  /\ op["R"] \notin {"transmitter_connect", "transmitter_write"}
  /\ \A s \in Side : op[s] \in Exchanges => ntries[s] > 0
  /\ op["T"] = "transmitter_write" => packet > 0

LinkInv == CallInv /\ ReplyInv /\ CopyInv /\ FreshInv

-----------------------------------------------------------------------------
(* What InOrder and the delivery service rest on: which packets the frames *)
(* carry.                                                                  *)

\* The data frames on their way are of packets written, in the order they were.
CarryInv ==
  \A i \in DOMAIN line["R"] :
    IsData(line["R"][i]) =>
      /\ line["R"][i].data <= packet
      /\ \A j \in DOMAIN line["R"] :
           i < j /\ IsData(line["R"][j]) => line["R"][i].data <= line["R"][j].data

\* Every reply of the receiver's could be written so far.
Clean == faults["unwritten"] = 0

\* One that the receiver will take is of a packet later than every confirmed one
\* and not earlier than any delivered one.
NewInv ==
  m = n => \A i \in DOMAIN line["R"] :
    IsData(line["R"][i]) /\ line["R"][i].control = data_control_byte(n) =>
      /\ \A c \in confirmed : c < line["R"][i].data
      /\ \A k \in DOMAIN delivered : delivered[k] <= line["R"][i].data
      /\ Clean => \A k \in DOMAIN delivered : delivered[k] < line["R"][i].data

\* What is delivered was written; when the receiver is not ahead it was confirmed,
\* under its own number or as an earlier packet under the same one.
DeliveredInv ==
  /\ \A k \in DOMAIN delivered : delivered[k] <= packet
  /\ Clean /\ m = n => \A k \in DOMAIN delivered : \E c \in confirmed : delivered[k] <= c

ConfirmedInv ==
  /\ \A c \in confirmed : c <= packet
  /\ op["T"] = "transmitter_write" => packet \notin confirmed
  /\ faults["unwritten"] <= MaxFaults["unwritten"]

PacketInv == CarryInv /\ NewInv /\ DeliveredInv /\ ConfirmedInv /\ InOrder
-----------------------------------------------------------------------------
(* What ToleratesForwardFaults rests on. Every attempt a call of the       *)
(* transmitter's has used is paid for by a fault of the line: by the loss  *)
(* of all its copies, or by a REJ, which is on its way, or is due for a    *)
(* frame that is, or has been taken.                                       *)

\* The line from the receiver is sound, the alarm patient, and every write and
\* port works; the receiver listens first and leaves hanging up to its peer; and no
\* damaged header reads as a SET.
OnlyForwardFaults ==
  /\ "T" \notin FaultySides /\ ~Premature /\ C_SET \notin Misread
  /\ "receiver_first" \in Policies
  /\ Policies \cap {"receiver_disconnects", "receiver_waits"} = {}
  /\ MaxFaults["unwritten"] = 0 /\ MaxFaults["port"] = 0

Harmed == faults["lost"] + faults["damaged"]
Used == NumRetransmissions - ntries["T"]

\* A receiver at frame number k answers frame f with REJ.
Stale(f, k) == f.control \notin {C_DISC, data_control_byte(k)}
Rejects(lt) == \A i \in DOMAIN lt : IsReject(lt[i].control)

\* Copies of frame f have been sent and none has been seen by a receiver at k: what
\* is before them on line lr costs a REJ each, and if no copy is left, d faults have
\* happened in the place of used attempts and one more. Line lt brings back REJs.
Unanswered(lt, lr, f, k, used, d) ==
  /\ Rejects(lt)
  /\ \E q \in 1..(Len(lr) + 1) :
       /\ \A j \in DOMAIN lr : IF j < q THEN Stale(lr[j], k) ELSE lr[j] = f
       /\ used + Len(lt) + q <= d + 1
       /\ q = Len(lr) + 1 => used < d

\* The answer c is on line lt, behind no more REJs than attempts may still be used.
Answered(lt, c, used, d) ==
  \E q \in DOMAIN lt :
    /\ lt[q].control = c
    /\ \A j \in DOMAIN lt : j < q => IsReject(lt[j].control)
    /\ used + q <= d + 1

\* All that is left on the lines is the answer c, REJs, and stale frames.
Settled(lt, lr, c, k) ==
  /\ \A i \in DOMAIN lt : IsReject(lt[i].control) \/ lt[i].control = c
  /\ \A i, j \in DOMAIN lt : lt[i].control = c /\ lt[j].control = c => i = j
  /\ \A j \in DOMAIN lr : Stale(lr[j], k)

\* How many frames are on their way.
OnTheWay == Len(line["T"]) + Len(line["R"])

Reading == op["R"] \in {"none", "receiver_read"}

Starting ==
  /\ op["T"] = "start" /\ op["R"] \in {"start", "receiver_listen"}
  /\ m = 0 /\ n = 0 /\ OnTheWay = 0

Connecting ==
  /\ op["T"] = "transmitter_connect" /\ m = n
  /\ OnTheWay <= Harmed + 1
  /\ \A j \in DOMAIN line["R"] : line["R"][j] = FRAME(C_SET)
  /\ \/ /\ op["R"] = "receiver_listen"
        /\ Unanswered(line["T"], line["R"], FRAME(C_SET), m, Used, Harmed)
     \/ /\ Reading
        /\ Answered(line["T"], C_UA, Used, Harmed)
        /\ Settled(line["T"], line["R"], C_UA, m)

Writing ==
  /\ op["T"] = "transmitter_write" /\ is_active["T"] /\ Reading
  /\ OnTheWay <= Harmed + 1
  /\ \/ /\ m = n
        /\ Unanswered(line["T"], line["R"], OutFrame("transmitter_write", n, packet), m,
                      Used, Harmed)
     \/ /\ m = n + 1
        /\ Answered(line["T"], data_reply_byte(n, TRUE), Used, Harmed)
        /\ Settled(line["T"], line["R"], data_reply_byte(n, TRUE), m)

Disconnecting ==
  /\ op["T"] = "disconnect"
  /\ \/ /\ Reading /\ m = n
        /\ Unanswered(line["T"], line["R"], FRAME(C_DISC), m, Used, Harmed)
     \/ /\ op["R"] \in {"handle_disconnect", "closed", "crashed"}
        /\ Answered(line["T"], C_DISC, Used, Harmed)

BetweenCalls ==
  /\ op["T"] = "none" /\ is_active["T"] /\ Reading /\ m = n
  /\ OnTheWay <= Harmed
  /\ Rejects(line["T"]) /\ \A j \in DOMAIN line["R"] : Stale(line["R"][j], m)

AttemptsInv ==
  Harmed < NumRetransmissions =>
    /\ retval["T"] = 0
    /\ \/ Starting \/ Connecting \/ Writing \/ BetweenCalls \/ Disconnecting
       \/ op["T"] = "closed"
=============================================================================
