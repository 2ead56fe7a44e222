----------------------------- MODULE FrameCodec -----------------------------
(***************************************************************************)
(* The bytes of a frame: how f_send_frame builds it and stuffs its data,   *)
(* how f_receive_frame cuts the byte stream into frames and how            *)
(* parse_frame_from_array takes one apart (data_link_io.c). A sender puts  *)
(* frames on a line, the line flips bits, a receiver reads frame after     *)
(* frame.                                                                  *)
(*                                                                         *)
(* The receive buffer is part of the state: the parser may read on past    *)
(* the frame it was given, into what earlier frames left there.            *)
(***************************************************************************)
EXTENDS DataLinkCodes, Sequences, SequencesExt

CONSTANTS
  LL_MAX_FRAME_SZ, \* size of g_buffer
  max_data_size,   \* frame.max_data_size of the receiver
  Frames,          \* bound: the frames to send first, second, ..., a set for each
  MaxFlips,        \* bound: bits flipped on the line
  Hits             \* bound: what flips may make of bytes where there is more than one

FLAG   == 126
A      == 3
BS_ESC == 125
BS_OCT == 32

LL_MAX_PAYLOAD_STUFFED   == (LL_MAX_FRAME_SZ - 2 - 3 - 1) \div 2
LL_MAX_PAYLOAD_UNSTUFFED == LL_MAX_PAYLOAD_STUFFED \div 2

Byte == 0..255

\* The value of each bit of a byte, and the bits of one.
Bits == {1, 2, 4, 8, 16, 32, 64, 128}
Bit(x, b) == (x \div b) % 2

\* Exclusive or: a bit is set where one of the two is.
Xor(x, y) ==
  LET at(b) == b * ((Bit(x, b) + Bit(y, b)) % 2)
  IN at(1) + at(2) + at(4) + at(8) + at(16) + at(32) + at(64) + at(128)

\* No control byte of the protocol makes a flag of its header: those are escaped
\* nowhere.
Sendable == [control : {c \in Byte : c # FLAG /\ Xor(A, c) # FLAG}, data : Seq(Byte)]

ASSUME CodecAssumption ==
  /\ LL_MAX_FRAME_SZ \in Nat /\ LL_MAX_FRAME_SZ > 6
  /\ max_data_size \in Nat
  /\ MaxFlips \in Nat
  /\ Frames \in Seq(SUBSET Sendable)

VARIABLES
  sent,      \* the frames f_send_frame wrote
  line,      \* the bytes on their way
  flipped,   \* of each flipped bit the byte it was in, what that became, and what follows
  g_buffer,  \* the receiver's buffer
  last_byte, \* serial_port_last_byte()
  reading,   \* whether the receiver has read from the line
  received   \* what each f_receive_frame returned

vars == <<sent, line, flipped, g_buffer, last_byte, reading, received>>

-----------------------------------------------------------------------------
(* Sending.                                                                *)

\* The exclusive or of all bytes, one after the other.
Bcc(bytes) ==
  LET bcc[i \in 0..Len(bytes)] == IF i = 0 THEN 0 ELSE Xor(bcc[i - 1], bytes[i])
  IN bcc[Len(bytes)]

Stuffed(c) == IF c \in {FLAG, BS_ESC} THEN <<BS_ESC, Xor(BS_OCT, c)>> ELSE <<c>>

\* What is written for the bytes, one after the other.
StuffedBytes(bytes) ==
  LET dest[i \in 0..Len(bytes)] ==
        IF i = 0 THEN <<>> ELSE dest[i - 1] \o Stuffed(bytes[i])
  IN dest[Len(bytes)]

\* Mutant: the check byte is appended after the data has been stuffed.
BareBcc(src) == Append(StuffedBytes(src), Bcc(src))

copy_and_stuff_bytes(src) == StuffedBytes(Append(src, Bcc(src)))

Built(f) ==
  <<FLAG, A, f.control, Xor(A, f.control)>>
    \o (IF f.data = <<>> THEN <<>> ELSE copy_and_stuff_bytes(f.data))
    \o <<FLAG>>

\* The data of a supervision frame is <<>>. A frame that is too big is refused;
\* nothing is written. All is written before the receiver begins to read.
f_send_frame(f) ==
  /\ ~reading
  /\ Len(f.data) <= LL_MAX_PAYLOAD_UNSTUFFED
  /\ sent' = Append(sent, f)
  /\ line' = line \o Built(f)
  /\ UNCHANGED <<flipped, g_buffer, last_byte, reading, received>>

\* All frames are on the line, and no more bits are flipped than the bounds allow.
Noisy ==
  /\ Len(flipped) < MaxFlips
  /\ \A k \in DOMAIN flipped : flipped[k].byte \in Hits
  /\ Len(sent) = Len(Frames)
  /\ ~reading

\* The line flips one bit of the i-th byte.
Flip(i, bit) ==
  /\ flipped # <<>> => Xor(line[i], bit) \in Hits
  /\ line' = [line EXCEPT ![i] = Xor(@, bit)]
  /\ flipped' = Append(flipped, [at |-> i, byte |-> line'[i],
                                 next |-> IF i < Len(line) THEN line[i + 1] ELSE 0])
  /\ UNCHANGED <<sent, g_buffer, last_byte, reading, received>>

-----------------------------------------------------------------------------
(* Parsing.                                                                *)

\* A frame the parser refused, with the control byte it leaves (-1: none).
Bad(control) == [ret |-> BADFRAME_CODE, control |-> control, data |-> <<>>]
Good(control, data) == [ret |-> SUCCESS_CODE, control |-> control, data |-> data]

\* Mutant: the header's check byte is not looked at.
AnyHeader(a) == TRUE

HeaderOk(a) == a[3] = Xor(a[1], a[2])

\* Mutant: the caller's limit is left to the size of a frame.
FrameLimit(n, data) == n > LL_MAX_PAYLOAD_STUFFED

TooLarge(n, data) == n > LL_MAX_PAYLOAD_STUFFED \/ Len(data) > max_data_size

\* One round of the loop over the data field, of which n bytes have been read. It
\* ends at the first flag that does not follow an escape.
Round(a, s) ==
  LET escaped == a[4 + s.n] = BS_ESC
      c    == IF escaped THEN Xor(BS_OCT, a[5 + s.n]) ELSE a[4 + s.n]
      n    == IF escaped THEN s.n + 2 ELSE s.n + 1
      data == Append(s.data, c)
  IN IF s.at # "loop" THEN s
     ELSE IF TooLarge(s.n, s.data) THEN [s EXCEPT !.at = "bad"]
     ELSE IF a[4 + n] # FLAG
       THEN [n |-> n, data |-> data, bcc |-> Xor(s.bcc, c), at |-> "loop"]
     ELSE [n |-> n, data |-> data, bcc |-> s.bcc, at |-> IF c = s.bcc THEN "good" ELSE "bad"]

\* The loop ends after that many rounds: each reads a byte.
MaxRounds == LL_MAX_PAYLOAD_STUFFED + 2

Rounds(a) ==
  LET round[k \in 0..MaxRounds] ==
        IF k = 0 THEN [n |-> 0, data |-> <<>>, bcc |-> 0, at |-> "loop"]
        ELSE Round(a, round[k - 1])
  IN round

Unstuff(a) ==
  LET end == Rounds(a)[MaxRounds]
  IN IF end.at = "good" THEN Good(a[2], end.data) ELSE Bad(a[2])

\* a is the buffer from the byte after the opening flag on.
parse_frame_from_array(a) ==
  IF FLAG \in {a[1], a[2], a[3]} THEN Bad(-1)
  ELSE IF ~HeaderOk(a) THEN Bad(a[2])
  ELSE IF a[4] = FLAG THEN Good(a[2], <<>>)
  ELSE IF a[5] = FLAG THEN Bad(a[2])
  ELSE Unstuff(a)

-----------------------------------------------------------------------------
(* Receiving.                                                              *)

\* serial_port_read(delim = FLAG, maxc): as many bytes as it takes off the line.
\* It blocks while there is neither a flag nor maxc bytes.
Reads(maxc) ==
  LET ends == {n \in 1..Len(line) : line[n] = FLAG \/ n = maxc}
  IN {n \in ends : \A k \in ends : n <= k}

\* Stores the bytes from that place of the buffer on, be it as long as that or not.
Put(bytes, at) ==
  LET stored == at..(at + Len(bytes) - 1)
  IN [i \in DOMAIN g_buffer \cup stored |->
        IF i \in stored THEN bytes[i - at + 1] ELSE g_buffer[i]]

Take(n) ==
  /\ line' = SubSeq(line, n + 1, Len(line))
  /\ last_byte' = line[n]
  /\ reading' = TRUE

\* Looking for the flag that opens a frame.
skip_to_flag ==
  /\ last_byte # FLAG
  /\ \E n \in Reads(LL_MAX_FRAME_SZ) :
       /\ Take(n)
       /\ g_buffer' = Put(SubSeq(line, 1, n), 1)
  /\ UNCHANGED <<sent, flipped, received>>

\* Mutant: a flag closes a frame or opens one, never both.
Separate(n) == IF line[n] = FLAG /\ n > 1 THEN 0 ELSE line[n]

LastRead(n) == line[n]

\* Mutant: the flag in front is forgotten.
FullBuffer == LL_MAX_FRAME_SZ

\* The buffer behind the flag.
Room == LL_MAX_FRAME_SZ - 1

\* From an opening flag to the next flag. A flag right after a flag opens the
\* frame again; too many bytes without one are dropped.
read_frame ==
  /\ last_byte = FLAG
  /\ \E n \in Reads(Room) :
       LET filled == [Put(SubSeq(line, 1, n), 2) EXCEPT ![1] = FLAG]
       IN /\ line' = SubSeq(line, n + 1, Len(line))
          /\ last_byte' = LastRead(n)
          /\ reading' = TRUE
          /\ g_buffer' = filled
          /\ received' = IF n > 1 /\ line[n] = FLAG
                         THEN Append(received, parse_frame_from_array(Tail(filled)))
                         ELSE received
  /\ UNCHANGED <<sent, flipped>>

-----------------------------------------------------------------------------
Init ==
  /\ sent = <<>>
  /\ line = <<>>
  /\ flipped = <<>>
  /\ g_buffer = [i \in 1..LL_MAX_FRAME_SZ |-> 0]
  /\ last_byte = 0
  /\ reading = FALSE
  /\ received = <<>>

Next ==
  \/ Len(sent) < Len(Frames) /\ \E f \in Frames[Len(sent) + 1] : f_send_frame(f)
  \/ Noisy /\ \E i \in DOMAIN line, bit \in Bits : Flip(i, bit)
  \/ skip_to_flag
  \/ read_frame

Spec == Init /\ [][Next]_vars

-----------------------------------------------------------------------------
\* In particular no read stores anything behind the end of g_buffer.
TypeOK ==
  /\ \A i \in DOMAIN sent : sent[i] \in Frames[i]
  /\ line \in Seq(Byte)
  /\ g_buffer \in [1..LL_MAX_FRAME_SZ -> Byte]
  /\ last_byte \in Byte
  /\ reading \in BOOLEAN

(***************************************************************************)
(* Properties. A frame is expected as it was sent, with its check byte     *)
(* still behind the data: frame.size counts it.                            *)
(***************************************************************************)
AsSent(f) ==
  Good(f.control, IF f.data = <<>> THEN <<>> ELSE Append(f.data, Bcc(f.data)))

AllRead == Len(sent) = Len(Frames) /\ line = <<>>

\* Over a faultless line every frame is received as it was sent, up to the
\* largest payload with every byte of it stuffed; one the caller has no room for
\* is refused.
RoundTrip ==
  AllRead /\ flipped = <<>> =>
    received = [i \in DOMAIN sent |->
                  IF Len(sent[i].data) <= max_data_size
                    THEN AsSent(sent[i]) ELSE Bad(sent[i].control)]

\* The report says that the check bytes verify the integrity of what is received:
\* that the receiver accepts no frame with a flipped bit in it that was not made a
\* flag, by which the frame would be cut. It does not hold: see DetectsDamage.
IntegrityVerified ==
  Len(flipped) <= 1 /\ (\A i \in DOMAIN flipped : flipped[i].byte # FLAG) =>
    \A i \in DOMAIN received :
      received[i].ret = SUCCESS_CODE => \E j \in DOMAIN sent : received[i] = AsSent(sent[j])

\* A flipped bit made no flag, and no escape right before one.
OutsideFlags ==
  \A i \in DOMAIN flipped :
    flipped[i].byte # FLAG /\ ~(flipped[i].byte = BS_ESC /\ flipped[i].next = FLAG)

\* A single flipped bit, wherever it falls, in a header, in data, in an escape or in a
\* flag, never makes the receiver accept what was not sent. There are two
\* exceptions: a bit that makes a flag, since the frame may be cut where the data so
\* far happens to end in its own check byte, and one that makes an escape of the
\* byte before a flag, since the parser then takes the flag for an escaped byte and
\* reads on in what older frames left in the buffer.
DetectsDamage ==
  Len(flipped) <= 1 /\ OutsideFlags =>
    \A i \in DOMAIN received :
      received[i].ret = SUCCESS_CODE => \E j \in DOMAIN sent : received[i] = AsSent(sent[j])

\* Damage to the first frame, its flags included, does not cost the second: the
\* flag that closes one frame may open the next.
Resynchronizes ==
  /\ AllRead
  /\ Len(Frames) = 2
  /\ \A i \in DOMAIN flipped : flipped[i].at <= Len(Built(sent[1]))
  /\ Len(sent[2].data) <= max_data_size
  => received # <<>> /\ Last(received) = AsSent(sent[2])

\* An accepted frame never has more than one byte over the caller's limit: the
\* loop stops there however long the frame is, and whatever damage joins to it.
OneByteOver == \A i \in DOMAIN received : Len(received[i].data) <= max_data_size + 1
=============================================================================
