------------------------- MODULE FileTransferPrefix -------------------------
(***************************************************************************)
(* The debugging build writes nothing but a prefix of the file, for any    *)
(* number of attempts that fit in the sequence numbers, any sizes and any  *)
(* failures: PrefixInv is invariant, and Prefix follows.                   *)
(***************************************************************************)
EXTENDS FileTransferProofs

\* Two numbers that are less than the modulus apart, or one behind, are told apart by
\* what is left of them.
LEMMA NumbersDiffer ==
  ASSUME NEW M \in Nat, M > 1, NEW a \in Nat, NEW c \in Nat,
         a % M = c % M, c <= a + 1, a < c + M
  PROVE  a = c
<1> DEFINE q == a \div M
           p == c \div M
           r == a % M
<1>1. /\ q \in Int /\ p \in Int /\ r \in Nat
      /\ a = M * q + r /\ c = M * p + r
  OBVIOUS
<1> HIDE DEF q, p, r
<1>2. CASE q > p
  <2>1. PICK e \in Nat : q = p + e + 1
    BY <1>1, <1>2
  <2>2. M * q = M * p + M * e + M /\ M * e >= 0
    BY <2>1, <1>1
  <2> QED BY <1>1, <2>2
<1>3. CASE p > q
  <2>1. PICK e \in Nat : p = q + e + 1
    BY <1>1, <1>3
  <2>2. M * p = M * q + M * e + M /\ M * e >= 0
    BY <2>1, <1>1
  <2> QED BY <1>1, <2>2
<1>4. CASE p = q
  BY <1>1, <1>4
<1> QED BY <1>1, <1>2, <1>3, <1>4

\* What the types say of the numbers below.
LEMMA Numbers ==
  ASSUME AllInv
  PROVE  /\ submitted \in Nat /\ sent \in Seq(Packets) /\ Len(sent) = submitted
         /\ \A k \in 1..submitted : sent[k].data \in Seq(Nat)
         /\ delivered \in Seq(1..submitted) /\ Len(delivered) \in Nat
         /\ confirmed \subseteq 1..submitted /\ written \in Seq(Nat)
         /\ outstanding \in BOOLEAN /\ ahead \in BOOLEAN
         /\ snd \in Senders /\ snd.sequence_number \in Nat /\ snd.attempts_left \in Nat
         /\ snd.state \in SND_OPEN_CONNECTION..SND_CLOSE_CONNECTION
         /\ snd.num_data_bytes_sent \in Nat /\ setup.file_size \in Nat
         /\ rcv \in Receivers /\ rcv.sequence_number \in Nat /\ rcv.attempts_left \in Nat
         /\ max_receive_attempts - rcv.attempts_left \in Nat
<1>1. DataTypes /\ ServiceTypes /\ snd \in Senders /\ rcv \in Receivers /\ written \in Seq(Nat)
  BY Types DEF AllInv
<1>2. /\ submitted \in Nat /\ sent \in Seq(Packets) /\ Len(sent) = submitted
      /\ delivered \in Seq(1..submitted) /\ Len(delivered) \in Nat
      /\ confirmed \subseteq 1..submitted
      /\ outstanding \in BOOLEAN /\ ahead \in BOOLEAN
  BY <1>1 DEF DataTypes, ServiceTypes
<1>3. \A k \in 1..submitted : sent[k].data \in Seq(Nat)
  <2>1. \A k \in 1..submitted : sent[k] \in Packets
    BY <1>2
  <2> QED BY <2>1 DEF Packets
<1>4. setup.file_size \in Nat
  BY <1>1, SizesAssumption DEF DataTypes
<1>5. /\ snd.sequence_number \in Nat /\ snd.attempts_left \in Nat
      /\ snd.state \in SND_OPEN_CONNECTION..SND_CLOSE_CONNECTION
      /\ snd.num_data_bytes_sent \in Nat
  BY <1>1, <1>4, AttemptsAssumption DEF Senders
<1>6. /\ rcv.sequence_number \in Nat /\ rcv.attempts_left \in Nat
      /\ max_receive_attempts - rcv.attempts_left \in Nat
  BY <1>1, AttemptsAssumption DEF Receivers
<1> QED BY <1>1, <1>2, <1>3, <1>4, <1>5, <1>6

\* The part of the invariant that is there for one b.
Inv(b) == SentInv(b) /\ TakenInv(b) /\ GapInv(b)

-----------------------------------------------------------------------------
(* The transmitter's steps.                                                *)

\* A step that writes no packet, and knows its start packet confirmed.
Unsent(b) ==
  /\ UNCHANGED <<setup, sent, submitted>>
  /\ snd'.sequence_number = snd.sequence_number
  /\ snd'.num_data_bytes_sent = snd.num_data_bytes_sent
  /\ snd'.state \in SND_OPEN_CONNECTION..SND_DATA_PACKETS =>
       snd.state \in SND_OPEN_CONNECTION..SND_DATA_PACKETS
  /\ snd'.state \in SND_OPEN_CONNECTION..SND_START_CONTROL_PACKET =>
       snd.state \in SND_OPEN_CONNECTION..SND_START_CONTROL_PACKET
  /\ snd'.state \in SND_DATA_PACKETS..SND_CLOSE_CONNECTION => b \in confirmed'

\* The packets are the same ones then.
LEMMA SentSame ==
  ASSUME NEW b \in 0..submitted, SentInv(b), Unsent(b)
  PROVE  SentInv(b)' /\ \A s \in Nat : Upto(b, s)' = Upto(b, s)
BY DEF SentInv, Upto, Unsent

\* An attempt is lost in which nothing was written;
Failed ==
  /\ snd' = retry(snd) /\ snd.ret = Running /\ outstanding' = FALSE
  /\ UNCHANGED <<setup, sent, submitted, rcv, delivered, written, confirmed, ahead>>

\* or there are no more data packets.
AllSent ==
  /\ Sending(SND_DATA_PACKETS)
  /\ snd' = Advance(snd, SND_CLOSE_CONTROL_PACKET, max_send_attempts)
  /\ UNCHANGED <<setup, rcv, written, sent, linkvars>>

\* Steps that write no packet, and nothing of the receiver's.
LEMMA UnsentSteps ==
  ASSUME AllInv, NEW b \in 0..submitted, SentInv(b),
         llopen \/ Failed \/ AllSent \/ write_confirmed \/ send_llclose
  PROVE  Unsent(b) /\ UNCHANGED <<rcv, delivered, written>>
<1>1. /\ snd \in Senders /\ snd.sequence_number \in Nat /\ b \in Nat
  BY Numbers
<1>2. CASE llopen
  <2>1. /\ snd.state = SND_OPEN_CONNECTION
        /\ UNCHANGED <<setup, sent, submitted, rcv, delivered, written>>
    BY <1>2 DEF llopen, Sending, linkvars
  <2>2. /\ snd'.state \in {SND_OPEN_CONNECTION, SND_START_CONTROL_PACKET}
        /\ snd'.sequence_number = snd.sequence_number
        /\ snd'.num_data_bytes_sent = snd.num_data_bytes_sent
    BY <1>1, <1>2, <2>1 DEF llopen, retry, Advance, Senders
  <2> QED BY <2>1, <2>2 DEF Unsent, SND_OPEN_CONNECTION, SND_START_CONTROL_PACKET,
             SND_DATA_PACKETS, SND_CLOSE_CONNECTION
<1>3. CASE Failed
  <2>1. /\ snd'.state = snd.state /\ snd'.sequence_number = snd.sequence_number
        /\ snd'.num_data_bytes_sent = snd.num_data_bytes_sent
    BY <1>1, <1>3 DEF Failed, retry, Senders
  <2> QED BY <1>3, <2>1 DEF Failed, Unsent, SentInv
<1>4. CASE AllSent
  <2>1. /\ snd'.state = SND_CLOSE_CONTROL_PACKET /\ snd.state = SND_DATA_PACKETS
        /\ snd'.sequence_number = snd.sequence_number
        /\ snd'.num_data_bytes_sent = snd.num_data_bytes_sent
        /\ UNCHANGED <<setup, sent, submitted, rcv, delivered, written, confirmed>>
    BY <1>1, <1>4 DEF AllSent, Advance, Senders, Sending, linkvars
  <2>2. b \in confirmed'
    BY <2>1 DEF SentInv, SND_DATA_PACKETS, SND_CLOSE_CONNECTION
  <2> QED BY <2>1, <2>2 DEF Unsent, SND_OPEN_CONNECTION, SND_START_CONTROL_PACKET,
             SND_DATA_PACKETS, SND_CLOSE_CONTROL_PACKET
<1>5. CASE write_confirmed
  <2>1. /\ outstanding /\ confirmed' = confirmed \cup {submitted}
        /\ UNCHANGED <<setup, sent, submitted, rcv, delivered, written>>
    BY <1>5 DEF write_confirmed, Link!Confirm
  <2>2. snd.state \in SND_START_CONTROL_PACKET..SND_CLOSE_CONTROL_PACKET
    BY <2>1 DEF AllInv, FileInv, WriteInv
  <2>3. CASE snd.state = SND_START_CONTROL_PACKET
    <3>1. snd' = Advance(snd, SND_DATA_PACKETS, max_send_attempts)
      BY <1>5, <2>3 DEF write_confirmed, SND_START_CONTROL_PACKET, SND_CLOSE_CONTROL_PACKET
    <3>2. /\ snd'.state = SND_DATA_PACKETS /\ snd'.sequence_number = snd.sequence_number
          /\ snd'.num_data_bytes_sent = snd.num_data_bytes_sent
      BY <1>1, <3>1 DEF Advance, Senders
    <3>3. submitted = b
      BY <1>1, <2>3 DEF SentInv, SND_OPEN_CONNECTION, SND_START_CONTROL_PACKET, SND_DATA_PACKETS
    <3> QED BY <2>1, <2>3, <3>2, <3>3 DEF Unsent, SND_OPEN_CONNECTION,
               SND_START_CONTROL_PACKET, SND_DATA_PACKETS
  <2>4. CASE snd.state # SND_START_CONTROL_PACKET
    <3>1. /\ snd.state = SND_CLOSE_CONTROL_PACKET => snd'.state = SND_CLOSE_CONNECTION
          /\ snd.state # SND_CLOSE_CONTROL_PACKET => snd' = snd
          /\ snd'.sequence_number = snd.sequence_number
          /\ snd'.num_data_bytes_sent = snd.num_data_bytes_sent
      BY <1>1, <1>5, <2>4 DEF write_confirmed, Advance, Senders
    <3>2. snd.state \in {SND_DATA_PACKETS, SND_CLOSE_CONTROL_PACKET}
      BY <2>2, <2>4 DEF SND_START_CONTROL_PACKET, SND_DATA_PACKETS, SND_CLOSE_CONTROL_PACKET
    <3>3. b \in confirmed'
      BY <2>1, <3>2 DEF SentInv, SND_DATA_PACKETS, SND_CLOSE_CONTROL_PACKET, SND_CLOSE_CONNECTION
    <3> QED BY <2>1, <3>1, <3>2, <3>3 DEF Unsent, SND_OPEN_CONNECTION, SND_START_CONTROL_PACKET,
               SND_DATA_PACKETS, SND_CLOSE_CONTROL_PACKET, SND_CLOSE_CONNECTION
  <2> QED BY <2>3, <2>4
<1>6. CASE send_llclose
  <2>1. /\ snd.state = SND_CLOSE_CONNECTION
        /\ UNCHANGED <<setup, sent, submitted, rcv, delivered, written, confirmed>>
    BY <1>6 DEF send_llclose, Sending, linkvars
  <2>2. /\ snd'.state \in {SND_CLOSE_CONTROL_PACKET, SND_CLOSE_CONNECTION}
        /\ snd'.sequence_number = snd.sequence_number
        /\ snd'.num_data_bytes_sent = snd.num_data_bytes_sent
    BY <1>1, <1>6, <2>1 DEF send_llclose, retry, Senders, AfterFailedClose,
       RCV_CLOSE_CONNECTION, SND_CLOSE_CONTROL_PACKET
  <2>3. b \in confirmed'
    BY <2>1 DEF SentInv, SND_DATA_PACKETS, SND_CLOSE_CONNECTION
  <2> QED BY <2>1, <2>2, <2>3 DEF Unsent, SND_OPEN_CONNECTION, SND_START_CONTROL_PACKET,
             SND_DATA_PACKETS, SND_CLOSE_CONTROL_PACKET, SND_CLOSE_CONNECTION
<1> QED BY <1>2, <1>3, <1>4, <1>5, <1>6

\* A step of the transmitter's does not disturb what the receiver has taken.
LEMMA TakenSame ==
  ASSUME AllInv, AllInv', NEW b \in Nat, NEW c \in Nat, TakenInv(b),
         UNCHANGED <<setup, rcv, delivered, written>>,
         snd.sequence_number <= snd'.sequence_number,
         c = b \/ rcv.sequence_number = 0,
         Upto(c, rcv.sequence_number)' = Upto(b, rcv.sequence_number)
  PROVE  TakenInv(c)'
<1>1. rcv.sequence_number <= snd'.sequence_number
  <2>1. /\ rcv.sequence_number \in Nat /\ snd.sequence_number \in Nat
        /\ rcv.sequence_number <= snd.sequence_number
    BY Numbers DEF TakenInv
  <2>2. snd'.sequence_number \in Nat
    BY Types DEF AllInv, TypeOK
  <2> QED BY <2>1, <2>2
<1> QED BY <1>1 DEF TakenInv

\* How far behind the receiver is does not change if the bound does not.
LEMMA GapSame ==
  ASSUME AllInv, NEW b \in Nat, GapInv(b), UNCHANGED <<rcv, delivered>>,
         \A refused \in Nat : Behind(refused) => Behind(refused)'
  PROVE  GapInv(b)'
<1>1. max_receive_attempts - rcv.attempts_left \in Nat
  BY Numbers
<1> QED BY <1>1 DEF GapInv

\* A step that writes no packet keeps the invariant if it comes no nearer to the limit.
LEMMA UnsentKeeps ==
  ASSUME AllInv, AllInv', NEW b \in 0..submitted, Inv(b),
         llopen \/ Failed \/ AllSent \/ write_confirmed \/ send_llclose,
         \A refused \in Nat : Behind(refused) => Behind(refused)'
  PROVE  Inv(b)'
<1>1. b \in Nat /\ rcv.sequence_number \in Nat
  BY Numbers
<1>2. Unsent(b) /\ UNCHANGED <<rcv, delivered, written>>
  BY UnsentSteps DEF Inv
<1>3. SentInv(b)' /\ \A s \in Nat : Upto(b, s)' = Upto(b, s)
  BY <1>2, SentSame DEF Inv
<1>4. TakenInv(b)'
  <2>1. PICK r \in Nat : r = rcv.sequence_number
    BY <1>1
  <2>2. Upto(b, rcv.sequence_number)' = Upto(b, rcv.sequence_number)
    BY <1>2, <1>3, <2>1
  <2>3. snd.sequence_number <= snd'.sequence_number /\ UNCHANGED <<setup, rcv, delivered, written>>
    BY <1>2, Numbers DEF Unsent
  <2> QED BY <1>1, <2>2, <2>3, TakenSame DEF Inv
<1>5. GapInv(b)'
  BY <1>1, <1>2, GapSame DEF Inv
<1> QED BY <1>3, <1>4, <1>5 DEF Inv

\* An attempt to connect: nothing was written yet.
LEMMA ConnectPrefix ==
  ASSUME AllInv, AllInv', NEW b \in 0..submitted, Inv(b), llopen
  PROVE  Inv(b)'
<1>1. snd \in Senders /\ snd.state = SND_OPEN_CONNECTION
  BY Numbers DEF llopen, Sending
<1>2. snd'.state \in {SND_OPEN_CONNECTION, SND_START_CONTROL_PACKET}
  BY <1>1 DEF llopen, retry, Advance, Senders
<1>3. \A refused \in Nat : Behind(refused)'
  BY <1>2 DEF Behind, SND_OPEN_CONNECTION, SND_START_CONTROL_PACKET, SND_DATA_PACKETS,
     SND_CLOSE_CONTROL_PACKET, SND_CLOSE_CONNECTION
<1> QED BY <1>3, UnsentKeeps

\* An attempt lost in which nothing was written.
LEMMA FailurePrefix ==
  ASSUME AllInv, AllInv', NEW b \in 0..submitted, Inv(b), Failed
  PROVE  Inv(b)'
<1>1. /\ snd \in Senders /\ snd.attempts_left > 0
      /\ snd.attempts_left \in Nat /\ snd.sequence_number \in Nat
      /\ rcv.sequence_number \in Nat
      /\ outstanding' = FALSE /\ UNCHANGED <<rcv, ahead>>
  BY Numbers DEF Failed, AllInv, FileInv, WriteInv
<1>2. /\ snd'.state = snd.state /\ snd'.attempts_left = snd.attempts_left - 1
      /\ snd'.sequence_number = snd.sequence_number
  BY <1>1 DEF Failed, retry, Senders
<1>3. \A refused \in Nat : Behind(refused) => Behind(refused)'
  <2> SUFFICES ASSUME NEW refused \in Nat, Behind(refused)
               PROVE  Behind(refused)'
    OBVIOUS
  <2>1. ASSUME snd.state = SND_DATA_PACKETS
        PROVE  snd'.sequence_number + (IF ahead' THEN 1 ELSE 0) + snd'.attempts_left
                 <= rcv'.sequence_number + refused + max_send_attempts
                      + (IF outstanding' THEN 1 ELSE 0)
    <3>1. snd.sequence_number + (IF ahead THEN 1 ELSE 0) + snd.attempts_left
            <= rcv.sequence_number + refused + max_send_attempts
                 + (IF outstanding THEN 1 ELSE 0)
      BY <2>1 DEF Behind
    <3> QED BY <1>1, <1>2, <3>1, AttemptsAssumption
  <2> QED BY <1>1, <1>2, <2>1 DEF Behind
<1> QED BY <1>3, UnsentKeeps

\* The end of the data packets.
LEMMA AllSentPrefix ==
  ASSUME AllInv, AllInv', NEW b \in 0..submitted, Inv(b), AllSent
  PROVE  Inv(b)'
<1>1. /\ snd \in Senders /\ snd.state = SND_DATA_PACKETS /\ outstanding = FALSE
      /\ snd.attempts_left \in Nat /\ snd.sequence_number \in Nat
      /\ rcv.sequence_number \in Nat /\ rcv' = rcv
  BY Numbers DEF AllSent, Sending
<1>2. /\ snd'.state = SND_CLOSE_CONTROL_PACKET
      /\ snd'.sequence_number = snd.sequence_number
  BY <1>1 DEF AllSent, Advance, Senders
<1>3. \A refused \in Nat : Behind(refused) => Behind(refused)'
  <2> SUFFICES ASSUME NEW refused \in Nat, Behind(refused)
               PROVE  Behind(refused)'
    OBVIOUS
  <2>1. snd.sequence_number + (IF ahead THEN 1 ELSE 0) + snd.attempts_left
          <= rcv.sequence_number + refused + max_send_attempts
               + (IF outstanding THEN 1 ELSE 0)
    BY <1>1 DEF Behind
  <2>2. snd.sequence_number <= rcv.sequence_number + refused + max_send_attempts
    BY <1>1, <2>1, AttemptsAssumption
  <2>3. SND_CLOSE_CONTROL_PACKET # SND_DATA_PACKETS
    BY DEF SND_CLOSE_CONTROL_PACKET, SND_DATA_PACKETS
  <2> QED BY <1>1, <1>2, <2>2, <2>3 DEF Behind
<1> QED BY <1>3, UnsentKeeps

\* A confirmation takes up a delivery.
LEMMA ConfirmedPrefix ==
  ASSUME AllInv, AllInv', NEW b \in 0..submitted, Inv(b), write_confirmed
  PROVE  Inv(b)'
<1>1. /\ outstanding /\ outstanding' = FALSE /\ ahead /\ ahead' = FALSE /\ rcv' = rcv
  BY DEF write_confirmed, Link!Confirm
<1>2. /\ snd \in Senders
      /\ snd.state \in SND_START_CONTROL_PACKET..SND_CLOSE_CONTROL_PACKET
      /\ snd.attempts_left \in Nat /\ snd.sequence_number \in Nat
      /\ rcv.sequence_number \in Nat
  BY <1>1, Numbers DEF AllInv, FileInv, WriteInv
<1>3. \A refused \in Nat : Behind(refused) => Behind(refused)'
  <2> SUFFICES ASSUME NEW refused \in Nat, Behind(refused)
               PROVE  Behind(refused)'
    OBVIOUS
  <2>1. CASE snd.state = SND_START_CONTROL_PACKET
    <3>1. snd' = Advance(snd, SND_DATA_PACKETS, max_send_attempts)
      BY <2>1 DEF write_confirmed, SND_START_CONTROL_PACKET, SND_CLOSE_CONTROL_PACKET
    <3>2. /\ snd'.state = SND_DATA_PACKETS /\ snd'.attempts_left = max_send_attempts
          /\ snd'.sequence_number = snd.sequence_number
      BY <1>2, <3>1 DEF Advance, Senders
    <3>3. snd.sequence_number = 0
      BY <2>1 DEF Inv, SentInv, SND_OPEN_CONNECTION, SND_START_CONTROL_PACKET
    <3> QED BY <1>1, <1>2, <3>2, <3>3, AttemptsAssumption DEF Behind, SND_DATA_PACKETS,
               SND_CLOSE_CONTROL_PACKET, SND_CLOSE_CONNECTION
  <2>2. CASE snd.state = SND_DATA_PACKETS
    <3>1. snd' = snd
      BY <2>2 DEF write_confirmed, SND_START_CONTROL_PACKET, SND_DATA_PACKETS,
         SND_CLOSE_CONTROL_PACKET
    <3>2. snd.sequence_number + 1 + snd.attempts_left
            <= rcv.sequence_number + refused + max_send_attempts + 1
      BY <1>1, <2>2 DEF Behind
    <3>3. snd.sequence_number + 0 + snd.attempts_left
            <= rcv.sequence_number + refused + max_send_attempts + 0
      BY <1>2, <3>2, AttemptsAssumption
    <3> QED BY <1>1, <2>2, <3>1, <3>3 DEF Behind, SND_DATA_PACKETS,
               SND_CLOSE_CONTROL_PACKET, SND_CLOSE_CONNECTION
  <2>3. CASE snd.state = SND_CLOSE_CONTROL_PACKET
    <3>1. snd' = Advance(snd, SND_CLOSE_CONNECTION, max_send_attempts)
      BY <2>3 DEF write_confirmed, SND_START_CONTROL_PACKET, SND_CLOSE_CONTROL_PACKET
    <3>2. /\ snd'.state = SND_CLOSE_CONNECTION
          /\ snd'.sequence_number = snd.sequence_number
      BY <1>2, <3>1 DEF Advance, Senders
    <3> QED BY <1>1, <2>3, <3>2 DEF Behind, SND_DATA_PACKETS, SND_CLOSE_CONTROL_PACKET,
               SND_CLOSE_CONNECTION
  <2>4. snd.state \in {SND_START_CONTROL_PACKET, SND_DATA_PACKETS, SND_CLOSE_CONTROL_PACKET}
    BY <1>2 DEF SND_START_CONTROL_PACKET, SND_DATA_PACKETS, SND_CLOSE_CONTROL_PACKET
  <2> QED BY <2>1, <2>2, <2>3, <2>4
<1> QED BY <1>3, UnsentKeeps

\* llclose, which may lead back to the end packet.
LEMMA ClosePrefix ==
  ASSUME AllInv, AllInv', NEW b \in 0..submitted, Inv(b), send_llclose
  PROVE  Inv(b)'
<1>1. snd \in Senders /\ snd.state = SND_CLOSE_CONNECTION /\ rcv' = rcv
  BY Numbers DEF send_llclose, Sending
<1>2. /\ snd'.state \in {SND_CLOSE_CONTROL_PACKET, SND_CLOSE_CONNECTION}
      /\ snd'.sequence_number = snd.sequence_number
  BY <1>1 DEF send_llclose, retry, Senders, AfterFailedClose, RCV_CLOSE_CONNECTION,
     SND_CLOSE_CONTROL_PACKET
<1>3. \A refused \in Nat : Behind(refused) => Behind(refused)'
  BY <1>1, <1>2 DEF Behind, SND_DATA_PACKETS, SND_CLOSE_CONTROL_PACKET, SND_CLOSE_CONNECTION
<1> QED BY <1>3, UnsentKeeps

\* Packet p was written by a transmitter that is in the same state afterwards.
Wrote(p) ==
  /\ outstanding = FALSE
  /\ submitted' = submitted + 1
  /\ UNCHANGED <<setup, rcv, written, delivered, confirmed, ahead>>
  /\ sent'[submitted'] = p
  /\ \A k \in 1..submitted : sent'[k] = sent[k]
  /\ snd'.state = snd.state

StandsStill ==
  /\ snd'.sequence_number = snd.sequence_number
  /\ snd'.num_data_bytes_sent = snd.num_data_bytes_sent

\* The data packets are the same ones then.
LEMMA UptoSame ==
  ASSUME AllInv, NEW b \in Nat, NEW p, Wrote(p), NEW s \in Nat, b + s <= submitted
  PROVE  Upto(b, s)' = Upto(b, s) /\ (s > 0 => sent'[b + s] = sent[b + s])
<1>1. s > 0 => b + s \in 1..submitted
  BY Numbers
<1> QED BY <1>1 DEF Upto, Wrote

\* One more start packet,
WroteStart(p) ==
  /\ Wrote(p) /\ p.field = control_field_start
  /\ snd.state = SND_START_CONTROL_PACKET /\ StandsStill

\* of which only those were written before.
LEMMA StartSent ==
  ASSUME AllInv, NEW b \in 0..submitted, SentInv(b), NEW p, WroteStart(p)
  PROVE  /\ (b + 1) \in 0..submitted' /\ SentInv(b + 1)'
         /\ snd.sequence_number = 0 /\ snd'.sequence_number = 0 /\ submitted = b
<1>1. PICK c \in Nat : c = b + 1
  BY Numbers
<1>2. /\ snd.state \in SND_OPEN_CONNECTION..SND_START_CONTROL_PACKET
      /\ snd.state \in SND_OPEN_CONNECTION..SND_DATA_PACKETS
      /\ snd.state \notin SND_DATA_PACKETS..SND_CLOSE_CONNECTION
  BY DEF WroteStart, SND_OPEN_CONNECTION, SND_START_CONTROL_PACKET, SND_DATA_PACKETS,
     SND_CLOSE_CONNECTION
<1>3. /\ snd.sequence_number = 0 /\ submitted = b /\ b \in Nat /\ snd.num_data_bytes_sent = 0
  BY <1>2, Numbers DEF SentInv, Upto
<1>4. c = submitted' /\ submitted' \in Nat
  BY <1>1, <1>3 DEF WroteStart, Wrote
<1>5. SentInv(c)'
  <2>1. \A k \in 1..submitted' : sent'[k].field = control_field_start /\ k <= c
    <3>1. \A k \in 1..submitted : sent[k].field = control_field_start
      BY <1>3 DEF SentInv
    <3>2. \A k \in 1..submitted : sent'[k].field = control_field_start
      BY <3>1 DEF WroteStart, Wrote
    <3>3. sent'[submitted'].field = control_field_start
      BY DEF WroteStart, Wrote
    <3>4. \A k \in 1..submitted' : k \in 1..submitted \/ k = submitted'
      BY <1>1, <1>3, <1>4
    <3> QED BY <1>4, <3>2, <3>3, <3>4
  <2>2. snd'.state = snd.state /\ snd'.sequence_number = 0 /\ snd'.num_data_bytes_sent = 0
    BY <1>3 DEF WroteStart, Wrote, StandsStill
  <2>3. Upto(c, snd.sequence_number)' = 0
    BY <2>2 DEF Upto
  <2>4. \A k \in 1..submitted' :
          sent'[k].field = IF k <= c THEN control_field_start
                           ELSE IF k <= c + snd'.sequence_number THEN control_field_data
                           ELSE control_field_end
    BY <2>1
  <2>5. /\ c + snd'.sequence_number <= submitted' /\ submitted' = c + snd'.sequence_number
        /\ 1..snd'.sequence_number = {}
    BY <1>1, <1>4, <2>2
  <2>6. Upto(c, snd.sequence_number)' = snd'.num_data_bytes_sent
    BY <2>2, <2>3
  <2>7. snd'.state \notin SND_DATA_PACKETS..SND_CLOSE_CONNECTION
    BY <1>2, <2>2
  <2> QED BY <2>2, <2>4, <2>5, <2>6, <2>7 DEF SentInv
<1>6. c \in 0..submitted' /\ SentInv(c)' /\ snd'.sequence_number = 0
  BY <1>3, <1>4, <1>5 DEF WroteStart, StandsStill
<1> QED BY <1>1, <1>3, <1>6

\* The receiver has nothing then that a start packet could move.
LEMMA StartPrefix ==
  ASSUME AllInv, AllInv', NEW b \in 0..submitted, Inv(b), NEW p, WroteStart(p)
  PROVE  (b + 1) \in 0..submitted' /\ Inv(b + 1)'
<1>1. PICK c \in Nat : c = b + 1
  BY Numbers
<1>2. /\ c \in 0..submitted' /\ SentInv(c)'
      /\ snd.sequence_number = 0 /\ snd'.sequence_number = 0
      /\ b \in Nat /\ rcv.sequence_number = 0
      /\ UNCHANGED <<setup, rcv, delivered, written>>
  <2>1. /\ c \in 0..submitted' /\ SentInv(c)'
        /\ snd.sequence_number = 0 /\ snd'.sequence_number = 0
    BY <1>1, StartSent DEF Inv
  <2> QED BY <2>1, Numbers DEF Inv, TakenInv, WroteStart, Wrote
<1>3. TakenInv(c)'
  <2>1. Upto(c, rcv.sequence_number)' = Upto(b, rcv.sequence_number)
    BY <1>2 DEF Upto
  <2>2. snd.sequence_number <= snd'.sequence_number
    BY <1>2
  <2> QED BY <1>1, <1>2, <2>1, <2>2, TakenSame DEF Inv
<1>4. GapInv(c)'
  <2>1. \A refused \in Nat : Behind(refused)'
    BY DEF WroteStart, Wrote, Behind, SND_START_CONTROL_PACKET, SND_DATA_PACKETS,
       SND_CLOSE_CONTROL_PACKET, SND_CLOSE_CONNECTION
  <2>2. (max_receive_attempts - rcv.attempts_left) \in Nat /\ rcv' = rcv
    BY <1>2, Numbers
  <2> QED BY <2>1, <2>2 DEF GapInv
<1>5. c \in 0..submitted' /\ Inv(c)'
  BY <1>2, <1>3, <1>4 DEF Inv
<1> QED BY <1>1, <1>5

\* A packet behind the start packets: the fields and bytes of the packets before it
\* are what they were.
LEMMA SentBefore ==
  ASSUME AllInv, NEW b \in 0..submitted, SentInv(b), NEW p, Wrote(p)
  PROVE  /\ \A k \in 1..submitted :
              sent'[k].field = IF k <= b THEN control_field_start
                               ELSE IF k <= b + snd.sequence_number THEN control_field_data
                               ELSE control_field_end
         /\ \A s \in 0..snd.sequence_number : Upto(b, s)' = Upto(b, s)
         /\ \A s \in 1..snd.sequence_number :
              LET d == sent'[b + s].data
              IN /\ sent'[b + s].seq = (s - 1) % sequence_number_modulus
                 /\ d # <<>> /\ \A i \in DOMAIN d : d[i] = Upto(b, s - 1)' + i
                 /\ Upto(b, s)' <= setup'.file_size
<1>1. /\ b \in Nat /\ submitted \in Nat /\ snd.sequence_number \in Nat
      /\ b + snd.sequence_number <= submitted
  BY Numbers DEF SentInv
<1>2. \A s \in 0..snd.sequence_number :
        Upto(b, s)' = Upto(b, s) /\ (s > 0 => sent'[b + s] = sent[b + s])
  <2> SUFFICES ASSUME NEW s \in 0..snd.sequence_number
               PROVE  Upto(b, s)' = Upto(b, s) /\ (s > 0 => sent'[b + s] = sent[b + s])
    OBVIOUS
  <2>1. s \in Nat /\ b + s <= submitted
    BY <1>1
  <2> QED BY <1>1, <2>1, UptoSame
<1>3. ASSUME NEW s \in 1..snd.sequence_number
      PROVE  /\ sent'[b + s].seq = (s - 1) % sequence_number_modulus
             /\ sent'[b + s].data # <<>>
             /\ \A i \in DOMAIN sent'[b + s].data :
                  sent'[b + s].data[i] = Upto(b, s - 1)' + i
             /\ Upto(b, s)' <= setup'.file_size
  <2>1. s \in 0..snd.sequence_number /\ s - 1 \in 0..snd.sequence_number /\ s > 0
    BY <1>1
  <2>2. /\ sent'[b + s] = sent[b + s] /\ Upto(b, s)' = Upto(b, s)
        /\ Upto(b, s - 1)' = Upto(b, s - 1) /\ setup' = setup
    BY <1>2, <2>1 DEF Wrote
  <2> QED BY <2>2 DEF SentInv
<1>4. \A k \in 1..submitted :
        sent'[k].field = IF k <= b THEN control_field_start
                         ELSE IF k <= b + snd.sequence_number THEN control_field_data
                         ELSE control_field_end
  BY DEF SentInv, Wrote
<1> QED BY <1>2, <1>3, <1>4

\* One more end packet.
WroteEnd(p) ==
  /\ Wrote(p) /\ p.field = control_field_end
  /\ snd.state = SND_CLOSE_CONTROL_PACKET /\ StandsStill

LEMMA EndSent ==
  ASSUME AllInv, NEW b \in 0..submitted, SentInv(b), NEW p, WroteEnd(p)
  PROVE  SentInv(b)' /\ b \in 0..submitted'
<1>1. /\ snd.state \notin SND_OPEN_CONNECTION..SND_DATA_PACKETS
      /\ snd.state \notin SND_OPEN_CONNECTION..SND_START_CONTROL_PACKET
      /\ snd.state \in SND_DATA_PACKETS..SND_CLOSE_CONNECTION
  BY DEF WroteEnd, SND_OPEN_CONNECTION, SND_START_CONTROL_PACKET, SND_DATA_PACKETS,
     SND_CLOSE_CONTROL_PACKET, SND_CLOSE_CONNECTION
<1>2. /\ b \in Nat /\ submitted \in Nat /\ snd.sequence_number \in Nat
      /\ b + snd.sequence_number <= submitted /\ submitted' = submitted + 1
  BY Numbers DEF SentInv, WroteEnd, Wrote
<1>3. SentInv(b)'
  <2>1. /\ snd'.sequence_number = snd.sequence_number /\ snd'.state = snd.state
        /\ b + snd'.sequence_number <= submitted' /\ b \in confirmed'
    BY <1>1, <1>2 DEF SentInv, WroteEnd, Wrote, StandsStill
  <2>2. \A k \in 1..submitted' :
          sent'[k].field = IF k <= b THEN control_field_start
                           ELSE IF k <= b + snd'.sequence_number THEN control_field_data
                           ELSE control_field_end
    <3>1. \A k \in 1..submitted' : k \in 1..submitted \/ k = submitted + 1
      BY <1>2 DEF WroteEnd, Wrote
    <3>2. sent'[submitted + 1].field = control_field_end
      BY DEF WroteEnd, Wrote
    <3>3. ~(submitted + 1 <= b) /\ ~(submitted + 1 <= b + snd.sequence_number)
      BY <1>2
    <3> QED BY <1>2, <2>1, <3>1, <3>2, <3>3, SentBefore DEF WroteEnd
  <2>3. Upto(b, snd.sequence_number)' = snd'.num_data_bytes_sent
    <3>1. PICK n \in 0..snd.sequence_number : n = snd.sequence_number
      BY <1>2
    <3>2. Upto(b, n)' = Upto(b, n)
      BY <1>2, SentBefore DEF WroteEnd
    <3>3. Upto(b, n) = snd'.num_data_bytes_sent
      BY <1>2, <3>1 DEF SentInv, WroteEnd, StandsStill
    <3>4. snd'.sequence_number = n
      BY <2>1, <3>1
    <3> QED BY <3>2, <3>3, <3>4
  <2>4. \A s \in 1..snd'.sequence_number :
          LET d == sent'[b + s].data
          IN /\ sent'[b + s].seq = (s - 1) % sequence_number_modulus
             /\ d # <<>> /\ \A i \in DOMAIN d : d[i] = Upto(b, s - 1)' + i
             /\ Upto(b, s)' <= setup'.file_size
    BY <1>2, <2>1, SentBefore DEF WroteEnd
  <2> QED BY <1>1, <2>1, <2>2, <2>3, <2>4 DEF SentInv
<1> QED BY <1>2, <1>3

\* The receiver has none of what was written behind the packets it has.
LEMMA TakenBefore ==
  ASSUME AllInv, AllInv', NEW b \in 0..submitted, Inv(b), NEW p, Wrote(p),
         snd.sequence_number <= snd'.sequence_number
  PROVE  TakenInv(b)'
<1>1. b \in Nat /\ rcv.sequence_number \in 0..snd.sequence_number /\ rcv' = rcv
  BY Numbers DEF Inv, TakenInv, Wrote
<1>2. Upto(b, rcv.sequence_number)' = Upto(b, rcv.sequence_number)
  <2>1. \A s \in 0..snd.sequence_number : Upto(b, s)' = Upto(b, s)
    BY SentBefore DEF Inv
  <2> QED BY <1>1, <2>1
<1>3. UNCHANGED <<setup, rcv, delivered, written>>
  BY DEF Wrote
<1> QED BY <1>1, <1>2, <1>3, TakenSame DEF Inv

LEMMA EndPrefix ==
  ASSUME AllInv, AllInv', NEW b \in 0..submitted, Inv(b), NEW p, WroteEnd(p)
  PROVE  Inv(b)' /\ b \in 0..submitted'
<1>1. SentInv(b)' /\ b \in 0..submitted' /\ b \in Nat
  BY EndSent, Numbers DEF Inv
<1>2. TakenInv(b)'
  BY TakenBefore, Numbers DEF WroteEnd, StandsStill
<1>3. GapInv(b)'
  <2>1. \A refused \in Nat : Behind(refused) => Behind(refused)'
    BY DEF WroteEnd, Wrote, StandsStill, Behind, SND_DATA_PACKETS, SND_CLOSE_CONTROL_PACKET,
       SND_CLOSE_CONNECTION
  <2>2. UNCHANGED <<rcv, delivered>>
    BY DEF WroteEnd, Wrote
  <2> QED BY <1>1, <2>1, <2>2, GapSame DEF Inv
<1> QED BY <1>1, <1>2, <1>3 DEF Inv

\* The bytes of a data packet: a chunk of the file, from the position on.
IsChunk(d, n) ==
  \E k \in 1..(setup.file_size - n) :
    /\ k = data_bytes_to_send(n) /\ Len(d) = k /\ d # <<>>
    /\ DOMAIN d = 1..k /\ \A i \in 1..k : d[i] = n + i

\* A data packet holds the chunk that is next, and no chunk is empty.
LEMMA ChunkBytes ==
  ASSUME NEW size \in Nat, setup.file_size = size, NEW n \in Nat, n < size, NEW s \in Nat
  PROVE  IsChunk(DataPacket(n, s).data, n)
<1>1. PICK k \in 1..(size - n) : k = data_bytes_to_send(n)
  BY ChunkFits
<1>2. file \in Seq(Nat) /\ Len(file) = size /\ \A i \in 1..size : file[i] = i
  BY DEF file
<1>3. PICK d : d = DataPacket(n, s).data /\ d = SubSeq(file, n + 1, n + k)
  BY <1>1 DEF DataPacket
<1>4. Len(d) = k /\ DOMAIN d = 1..k /\ \A i \in 1..k : d[i] = file[n + i]
  BY <1>2, <1>3
<1>5. \A i \in 1..k : n + i \in 1..size
  OBVIOUS
<1>6. \A i \in 1..k : d[i] = n + i
  BY <1>2, <1>4, <1>5
<1>7. d # <<>>
  BY <1>4
<1> QED BY <1>1, <1>3, <1>4, <1>6, <1>7 DEF IsChunk

\* How the machine moves on with packet p: a write that fails at once costs an attempt.
MovesOn(n) ==
  /\ snd'.sequence_number = snd.sequence_number + 1
  /\ snd'.num_data_bytes_sent = n
  /\ snd'.attempts_left = IF outstanding' THEN snd.attempts_left ELSE snd.attempts_left - 1

\* One more data packet.
WroteData(p, n) ==
  /\ Wrote(p) /\ p = DataPacket(n, snd.sequence_number)
  /\ snd.state = SND_DATA_PACKETS
  /\ n = snd.num_data_bytes_sent /\ n < setup.file_size
  /\ MovesOn(n + data_bytes_to_send(n))

LEMMA DataSent ==
  ASSUME AllInv, NEW b \in 0..submitted, SentInv(b), NEW n \in Nat, NEW p, WroteData(p, n)
  PROVE  SentInv(b)' /\ b \in 0..submitted'
<1>0. /\ Wrote(p) /\ p = DataPacket(n, snd.sequence_number)
      /\ n = snd.num_data_bytes_sent /\ n < setup.file_size
      /\ MovesOn(n + data_bytes_to_send(n))
  BY DEF WroteData
<1>1. /\ snd.state \in SND_OPEN_CONNECTION..SND_DATA_PACKETS
      /\ snd.state \notin SND_OPEN_CONNECTION..SND_START_CONTROL_PACKET
      /\ snd.state \in SND_DATA_PACKETS..SND_CLOSE_CONNECTION
      /\ SND_DATA_PACKETS \notin SND_CLOSE_CONTROL_PACKET..SND_CLOSE_CONNECTION
  BY DEF WroteData, SND_OPEN_CONNECTION, SND_START_CONTROL_PACKET, SND_DATA_PACKETS,
     SND_CLOSE_CONTROL_PACKET, SND_CLOSE_CONNECTION
<1>2. PICK c \in Nat : c = snd.sequence_number
  BY Numbers
<1>3. /\ b \in Nat /\ submitted = b + c /\ SentInv(b) /\ b \in confirmed
      /\ submitted' = b + c + 1 /\ snd'.sequence_number = c + 1 /\ Upto(b, c) = n
  <2>1. b \in Nat /\ SentInv(b)
    BY Numbers
  <2>2. submitted = b + c /\ b \in confirmed /\ Upto(b, c) = n
    BY <1>0, <1>1, <1>2, <2>1 DEF SentInv
  <2>3. submitted' = b + c + 1 /\ snd'.sequence_number = c + 1
    BY <1>0, <1>2, <2>2 DEF Wrote, MovesOn
  <2> QED BY <2>1, <2>2, <2>3
<1>4. PICK size \in Nat : size = setup.file_size
  BY Numbers
<1>5. PICK d : d = p.data
  OBVIOUS
<1>6. PICK l \in 1..(size - n) : /\ l = data_bytes_to_send(n) /\ Len(d) = l /\ d # <<>>
                                 /\ DOMAIN d = 1..l /\ \A i \in 1..l : d[i] = n + i
  <2>1. n < size /\ d = DataPacket(n, c).data
    BY <1>0, <1>2, <1>4, <1>5
  <2>2. IsChunk(DataPacket(n, c).data, n)
    BY <1>2, <1>4, <2>1, ChunkBytes
  <2> QED BY <1>4, <2>1, <2>2 DEF IsChunk
<1>7. /\ p.field = control_field_data /\ p.seq = c % sequence_number_modulus
      /\ sent'[b + c + 1] = p /\ d[l] = n + l /\ n + l <= size
  <2>1. p.field = control_field_data /\ p.seq = c % sequence_number_modulus
    BY <1>0, <1>2 DEF DataPacket
  <2>2. sent'[b + c + 1] = p
    BY <1>0, <1>3 DEF Wrote
  <2>3. d[l] = n + l /\ n + l <= size
    BY <1>4, <1>6
  <2> QED BY <2>1, <2>2, <2>3
<1>8. Upto(b, c)' = n /\ Upto(b, c + 1)' = n + l
  <2>1. c \in 0..snd.sequence_number
    BY <1>2
  <2>2. Upto(b, c)' = Upto(b, c)
    BY <1>0, <1>3, <2>1, SentBefore
  <2>3. Upto(b, c + 1)' = d[Len(d)]
    <3>1. c + 1 # 0 /\ b + (c + 1) = b + c + 1
      BY <1>3
    <3>2. sent'[b + (c + 1)].data = d
      BY <1>5, <1>7, <3>1
    <3> QED BY <3>1, <3>2 DEF Upto
  <2> QED BY <1>3, <1>6, <1>7, <2>2, <2>3
<1>9. SentInv(b)'
  <2>1. snd'.state = snd.state /\ b \in confirmed' /\ b + snd'.sequence_number = submitted'
        /\ b + snd'.sequence_number <= submitted' /\ setup' = setup
    BY <1>0, <1>3 DEF Wrote
  <2>2. \A k \in 1..submitted' :
          sent'[k].field = IF k <= b THEN control_field_start
                           ELSE IF k <= b + snd'.sequence_number THEN control_field_data
                           ELSE control_field_end
    <3>1. \A k \in 1..submitted' : k \in 1..submitted \/ k = b + c + 1
      BY <1>3
    <3>2. \A k \in 1..submitted : k <= b + snd.sequence_number /\ k <= b + c + 1
      BY <1>2, <1>3
    <3>3. \A k \in 1..submitted :
            sent'[k].field = IF k <= b THEN control_field_start ELSE control_field_data
      BY <1>0, <1>3, <3>2, SentBefore
    <3>4. ~(b + c + 1 <= b) /\ b + snd'.sequence_number = b + c + 1
      BY <1>3
    <3> QED BY <1>7, <3>1, <3>2, <3>3, <3>4
  <2>3. ASSUME NEW s \in 1..snd'.sequence_number
        PROVE  /\ sent'[b + s].seq = (s - 1) % sequence_number_modulus
               /\ sent'[b + s].data # <<>>
               /\ \A i \in DOMAIN sent'[b + s].data :
                    sent'[b + s].data[i] = Upto(b, s - 1)' + i
               /\ Upto(b, s)' <= setup'.file_size
    <3>1. CASE s = c + 1
      <4>1. s - 1 = c /\ b + s = b + c + 1
        BY <1>3, <3>1
      <4> QED BY <1>4, <1>5, <1>6, <1>7, <1>8, <2>1, <3>1, <4>1, ZenonT(60)
    <3>2. CASE s # c + 1
      <4>1. s \in 1..snd.sequence_number
        BY <1>2, <1>3, <3>2
      <4> QED BY <1>0, <1>3, <4>1, SentBefore, ZenonT(60)
    <3> QED BY <3>1, <3>2
  <2>4. Upto(b, snd.sequence_number)' = snd'.num_data_bytes_sent
    BY <1>0, <1>3, <1>6, <1>8 DEF MovesOn
  <2> QED BY <1>1, <2>1, <2>2, <2>3, <2>4 DEF SentInv
<1> QED BY <1>3, <1>9

LEMMA DataPrefix ==
  ASSUME AllInv, AllInv', NEW b \in 0..submitted, Inv(b), NEW n \in Nat, NEW p, WroteData(p, n)
  PROVE  Inv(b)' /\ b \in 0..submitted'
<1>1. PICK c \in Nat : c = snd.sequence_number
  BY Numbers
<1>2. /\ Wrote(p) /\ snd.state = SND_DATA_PACKETS /\ outstanding = FALSE
      /\ snd'.state = snd.state /\ snd'.sequence_number = c + 1
      /\ snd'.attempts_left = IF outstanding' THEN snd.attempts_left ELSE snd.attempts_left - 1
  BY <1>1 DEF WroteData, Wrote, MovesOn
<1>3. SentInv(b)' /\ b \in 0..submitted' /\ b \in Nat
  BY DataSent, Numbers DEF Inv
<1>4. TakenInv(b)'
  BY <1>1, <1>2, TakenBefore
<1>5. GapInv(b)'
  <2>1. ASSUME NEW refused \in Nat, Behind(refused)
        PROVE  Behind(refused)'
    <3>1. c + (IF ahead THEN 1 ELSE 0) + snd.attempts_left
            <= rcv.sequence_number + refused + max_send_attempts + 0
      BY <1>1, <1>2, <2>1 DEF Behind
    <3>2. /\ snd.attempts_left \in Nat /\ rcv.sequence_number \in Nat /\ max_send_attempts \in Nat
          /\ ahead' = ahead /\ rcv' = rcv
      BY <1>2, Numbers, AttemptsAssumption DEF Wrote
    <3>3. c + 1 + (IF ahead THEN 1 ELSE 0)
            + (IF outstanding' THEN snd.attempts_left ELSE snd.attempts_left - 1)
            <= rcv.sequence_number + refused + max_send_attempts
                 + (IF outstanding' THEN 1 ELSE 0)
      BY <3>1, <3>2
    <3> QED BY <1>2, <3>2, <3>3 DEF Behind, SND_DATA_PACKETS, SND_CLOSE_CONTROL_PACKET,
               SND_CLOSE_CONNECTION
  <2>2. UNCHANGED <<rcv, delivered>>
    BY <1>2 DEF Wrote
  <2> QED BY <1>3, <2>1, <2>2, GapSame DEF Inv
<1> QED BY <1>3, <1>4, <1>5 DEF Inv

\* A control packet: a failed attempt, or one more packet.
LEMMA ControlWrites ==
  ASSUME AllInv, send_start \/ send_end
  PROVE  Failed \/ \E p : WroteStart(p) \/ WroteEnd(p)
<1>1. PICK field :
        /\ send_control_packet(field) /\ snd.ret = Running /\ outstanding = FALSE
        /\ \/ snd.state = SND_START_CONTROL_PACKET /\ field = control_field_start
           \/ snd.state = SND_CLOSE_CONTROL_PACKET /\ field = control_field_end
  BY Numbers DEF send_start, send_end, Sending
<1>2. /\ DataTypes /\ ServiceTypes /\ snd \in Senders
      /\ UNCHANGED <<setup, rcv, written>>
  BY <1>1, Types DEF AllInv, send_control_packet
<1>3. CASE snd' = retry(snd) /\ UNCHANGED <<sent, linkvars>>
  BY <1>1, <1>2, <1>3 DEF Failed, linkvars
<1>4. CASE /\ Link!Submit /\ sent' = Append(sent, ControlPacket(field))
           /\ snd' = IF outstanding' THEN snd ELSE retry(snd)
  <2>1. PICK p : p = ControlPacket(field)
    OBVIOUS
  <2>2. p \in Packets /\ p.field = field
    <3>1. 0 \in 0..(sequence_number_modulus - 1)
      BY SizesAssumption
    <3>2. field \in 1..3
      BY <1>1 DEF control_field_start, control_field_end
    <3>3. <<>> \in Seq(Nat)
      OBVIOUS
    <3> QED BY <2>1, <3>1, <3>2, <3>3 DEF ControlPacket, Packets
  <2>3. snd'.state = snd.state /\ StandsStill
    BY <1>2, <1>4 DEF StandsStill, retry, Senders
  <2>4. sent' = Append(sent, p)
    BY <1>4, <2>1
  <2>5. /\ submitted' = submitted + 1 /\ sent'[submitted'] = p
        /\ \A k \in 1..submitted : sent'[k] = sent[k]
        /\ UNCHANGED <<delivered, confirmed, ahead>>
    BY <1>2, <1>4, <2>2, <2>4, Submitted
  <2>6. Wrote(p)
    BY <1>1, <1>2, <2>3, <2>5 DEF Wrote
  <2> QED BY <1>1, <2>2, <2>3, <2>6 DEF WroteStart, WroteEnd
<1> QED BY <1>1, <1>3, <1>4 DEF send_control_packet

\* The loop of send_data_packets.
LEMMA LoopWrites ==
  ASSUME AllInv, send_data_packets
  PROVE  Failed \/ AllSent \/ \E p : \E n \in Nat : WroteData(p, n)
<1>1. /\ Sending(SND_DATA_PACKETS) /\ snd.ret = Running /\ outstanding = FALSE
      /\ snd.state = SND_DATA_PACKETS
      /\ UNCHANGED <<setup, rcv, written>>
  BY Numbers DEF send_data_packets, Sending
<1>2. /\ DataTypes /\ ServiceTypes /\ snd \in Senders
      /\ setup.file_size \in Nat /\ snd.num_data_bytes_sent \in Nat
      /\ snd.sequence_number \in Nat
  BY Types, Numbers DEF AllInv
<1>3. CASE /\ snd' = Advance(snd, SND_CLOSE_CONTROL_PACKET, max_send_attempts)
           /\ UNCHANGED <<sent, linkvars>>
  BY <1>1, <1>3 DEF AllSent
<1>4. CASE snd' = retry(snd) /\ UNCHANGED <<sent, linkvars>>
  BY <1>1, <1>4 DEF Failed, linkvars
<1>5. CASE /\ snd.num_data_bytes_sent < setup.file_size
           /\ Link!Submit
           /\ sent' = Append(sent, DataPacket(snd.num_data_bytes_sent, snd.sequence_number))
           /\ snd' = IF outstanding' THEN Moved(snd) ELSE retry(Moved(snd))
  <2>1. PICK n \in Nat : n = snd.num_data_bytes_sent
    BY <1>2
  <2>2. PICK p : p = DataPacket(n, snd.sequence_number)
    OBVIOUS
  <2>3. p \in Packets
    BY <1>2, <1>5, <2>1, <2>2, DataPacketType
  <2>4. sent' = Append(sent, p)
    BY <1>5, <2>1, <2>2
  <2>5. /\ submitted' = submitted + 1 /\ sent'[submitted'] = p
        /\ \A k \in 1..submitted : sent'[k] = sent[k]
        /\ UNCHANGED <<delivered, confirmed, ahead>>
    BY <1>2, <1>5, <2>3, <2>4, Submitted
  <2>6. PICK m : /\ m = Moved(snd) /\ m \in Senders
                 /\ m.state = snd.state /\ m.attempts_left = snd.attempts_left
    BY <1>2, <1>5, MovedSender
  <2>7. /\ m.sequence_number = snd.sequence_number + 1
        /\ m.num_data_bytes_sent = n + data_bytes_to_send(n)
    BY <1>2, <2>1, <2>6 DEF Moved, Senders
  <2>8. snd' = IF outstanding' THEN m ELSE retry(m)
    BY <1>5, <2>6
  <2>9. snd'.state = snd.state /\ MovesOn(n + data_bytes_to_send(n))
    BY <2>6, <2>7, <2>8 DEF MovesOn, retry, Senders
  <2>10. Wrote(p)
    BY <1>1, <2>5, <2>9 DEF Wrote
  <2> QED BY <1>1, <1>5, <2>1, <2>2, <2>9, <2>10 DEF WroteData
<1> QED BY <1>3, <1>4, <1>5 DEF send_data_packets

\* Every step of the transmitter's.
LEMMA TransmitterWrites ==
  ASSUME AllInv, Transmitter
  PROVE  \/ llopen \/ Failed \/ AllSent \/ write_confirmed \/ send_llclose
         \/ \E p : WroteStart(p) \/ WroteEnd(p) \/ \E n \in Nat : WroteData(p, n)
<1>1. ASSUME write_failed
      PROVE  Failed
  BY <1>1 DEF write_failed, Link!Fail, AfterFailure, Failed, AllInv, FileInv, WriteInv
<1> QED BY <1>1, ControlWrites, LoopWrites DEF Transmitter

\* It has the same number of start packets after it, or one more.
LEMMA TransmitterPrefix ==
  ASSUME AllInv, AllInv', NEW b \in 0..submitted, Inv(b), Transmitter
  PROVE  \E c \in 0..submitted' : Inv(c)'
<1>1. CASE llopen \/ Failed \/ AllSent \/ write_confirmed \/ send_llclose
  <2>1. Inv(b)'
    BY <1>1, ConnectPrefix, FailurePrefix, AllSentPrefix, ConfirmedPrefix, ClosePrefix
  <2>2. submitted' = submitted
    BY <1>1, UnsentSteps DEF Inv, Unsent
  <2> QED BY <2>1, <2>2
<1>2. ASSUME NEW p, WroteStart(p)
      PROVE  \E c \in 0..submitted' : Inv(c)'
  <2>1. PICK c : c = b + 1
    OBVIOUS
  <2>2. c \in 0..submitted' /\ Inv(c)'
    BY <1>2, <2>1, StartPrefix
  <2> QED BY <2>2
<1>3. ASSUME NEW p, WroteEnd(p)
      PROVE  \E c \in 0..submitted' : Inv(c)'
  BY <1>3, EndPrefix
<1>4. ASSUME NEW p, NEW n \in Nat, WroteData(p, n)
      PROVE  \E c \in 0..submitted' : Inv(c)'
  BY <1>4, DataPrefix
<1> QED BY <1>1, <1>2, <1>3, <1>4, TransmitterWrites

-----------------------------------------------------------------------------
(* The receiver's steps.                                                   *)

\* None of them touches what the transmitter has.
Listened ==
  UNCHANGED <<setup, snd, sent, submitted, outstanding, confirmed>>

\* So the packets stay what they were.
LEMMA SentUntouched ==
  ASSUME NEW b \in 0..submitted, SentInv(b), Listened
  PROVE  SentInv(b)' /\ \A s \in Nat : Upto(b, s)' = Upto(b, s)
<1>1. Unsent(b)
  BY DEF Listened, SentInv, Unsent
<1> QED BY <1>1, SentSame

\* A step in which nothing is parsed: the receiver stays where it is, or opens.
Quiet ==
  /\ Listened /\ UNCHANGED <<delivered, ahead, written>>
  /\ rcv'.sequence_number = rcv.sequence_number
  /\ \/ rcv'.state = rcv.state
     \/ rcv.state = RCV_OPEN_CONNECTION /\ rcv'.state = RCV_START_CONTROL_PACKET
  /\ rcv'.attempts_left <= rcv.attempts_left \/ rcv'.state # RCV_DATA_PACKETS
  /\ rcv.ret = Running

\* Such a step keeps the invariant: an attempt less only widens the bound.
LEMMA QuietPrefix ==
  ASSUME AllInv, AllInv', NEW b \in 0..submitted, Inv(b), Quiet
  PROVE  Inv(b)'
<1>1. PICK r \in Nat : r = rcv.sequence_number
  BY Numbers
<1>2. /\ SentInv(b)' /\ Upto(b, r)' = Upto(b, r)
  BY SentUntouched DEF Inv, Quiet
<1>3. /\ rcv'.state \in RCV_OPEN_CONNECTION..RCV_START_CONTROL_PACKET =>
           rcv.state \in RCV_OPEN_CONNECTION..RCV_START_CONTROL_PACKET
      /\ rcv'.state = RCV_DATA_PACKETS =>
           rcv.state = RCV_DATA_PACKETS /\ rcv'.attempts_left <= rcv.attempts_left
  BY DEF Quiet, RCV_OPEN_CONNECTION, RCV_START_CONTROL_PACKET, RCV_DATA_PACKETS
<1>4. TakenInv(b)'
  <2>1. Upto(b, rcv.sequence_number)' = Upto(b, rcv.sequence_number)
    BY <1>1, <1>2 DEF Quiet
  <2> QED BY <1>3, <2>1 DEF Inv, TakenInv, Quiet, Listened
<1>5. GapInv(b)'
  <2>1. ASSUME rcv.state = RCV_DATA_PACKETS, rcv'.attempts_left <= rcv.attempts_left
        PROVE  Behind(max_receive_attempts - rcv.attempts_left)'
    <3>1. PICK e \in Nat : e = max_receive_attempts - rcv.attempts_left
      BY Numbers
    <3>2. /\ rcv'.attempts_left \in Int /\ rcv.attempts_left \in Nat
          /\ max_receive_attempts \in Nat
      BY Numbers, Types, AttemptsAssumption DEF AllInv, TypeOK
    <3>3. PICK f \in Nat : f = max_receive_attempts - rcv'.attempts_left /\ f >= e
      BY <2>1, <3>1, <3>2
    <3>4. Behind(e)
      BY <2>1, <3>1 DEF Inv, GapInv
    <3>5. /\ snd.sequence_number \in Nat /\ snd.attempts_left \in Nat
          /\ max_send_attempts \in Nat
      BY Numbers, AttemptsAssumption
    <3>6. Behind(f)'
      BY <1>1, <3>3, <3>4, <3>5 DEF Behind, Quiet, Listened
    <3> QED BY <3>3, <3>6
  <2>2. Behind(0) => Behind(0)'
    BY DEF Behind, Quiet, Listened
  <2>3. delivered' = delivered
    BY DEF Quiet
  <2> QED BY <1>3, <2>1, <2>2, <2>3 DEF Inv, GapInv
<1> QED BY <1>2, <1>4, <1>5 DEF Inv

\* The calls that parse nothing.
LEMMA QuietSteps ==
  ASSUME AllInv, receive_llopen \/ llread_fails \/ receive_llclose
  PROVE  Quiet
<1>1. rcv \in Receivers /\ rcv.attempts_left \in Nat
  BY Numbers
<1>2. rcv.ret = Running
  BY DEF receive_llopen, llread_fails, receive_llclose, Receiving
<1>3. Listened /\ UNCHANGED <<delivered, ahead, written>>
  BY DEF receive_llopen, llread_fails, receive_llclose, Listened, linkvars
<1>4. CASE receive_llopen
  <2>1. rcv.state = RCV_OPEN_CONNECTION
    BY <1>4 DEF receive_llopen, Receiving
  <2>2. \/ rcv' = retry(rcv)
        \/ rcv' = [rcv EXCEPT !.ret = -1]
        \/ rcv' = [Advance(rcv, RCV_START_CONTROL_PACKET, max_receive_attempts)
                     EXCEPT !.is_active = TRUE, !.is_open = TRUE]
    BY <1>4 DEF receive_llopen
  <2>3. /\ rcv'.sequence_number = rcv.sequence_number
        /\ \/ /\ rcv'.state = rcv.state
              /\ rcv'.attempts_left \in {rcv.attempts_left, rcv.attempts_left - 1}
           \/ rcv'.state = RCV_START_CONTROL_PACKET
    BY <1>1, <2>2 DEF retry, Advance, Receivers
  <2>4. RCV_START_CONTROL_PACKET # RCV_DATA_PACKETS
    BY DEF RCV_START_CONTROL_PACKET, RCV_DATA_PACKETS
  <2> QED BY <1>1, <1>2, <1>3, <2>1, <2>3, <2>4 DEF Quiet
<1>5. CASE llread_fails
  <2>1. rcv' = [rcv EXCEPT !.ret = Aborted] \/ rcv' = Refused(rcv)
    BY <1>5 DEF llread_fails
  <2>2. /\ rcv'.sequence_number = rcv.sequence_number /\ rcv'.state = rcv.state
        /\ rcv'.attempts_left \in {rcv.attempts_left, rcv.attempts_left - 1}
    BY <1>1, <2>1 DEF Refused, retry, Receivers
  <2> QED BY <1>1, <1>2, <1>3, <2>2 DEF Quiet
<1>6. CASE receive_llclose
  <2>1. \/ rcv' = [rcv EXCEPT !.is_active = FALSE, !.is_open = FALSE, !.ret = 0]
        \/ \E open \in {FALSE, rcv.is_open} :
             rcv' = [retry(rcv) EXCEPT !.is_active = FALSE, !.is_open = open]
        \/ rcv' = [rcv EXCEPT !.ret = Aborted]
    BY <1>6 DEF receive_llclose
  <2>2. /\ rcv'.sequence_number = rcv.sequence_number /\ rcv'.state = rcv.state
        /\ rcv'.attempts_left \in {rcv.attempts_left, rcv.attempts_left - 1}
    BY <1>1, <2>1 DEF retry, Receivers
  <2> QED BY <1>1, <1>2, <1>3, <2>2 DEF Quiet
<1> QED BY <1>4, <1>5, <1>6

\* What the debugging build makes of packet p. It refuses it, and loses an attempt;
RefusedIt ==
  /\ rcv'.state = rcv.state /\ rcv'.attempts_left = rcv.attempts_left - 1
  /\ UNCHANGED written /\ rcv'.sequence_number = rcv.sequence_number

\* or it was a start packet, when that was waited for;
Started(p) ==
  /\ p.field = control_field_start
  /\ rcv.state = RCV_START_CONTROL_PACKET /\ rcv'.state = RCV_DATA_PACKETS
  /\ rcv'.attempts_left = max_receive_attempts
  /\ UNCHANGED written /\ rcv'.sequence_number = rcv.sequence_number

\* or a data packet with the number waited for, whose bytes are written unless the
\* program ends;
Took(p) ==
  /\ p.field = control_field_data
  /\ p.seq = rcv.sequence_number % sequence_number_modulus
  /\ rcv.state = RCV_DATA_PACKETS /\ rcv'.state = RCV_DATA_PACKETS
  /\ rcv'.attempts_left = rcv.attempts_left
  /\ rcv'.sequence_number = rcv.sequence_number + 1
  /\ \/ written' = written \o p.data
     \/ written' = written /\ rcv'.ret # Running

\* or an end packet.
Ended(p) ==
  /\ p.field = control_field_end
  /\ rcv.state = RCV_DATA_PACKETS
  /\ \/ rcv'.state = RCV_CLOSE_CONNECTION
     \/ rcv'.state = RCV_DATA_PACKETS /\ rcv'.attempts_left = rcv.attempts_left
  /\ UNCHANGED written /\ rcv'.sequence_number = rcv.sequence_number

\* There is nothing else that it can do.
LEMMA Outcomes ==
  ASSUME setup.debug, rcv \in Receivers, NEW m \in Receivers, m.ret = Running,
         m.state = rcv.state, m.attempts_left = rcv.attempts_left,
         m.sequence_number = rcv.sequence_number,
         NEW p, p.data \in Seq(Nat), written \in Seq(Nat), parse(m, p)
  PROVE  RefusedIt \/ Started(p) \/ Took(p) \/ Ended(p)
<1>0. written \o <<>> = written
  OBVIOUS
<1>1. ASSUME rcv' = Refused(m), written' = written
      PROVE  RefusedIt
  BY <1>1 DEF RefusedIt, Refused, retry, Receivers
<1>2. CASE /\ Receiving(RCV_START_CONTROL_PACKET)
           /\ rcv' \in {Refused(m)} \cup receive_start_control_packet(m, p)
           /\ UNCHANGED written
  <2>1. CASE rcv' = Refused(m)
    BY <1>1, <1>2, <2>1
  <2>2. CASE rcv' \in receive_start_control_packet(m, p)
    <3>1. PICK f \in BOOLEAN :
            /\ p.field = control_field_start
            /\ rcv' = [Advance(m, RCV_DATA_PACKETS, max_receive_attempts)
                         EXCEPT !.received_file = f]
      BY <2>2 DEF receive_start_control_packet, parse_control_packet
    <3>2. /\ rcv'.state = RCV_DATA_PACKETS /\ rcv'.attempts_left = max_receive_attempts
          /\ rcv'.sequence_number = rcv.sequence_number
      BY <3>1 DEF Advance, Receivers
    <3> QED BY <1>2, <3>1, <3>2 DEF Started, Receiving
  <2> QED BY <1>2, <2>1, <2>2
<1>3. ASSUME Receiving(RCV_DATA_PACKETS),
             NEW r \in {[machine |-> Refused(m), data |-> <<>>]}
                          \cup parse_data_packet(m, p) \cup parse_end_packet(m, p),
             rcv' = r.machine, written' = written \o r.data
      PROVE  RefusedIt \/ Started(p) \/ Took(p) \/ Ended(p)
  <2>1. rcv.state = RCV_DATA_PACKETS
    BY <1>3 DEF Receiving
  <2>2. CASE r = [machine |-> Refused(m), data |-> <<>>]
    <3>1. rcv' = Refused(m) /\ written' = written
      BY <1>0, <1>3, <2>2
    <3> QED BY <1>1, <3>1
  <2>3. CASE r \in parse_data_packet(m, p)
    <3>1. PICK n \in Numbered(m, p.seq) :
            /\ p.field = control_field_data
            /\ r = [machine |-> Using([n EXCEPT !.sequence_number = @ + 1]),
                    data |-> IF m.received_file THEN p.data ELSE <<>>]
      BY <2>3 DEF parse_data_packet
    <3>2. n = m /\ p.seq = rcv.sequence_number % sequence_number_modulus
      <4>1. Numbered(m, p.seq) =
              CASE p.seq = m.sequence_number % sequence_number_modulus -> {m}
                [] p.seq # m.sequence_number % sequence_number_modulus -> {}
        BY DEF Numbered
      <4> QED BY <4>1
    <3>3. PICK q : q = [m EXCEPT !.sequence_number = @ + 1]
      OBVIOUS
    <3>4. /\ q.state = RCV_DATA_PACKETS /\ q.attempts_left = rcv.attempts_left
          /\ q.sequence_number = rcv.sequence_number + 1
          /\ q.received_file = m.received_file /\ DOMAIN q = DOMAIN m
      BY <2>1, <3>3 DEF Receivers
    <3>5. rcv' = Using(q) /\ written' = written \o (IF m.received_file THEN p.data ELSE <<>>)
      BY <1>3, <3>1, <3>2, <3>3
    <3>6. CASE m.received_file
      BY <2>1, <3>1, <3>2, <3>4, <3>5, <3>6 DEF Took, Using
    <3>7. CASE ~m.received_file
      <4>1. written' = written /\ rcv' = [q EXCEPT !.ret = Aborted]
        BY <1>0, <3>4, <3>5, <3>7 DEF Using
      <4>2. /\ rcv'.state = q.state /\ rcv'.attempts_left = q.attempts_left
            /\ rcv'.sequence_number = q.sequence_number /\ rcv'.ret = Aborted
        BY <3>3, <4>1 DEF Receivers
      <4>3. Aborted # Running
        BY DEF Aborted, Running
      <4> QED BY <2>1, <3>1, <3>2, <3>4, <4>1, <4>2, <4>3 DEF Took
    <3> QED BY <3>6, <3>7
  <2>4. CASE r \in parse_end_packet(m, p)
    <3>1. PICK q \in {Advance(m, RCV_CLOSE_CONNECTION, max_receive_attempts),
                      [m EXCEPT !.ret = -1]} :
            p.field = control_field_end /\ r = [machine |-> Using(q), data |-> <<>>]
      BY <2>4 DEF parse_end_packet
    <3>2. rcv' = Using(q) /\ written' = written
      BY <1>0, <1>3, <3>1
    <3>3. /\ \/ q.state = RCV_CLOSE_CONNECTION
             \/ q.state = RCV_DATA_PACKETS /\ q.attempts_left = rcv.attempts_left
          /\ q.sequence_number = rcv.sequence_number
          /\ Using(q).state = q.state /\ Using(q).attempts_left = q.attempts_left
          /\ Using(q).sequence_number = q.sequence_number
      <4>1. CASE q = Advance(m, RCV_CLOSE_CONNECTION, max_receive_attempts)
        BY <4>1 DEF Advance, Using, Receivers
      <4>2. CASE q = [m EXCEPT !.ret = -1]
        BY <2>1, <4>2 DEF Using, Receivers
      <4> QED BY <3>1, <4>1, <4>2
    <3> QED BY <2>1, <3>1, <3>2, <3>3 DEF Ended
  <2> QED BY <1>3, <2>2, <2>3, <2>4
<1> QED BY <1>2, <1>3 DEF parse

\* Packet p is in the buffer: nothing is, or the last packet delivered, again or now.
Arrived(p) ==
  \/ UNCHANGED <<delivered, ahead>> /\ p.field = 0
  \/ UNCHANGED <<delivered, ahead>> /\ Len(delivered) > 0 /\ p = sent[delivered[Len(delivered)]]
  \/ \E k \in 1..submitted : Link!Deliver(k) /\ p = sent[k]

\* The last packet delivered is packet k.
LastIs(k) == Len(delivered') \in DOMAIN delivered' /\ delivered'[Len(delivered')] = k

\* A packet that arrives is the last delivered, later than all others, and later than
\* every confirmed one if it is delivered now.
LEMMA Arrival ==
  ASSUME AllInv, \A i \in DOMAIN delivered : delivered[i] <= delivered[Len(delivered)],
         NEW p, Arrived(p)
  PROVE  /\ p.field # 0 => \E k \in 1..submitted : p = sent[k] /\ LastIs(k)
         /\ \A i \in DOMAIN delivered' : delivered'[i] <= delivered'[Len(delivered')]
         /\ \A i \in DOMAIN delivered : i \in DOMAIN delivered' /\ delivered'[i] = delivered[i]
         /\ \/ UNCHANGED <<delivered, ahead>>
            \/ /\ ahead = FALSE
               /\ \E k \in 1..submitted : LastIs(k) /\ \A c \in confirmed : c < k
<1>1. delivered \in Seq(1..submitted) /\ submitted \in Nat /\ ahead \in BOOLEAN
      /\ Len(delivered) \in Nat
  BY Numbers
<1>2. CASE UNCHANGED <<delivered, ahead>> /\ p.field = 0
  BY <1>2
<1>3. CASE /\ UNCHANGED <<delivered, ahead>> /\ Len(delivered) > 0
           /\ p = sent[delivered[Len(delivered)]]
  <2>1. Len(delivered) \in DOMAIN delivered /\ delivered[Len(delivered)] \in 1..submitted
    BY <1>1, <1>3
  <2>2. LastIs(delivered[Len(delivered)])
    BY <1>3, <2>1 DEF LastIs
  <2> QED BY <1>3, <2>1, <2>2
<1>4. ASSUME NEW k \in 1..submitted, Link!Deliver(k), p = sent[k]
      PROVE  /\ LastIs(k) /\ ahead = FALSE /\ \A c \in confirmed : c < k
             /\ \A i \in DOMAIN delivered' : delivered'[i] <= delivered'[Len(delivered')]
             /\ \A i \in DOMAIN delivered : i \in DOMAIN delivered' /\ delivered'[i] = delivered[i]
  <2>1. /\ delivered' = Append(delivered, k) /\ ahead = FALSE
        /\ \A c \in confirmed : c < k
        /\ \A i \in DOMAIN delivered : delivered[i] <= k
    <3>1. \A i \in DOMAIN delivered :
            IF at_most_once THEN delivered[i] < k ELSE delivered[i] <= k
      BY <1>4 DEF Link!Deliver
    <3>2. \A i \in DOMAIN delivered : delivered[i] \in Nat
      BY <1>1
    <3>3. \A i \in DOMAIN delivered : delivered[i] <= k
      BY <1>1, <3>1, <3>2
    <3> QED BY <1>1, <1>4, <3>3 DEF Link!Deliver
  <2>2. /\ Len(delivered') = Len(delivered) + 1 /\ DOMAIN delivered' = 1..(Len(delivered) + 1)
        /\ delivered'[Len(delivered) + 1] = k /\ DOMAIN delivered = 1..Len(delivered)
        /\ \A i \in 1..Len(delivered) : delivered'[i] = delivered[i]
    BY <1>1, <2>1
  <2>3. \A i \in DOMAIN delivered' : i \in DOMAIN delivered \/ i = Len(delivered) + 1
    BY <1>1, <2>2
  <2>4. LastIs(k)
    BY <1>1, <2>2 DEF LastIs
  <2>5. \A i \in DOMAIN delivered' : delivered'[i] <= delivered'[Len(delivered')]
    BY <1>1, <2>1, <2>2, <2>3
  <2>6. \A i \in DOMAIN delivered : i \in DOMAIN delivered' /\ delivered'[i] = delivered[i]
    BY <1>1, <2>2
  <2> QED BY <2>1, <2>4, <2>5, <2>6
<1>5. CASE \E k \in 1..submitted : Link!Deliver(k) /\ p = sent[k]
  BY <1>4, <1>5
<1> QED BY <1>2, <1>3, <1>5 DEF Arrived

\* A packet that writes nothing.
LEMMA NothingTaken ==
  ASSUME AllInv, AllInv', NEW b \in 0..submitted, Inv(b), Listened, NEW p, Arrived(p),
         UNCHANGED written, rcv'.sequence_number = rcv.sequence_number,
         rcv'.state \in RCV_OPEN_CONNECTION..RCV_START_CONTROL_PACKET =>
           rcv.state \in RCV_OPEN_CONNECTION..RCV_START_CONTROL_PACKET,
         rcv.ret = Running
  PROVE  TakenInv(b)'
<1>1. PICK r \in Nat : r = rcv.sequence_number
  BY Numbers
<1>2. Upto(b, r)' = Upto(b, r)
  BY SentUntouched DEF Inv
<1>3. Upto(b, rcv.sequence_number)' = Upto(b, rcv.sequence_number)
  BY <1>1, <1>2
<1>4. TakenInv(b)
  BY DEF Inv
<1>5. /\ \A i \in DOMAIN delivered' : delivered'[i] <= delivered'[Len(delivered')]
      /\ \A i \in DOMAIN delivered : i \in DOMAIN delivered' /\ delivered'[i] = delivered[i]
  BY <1>4, Arrival DEF TakenInv
<1>6. r > 0 => \E i \in DOMAIN delivered' : delivered'[i] = b + r
  BY <1>1, <1>4, <1>5 DEF TakenInv
<1> QED BY <1>1, <1>3, <1>4, <1>5, <1>6 DEF TakenInv, Listened

\* No more than one delivery is added to what the receiver may be behind by; none
\* of a start packet once one is confirmed.
LEMMA BehindAgain ==
  ASSUME AllInv, AllInv', NEW b \in 0..submitted, Inv(b), Listened, NEW p, Arrived(p),
         NEW refused \in Nat, Behind(refused)
  PROVE  /\ rcv'.sequence_number = rcv.sequence_number => Behind(refused + 1)'
         /\ rcv'.sequence_number = rcv.sequence_number + 1 => Behind(refused)'
         /\ /\ rcv'.sequence_number = rcv.sequence_number
            /\ snd.state # SND_DATA_PACKETS \/ UNCHANGED ahead
            => Behind(refused)'
<1>1. /\ snd.sequence_number \in Nat /\ snd.attempts_left \in Nat /\ max_send_attempts \in Nat
      /\ rcv.sequence_number \in Nat /\ ahead \in BOOLEAN
      /\ rcv'.sequence_number \in Nat
  BY Numbers, Types, AttemptsAssumption DEF AllInv, TypeOK
<1>2. ahead' = ahead \/ ahead = FALSE
  BY Arrival DEF Inv, TakenInv
<1>3. rcv'.sequence_number = rcv.sequence_number => Behind(refused + 1)'
  BY <1>1, <1>2 DEF Behind, Listened
<1>4. rcv'.sequence_number = rcv.sequence_number + 1 => Behind(refused)'
  BY <1>1, <1>2 DEF Behind, Listened
<1>5. /\ rcv'.sequence_number = rcv.sequence_number
      /\ snd.state # SND_DATA_PACKETS \/ UNCHANGED ahead
      => Behind(refused)'
  BY <1>1 DEF Behind, Listened
<1> QED BY <1>3, <1>4, <1>5

\* If all that was delivered is start packets, nothing is missing.
LEMMA NothingMissing ==
  ASSUME AllInv, AllInv', NEW b \in 0..submitted, Inv(b), Listened, NEW p, Arrived(p),
         rcv.state \in RCV_OPEN_CONNECTION..RCV_START_CONTROL_PACKET,
         rcv'.sequence_number = rcv.sequence_number,
         \A i \in DOMAIN delivered' : delivered'[i] <= b
  PROVE  Behind(0)'
<1>1. TakenInv(b) /\ SentInv(b) /\ GapInv(b)
  BY DEF Inv
<1>2. \A i \in DOMAIN delivered : delivered[i] <= b
  BY <1>1, Arrival DEF TakenInv
<1>3. Behind(0)
  BY <1>1, <1>2 DEF GapInv
<1>4. CASE UNCHANGED <<delivered, ahead>>
  BY <1>3, <1>4, BehindAgain
<1>5. CASE \E k \in 1..submitted : LastIs(k) /\ \A c \in confirmed : c < k
  <2>1. b \notin confirmed
    <3>1. PICK k \in 1..submitted : LastIs(k) /\ \A c \in confirmed : c < k
      BY <1>5
    <3>2. k <= b
      BY <3>1 DEF LastIs
    <3>3. b \in Nat /\ k \in Nat
      BY Numbers
    <3> QED BY <3>1, <3>2, <3>3
  <2>2. snd.state \notin SND_DATA_PACKETS..SND_CLOSE_CONNECTION
    BY <1>1, <2>1 DEF SentInv
  <2>3. snd.state # SND_DATA_PACKETS
    BY <2>2 DEF SND_DATA_PACKETS, SND_CLOSE_CONNECTION
  <2> QED BY <1>3, <2>3, BehindAgain
<1> QED BY <1>1, <1>4, <1>5, Arrival DEF TakenInv

\* A packet refused costs an attempt, which pays for the delivery.
LEMMA RefusedPrefix ==
  ASSUME AllInv, AllInv', NEW b \in 0..submitted, Inv(b), Listened, NEW p, Arrived(p),
         RefusedIt, rcv.ret = Running
  PROVE  Inv(b)'
<1>1. SentInv(b)'
  BY SentUntouched DEF Inv
<1>2. TakenInv(b)'
  BY NothingTaken DEF RefusedIt
<1>3. ASSUME rcv'.state = RCV_DATA_PACKETS
      PROVE  Behind(max_receive_attempts - rcv.attempts_left)'
  <2>1. PICK e \in Nat : e = max_receive_attempts - rcv.attempts_left
    BY Numbers
  <2>2. Behind(e)
    BY <1>3, <2>1 DEF Inv, GapInv, RefusedIt
  <2>3. Behind(e + 1)'
    BY <2>2, BehindAgain DEF RefusedIt
  <2>4. e + 1 = max_receive_attempts - rcv'.attempts_left
    BY <2>1, Numbers, AttemptsAssumption DEF RefusedIt
  <2> QED BY <2>3, <2>4
<1>4. ASSUME rcv'.state \in RCV_OPEN_CONNECTION..RCV_START_CONTROL_PACKET,
             \A i \in DOMAIN delivered' : delivered'[i] <= b
      PROVE  Behind(0)'
  BY <1>4, NothingMissing DEF RefusedIt
<1>5. GapInv(b)'
  BY <1>3, <1>4 DEF GapInv
<1> QED BY <1>1, <1>2, <1>5 DEF Inv

\* A packet that is not refused is the last one delivered.
LEMMA ParsedLast ==
  ASSUME AllInv, NEW b \in 0..submitted, Inv(b), NEW p, Arrived(p),
         p.field \in 1..3
  PROVE  \E k \in 1..submitted :
           /\ p = sent[k] /\ LastIs(k) /\ \A i \in DOMAIN delivered' : delivered'[i] <= k
           /\ p.field = IF k <= b THEN control_field_start
                        ELSE IF k <= b + snd.sequence_number THEN control_field_data
                        ELSE control_field_end
<1>1. p.field # 0
  OBVIOUS
<1>2. PICK k \in 1..submitted : p = sent[k] /\ LastIs(k)
  BY <1>1, Arrival DEF Inv, TakenInv
<1>3. \A i \in DOMAIN delivered' : delivered'[i] <= k
  BY <1>2, Arrival DEF Inv, TakenInv, LastIs
<1> QED BY <1>2, <1>3 DEF Inv, SentInv

\* The start packet: no data packet can have been confirmed before it.
LEMMA StartedPrefix ==
  ASSUME AllInv, AllInv', NEW b \in 0..submitted, Inv(b), Listened, NEW p, Arrived(p),
         Started(p), rcv.ret = Running
  PROVE  Inv(b)'
<1>1. /\ rcv.state \in RCV_OPEN_CONNECTION..RCV_START_CONTROL_PACKET
      /\ rcv'.state \notin RCV_OPEN_CONNECTION..RCV_START_CONTROL_PACKET
      /\ rcv'.attempts_left = max_receive_attempts
      /\ rcv'.sequence_number = rcv.sequence_number
  BY DEF Started, RCV_OPEN_CONNECTION, RCV_START_CONTROL_PACKET, RCV_DATA_PACKETS
<1>2. SentInv(b)'
  BY SentUntouched DEF Inv
<1>3. TakenInv(b)'
  BY <1>1, NothingTaken DEF Started
<1>4. \A i \in DOMAIN delivered' : delivered'[i] <= b
  <2>1. p.field = control_field_start /\ p.field \in 1..3
    BY DEF Started, control_field_start
  <2>2. PICK k \in 1..submitted :
          /\ \A i \in DOMAIN delivered' : delivered'[i] <= k
          /\ p.field = IF k <= b THEN control_field_start
                       ELSE IF k <= b + snd.sequence_number THEN control_field_data
                       ELSE control_field_end
    BY <2>1, ParsedLast
  <2>3. k <= b
    BY <2>1, <2>2 DEF control_field_start, control_field_data, control_field_end
  <2>4. \A i \in DOMAIN delivered' : delivered'[i] \in Nat
    <3>1. PICK q : q = delivered'
      OBVIOUS
    <3>2. PICK top \in Nat : top = submitted'
      BY Numbers DEF Listened
    <3>3. q \in Seq(1..top)
      BY <3>1, <3>2, Types DEF AllInv, TypeOK
    <3>4. \A i \in DOMAIN q : q[i] \in 1..top
      BY <3>3
    <3> QED BY <3>1, <3>4
  <2>5. k \in Nat /\ b \in Nat
    BY Numbers
  <2> QED BY <2>2, <2>3, <2>4, <2>5
<1>5. Behind(0)'
  BY <1>1, <1>4, NothingMissing
<1>6. max_receive_attempts - rcv'.attempts_left = 0
  BY <1>1, AttemptsAssumption
<1>7. GapInv(b)'
  BY <1>1, <1>5, <1>6 DEF GapInv
<1> QED BY <1>2, <1>3, <1>7 DEF Inv

\* The end packet is written when the data packets are behind the transmitter.
LEMMA EndedPrefix ==
  ASSUME AllInv, AllInv', NEW b \in 0..submitted, Inv(b), Listened, NEW p, Arrived(p),
         Ended(p), rcv.ret = Running
  PROVE  Inv(b)'
<1>1. /\ rcv.state = RCV_DATA_PACKETS
      /\ rcv'.state \notin RCV_OPEN_CONNECTION..RCV_START_CONTROL_PACKET
      /\ rcv'.state = RCV_DATA_PACKETS => rcv'.attempts_left = rcv.attempts_left
      /\ rcv'.sequence_number = rcv.sequence_number
  BY DEF Ended, RCV_OPEN_CONNECTION, RCV_START_CONTROL_PACKET, RCV_DATA_PACKETS,
     RCV_CLOSE_CONNECTION
<1>2. SentInv(b)'
  BY SentUntouched DEF Inv
<1>3. TakenInv(b)'
  BY <1>1, NothingTaken DEF Ended
<1>4. snd.state # SND_DATA_PACKETS
  <2>1. p.field = control_field_end /\ p.field \in 1..3
    BY DEF Ended, control_field_end
  <2>2. PICK k \in 1..submitted :
          p.field = IF k <= b THEN control_field_start
                    ELSE IF k <= b + snd.sequence_number THEN control_field_data
                    ELSE control_field_end
    BY <2>1, ParsedLast
  <2>3. ~(k <= b + snd.sequence_number)
    <3>1. k \in Nat /\ b \in Nat /\ snd.sequence_number \in Nat
      BY Numbers
    <3>2. k <= b + snd.sequence_number => p.field # control_field_end
      BY <2>2 DEF control_field_start, control_field_data, control_field_end
    <3> QED BY <2>1, <3>2
  <2>4. submitted # b + snd.sequence_number
    <3>1. k \in Nat /\ k <= submitted
      BY Numbers
    <3> QED BY <2>3, <3>1
  <2>5. snd.state \notin SND_OPEN_CONNECTION..SND_DATA_PACKETS
    BY <2>4 DEF Inv, SentInv
  <2> QED BY <2>5 DEF SND_OPEN_CONNECTION, SND_DATA_PACKETS
<1>5. ASSUME rcv'.state = RCV_DATA_PACKETS
      PROVE  Behind(max_receive_attempts - rcv.attempts_left)'
  <2>1. PICK e \in Nat : e = max_receive_attempts - rcv.attempts_left
    BY Numbers
  <2>2. Behind(e)
    BY <1>1, <2>1 DEF Inv, GapInv
  <2>3. Behind(e)'
    BY <1>1, <1>4, <2>2, BehindAgain
  <2> QED BY <1>1, <1>5, <2>1, <2>3
<1>6. GapInv(b)'
  BY <1>1, <1>5 DEF GapInv
<1> QED BY <1>2, <1>3, <1>6 DEF Inv

\* The attempts fit in the numbers.
Fits == max_send_attempts + max_receive_attempts <= sequence_number_modulus

\* A data packet with the number that is waited for is the one that is waited for: an
\* earlier one cannot come any more, and a later one with that number is too far ahead.
LEMMA RightPacket ==
  ASSUME AllInv, Fits, NEW b \in 0..submitted, Inv(b), NEW p, Arrived(p), Took(p),
         rcv.ret = Running
  PROVE  \E s \in 1..snd.sequence_number :
           /\ s = rcv.sequence_number + 1 /\ p = sent[b + s] /\ LastIs(b + s)
<1>1. p.field = control_field_data /\ p.field \in 1..3
  BY DEF Took, control_field_data
<1>2. PICK k \in 1..submitted :
        /\ p = sent[k] /\ LastIs(k) /\ \A i \in DOMAIN delivered' : delivered'[i] <= k
        /\ p.field = IF k <= b THEN control_field_start
                     ELSE IF k <= b + snd.sequence_number THEN control_field_data
                     ELSE control_field_end
  BY <1>1, ParsedLast
<1>3. ~(k <= b) /\ k <= b + snd.sequence_number
  BY <1>1, <1>2 DEF control_field_start, control_field_data, control_field_end
<1>4. PICK n \in Nat : n = snd.sequence_number
  BY Numbers
<1>5. PICK r \in Nat : r = rcv.sequence_number
  BY Numbers
<1>6. PICK s \in 1..n : s = k - b /\ k = b + s
  <2>1. k \in Nat /\ b \in Nat
    BY Numbers
  <2>2. k - b \in 1..n /\ k = b + (k - b)
    BY <1>3, <1>4, <2>1
  <2> QED BY <2>2
<1>7. p.seq = (s - 1) % sequence_number_modulus
  BY <1>2, <1>4, <1>6 DEF Inv, SentInv
<1>8. r <= s
  <2>1. CASE r = 0
    BY <1>6, <2>1
  <2>2. CASE r > 0
    <3>1. PICK i \in DOMAIN delivered : delivered[i] = b + r
      BY <1>5, <2>2 DEF Inv, TakenInv
    <3>2. i \in DOMAIN delivered' /\ delivered'[i] = b + r
      BY <3>1, Arrival DEF Inv, TakenInv
    <3>3. b + r <= b + s
      BY <1>2, <1>6, <3>2
    <3>4. b \in Nat
      BY Numbers
    <3> QED BY <3>3, <3>4
  <2> QED BY <1>5, <2>1, <2>2
<1>9. n < r + sequence_number_modulus
  <2>1. /\ rcv.state = RCV_DATA_PACKETS
        /\ rcv.attempts_left > 0
    BY DEF Took, AllInv, FileInv, RefusedInv
  <2>2. PICK e \in Nat : e = max_receive_attempts - rcv.attempts_left /\ e < max_receive_attempts
    BY <2>1, Numbers, AttemptsAssumption
  <2>3. Behind(e)
    BY <2>1, <2>2 DEF Inv, GapInv
  <2>4. n <= r + e + max_send_attempts
    <3>1. CASE snd.state = SND_DATA_PACKETS
      <4>1. n + (IF ahead THEN 1 ELSE 0) + snd.attempts_left
              <= r + e + max_send_attempts + (IF outstanding THEN 1 ELSE 0)
        BY <1>4, <1>5, <2>3, <3>1 DEF Behind
      <4>2. outstanding => snd.attempts_left > 0
        BY DEF AllInv, FileInv, WriteInv
      <4>3. snd.attempts_left \in Nat /\ max_send_attempts \in Nat
        BY Numbers, AttemptsAssumption
      <4> QED BY <4>1, <4>2, <4>3
    <3>2. CASE snd.state \in SND_CLOSE_CONTROL_PACKET..SND_CLOSE_CONNECTION
      BY <1>4, <1>5, <2>3, <3>2 DEF Behind
    <3>3. snd.state \notin SND_OPEN_CONNECTION..SND_START_CONTROL_PACKET
      BY <1>4, <1>6 DEF Inv, SentInv
    <3>4. snd.state \in SND_OPEN_CONNECTION..SND_CLOSE_CONNECTION
      BY Numbers
    <3> QED BY <3>1, <3>2, <3>3, <3>4 DEF SND_OPEN_CONNECTION, SND_START_CONTROL_PACKET,
               SND_DATA_PACKETS, SND_CLOSE_CONTROL_PACKET, SND_CLOSE_CONNECTION
  <2>5. max_send_attempts \in Nat /\ max_receive_attempts \in Nat /\ sequence_number_modulus \in Nat
    BY AttemptsAssumption, SizesAssumption
  <2> QED BY <2>2, <2>4, <2>5 DEF Fits
<1>10. s - 1 = r
  <2>1. PICK a \in Nat : a = s - 1
    BY <1>6
  <2>2. sequence_number_modulus \in Nat /\ sequence_number_modulus > 1
    BY SizesAssumption
  <2>3. a % sequence_number_modulus = r % sequence_number_modulus
    BY <1>5, <1>7, <2>1 DEF Took
  <2>4. r <= a + 1 /\ a < r + sequence_number_modulus
    BY <1>6, <1>8, <1>9, <2>1, <2>2
  <2>5. a = r
    BY <2>2, <2>3, <2>4, NumbersDiffer
  <2> QED BY <2>1, <2>5
<1> QED BY <1>2, <1>4, <1>5, <1>6, <1>10

\* A prefix of the file with the next chunk of it is a prefix of the file.
LEMMA PrefixGrows ==
  ASSUME NEW w \in Seq(Nat), NEW d \in Seq(Nat), d # <<>>,
         \A i \in DOMAIN w : w[i] = i, \A i \in DOMAIN d : d[i] = Len(w) + i
  PROVE  /\ \A i \in DOMAIN (w \o d) : (w \o d)[i] = i
         /\ Len(w \o d) = d[Len(d)]
<1>1. Len(d) \in DOMAIN d
  OBVIOUS
<1>2. Len(w \o d) = Len(w) + Len(d)
  OBVIOUS
<1>3. ASSUME NEW i \in DOMAIN (w \o d)
      PROVE  (w \o d)[i] = i
  <2>1. CASE i <= Len(w)
    BY <2>1
  <2>2. CASE i > Len(w)
    <3>1. (w \o d)[i] = d[i - Len(w)] /\ i - Len(w) \in DOMAIN d
      BY <2>2
    <3>2. d[i - Len(w)] = Len(w) + (i - Len(w))
      BY <3>1
    <3> QED BY <3>1, <3>2
  <2> QED BY <2>1, <2>2
<1> QED BY <1>1, <1>2, <1>3

\* The packet that is waited for.
LEMMA TookPrefix ==
  ASSUME AllInv, AllInv', Fits, NEW b \in 0..submitted, Inv(b), Listened, NEW p, Arrived(p),
         Took(p), rcv.ret = Running
  PROVE  Inv(b)'
<1>1. PICK r \in Nat : r = rcv.sequence_number
  BY Numbers
<1>2. /\ r + 1 \in 1..snd.sequence_number /\ p = sent[b + (r + 1)] /\ LastIs(b + (r + 1))
  BY <1>1, RightPacket
<1>3. SentInv(b)' /\ Upto(b, r + 1)' = Upto(b, r + 1)
  BY SentUntouched DEF Inv
<1>4. TakenInv(b) /\ SentInv(b) /\ GapInv(b) /\ b \in Nat /\ written \in Seq(Nat)
  BY Numbers DEF Inv
<1>5. PICK d : d = p.data
  OBVIOUS
<1>6. /\ d \in Seq(Nat) /\ d # <<>> /\ \A i \in DOMAIN d : d[i] = Upto(b, r) + i
      /\ Upto(b, r + 1) = d[Len(d)] /\ Upto(b, r + 1) <= setup.file_size
  <2>1. (r + 1) - 1 = r /\ r + 1 # 0
    OBVIOUS
  <2>2. /\ d # <<>> /\ \A i \in DOMAIN d : d[i] = Upto(b, (r + 1) - 1) + i
        /\ Upto(b, r + 1) <= setup.file_size
    BY <1>2, <1>4, <1>5 DEF SentInv
  <2>3. b + (r + 1) \in 1..submitted
    BY <1>2, <1>4, Numbers DEF SentInv
  <2>4. d \in Seq(Nat)
    BY <1>2, <1>5, <2>3, Numbers
  <2>5. Upto(b, r + 1) = d[Len(d)]
    BY <1>2, <1>5, <2>1 DEF Upto
  <2> QED BY <2>1, <2>2, <2>4, <2>5
<1>7. Len(written) = Upto(b, r) /\ \A i \in DOMAIN written : written[i] = i
  BY <1>1, <1>4 DEF TakenInv
<1>8. /\ \A i \in DOMAIN (written \o d) : (written \o d)[i] = i
      /\ Len(written \o d) = Upto(b, r + 1)
  BY <1>4, <1>6, <1>7, PrefixGrows
<1>9. TakenInv(b)'
  <2>1. /\ rcv'.sequence_number = r + 1 /\ rcv'.state = RCV_DATA_PACKETS
        /\ setup' = setup /\ snd' = snd
    BY <1>1 DEF Took, Listened
  <2>2. /\ rcv'.sequence_number <= snd'.sequence_number
        /\ \E i \in DOMAIN delivered' : delivered'[i] = b + rcv'.sequence_number
    BY <1>2, <2>1 DEF LastIs
  <2>3. \A i \in DOMAIN delivered' : delivered'[i] <= delivered'[Len(delivered')]
    BY <1>4, Arrival DEF TakenInv
  <2>4. rcv'.state \notin RCV_OPEN_CONNECTION..RCV_START_CONTROL_PACKET
    BY <2>1 DEF RCV_OPEN_CONNECTION, RCV_START_CONTROL_PACKET, RCV_DATA_PACKETS
  <2>5. Upto(b, rcv.sequence_number)' = Upto(b, r + 1)
    BY <1>3, <2>1
  <2>6. /\ \A i \in DOMAIN written' : written'[i] = i
        /\ Len(written') <= setup'.file_size
        /\ rcv'.ret = Running => Len(written') = Upto(b, rcv.sequence_number)'
    <3>1. CASE written' = written \o d
      BY <1>6, <1>8, <2>1, <2>5, <3>1
    <3>2. CASE written' = written /\ rcv'.ret # Running
      BY <1>4, <2>1, <3>2 DEF TakenInv
    <3> QED BY <1>5, <3>1, <3>2 DEF Took
  <2> QED BY <2>2, <2>3, <2>4, <2>6 DEF TakenInv
<1>10. GapInv(b)'
  <2>1. PICK e \in Nat : e = max_receive_attempts - rcv.attempts_left
    BY Numbers
  <2>2. Behind(e)
    BY <1>4, <2>1 DEF GapInv, Took
  <2>3. Behind(e)'
    BY <2>2, BehindAgain DEF Took
  <2>4. max_receive_attempts - rcv'.attempts_left = e
    BY <2>1 DEF Took
  <2>5. rcv'.state \notin RCV_OPEN_CONNECTION..RCV_START_CONTROL_PACKET
    BY DEF Took, RCV_OPEN_CONNECTION, RCV_START_CONTROL_PACKET, RCV_DATA_PACKETS
  <2> QED BY <2>3, <2>4, <2>5 DEF GapInv
<1> QED BY <1>3, <1>9, <1>10 DEF Inv

\* llread, with a packet or without.
LEMMA ReadPrefix ==
  ASSUME AllInv, AllInv', setup.debug, Fits, NEW b \in 0..submitted, Inv(b),
         llread \/ llread_nothing
  PROVE  Inv(b)' /\ submitted' = submitted
<1>1. /\ DataTypes /\ ServiceTypes /\ rcv \in Receivers /\ written \in Seq(Nat)
      /\ delivered \in Seq(1..submitted)
  BY Types, Numbers DEF AllInv
<1>2. ASSUME NEW m \in Receivers, NEW p, parse(m, p), Arrived(p), Listened,
             p \in {sent[k] : k \in 1..submitted} \cup Junk,
             m.state = rcv.state, m.attempts_left = rcv.attempts_left,
             m.ret = rcv.ret, m.sequence_number = rcv.sequence_number
      PROVE  Inv(b)' /\ submitted' = submitted
  <2>1. rcv.ret = Running
    BY <1>2, ParsingStates
  <2>2. p.data \in Seq(Nat)
    BY <1>1, <1>2, Buffered
  <2>3. RefusedIt \/ Started(p) \/ Took(p) \/ Ended(p)
    BY <1>1, <1>2, <2>1, <2>2, Outcomes
  <2>4. Inv(b)'
    BY <1>2, <2>1, <2>3, RefusedPrefix, StartedPrefix, TookPrefix, EndedPrefix
  <2> QED BY <1>2, <2>4 DEF Listened
<1>3. CASE llread
  <2>1. PICK k \in 1..submitted : Link!Deliver(k) /\ parse(rcv, sent[k])
    BY <1>3 DEF llread
  <2>2. Arrived(sent[k])
    BY <2>1 DEF Arrived
  <2>3. Listened
    BY <1>3, <2>1 DEF llread, Listened, Link!Deliver
  <2> QED BY <1>1, <1>2, <2>1, <2>2, <2>3
<1>4. CASE llread_nothing
  <2>1. PICK p \in Junk, open \in BOOLEAN :
          \/ parse([rcv EXCEPT !.is_active = FALSE, !.is_open = open, !.trouble = TRUE], p)
          \/ parse([rcv EXCEPT !.trouble = TRUE], p)
    BY <1>4 DEF llread_nothing
  <2>2. UNCHANGED <<delivered, ahead>> /\ Listened
    BY <1>4 DEF llread_nothing, Listened, linkvars
  <2>3. Arrived(p)
    <3>1. CASE p = [field |-> 0, seq |-> 0, data |-> <<>>]
      BY <2>2, <3>1 DEF Arrived
    <3>2. ASSUME NEW j \in DOMAIN delivered \cap {Len(delivered)}, p = sent[delivered[j]]
          PROVE  Arrived(p)
      <4>1. Len(delivered) > 0 /\ p = sent[delivered[Len(delivered)]]
        BY <1>1, <3>2
      <4> QED BY <2>2, <4>1 DEF Arrived
    <3> QED BY <2>1, <3>1, <3>2 DEF Junk
  <2>4. PICK m \in Receivers :
          /\ parse(m, p)
          /\ m.state = rcv.state /\ m.attempts_left = rcv.attempts_left
          /\ m.ret = rcv.ret /\ m.sequence_number = rcv.sequence_number
    <3>1. ASSUME NEW active \in BOOLEAN, NEW still \in BOOLEAN, NEW m,
                 m = [rcv EXCEPT !.is_active = active, !.is_open = still, !.trouble = TRUE]
          PROVE  /\ m \in Receivers
                 /\ m.state = rcv.state /\ m.attempts_left = rcv.attempts_left
                 /\ m.ret = rcv.ret /\ m.sequence_number = rcv.sequence_number
      BY <1>1, <3>1 DEF Receivers
    <3>2. [rcv EXCEPT !.trouble = TRUE]
            = [rcv EXCEPT !.is_active = rcv.is_active, !.is_open = rcv.is_open, !.trouble = TRUE]
      BY <1>1 DEF Receivers
    <3>3. rcv.is_active \in BOOLEAN /\ rcv.is_open \in BOOLEAN
      BY <1>1 DEF Receivers
    <3> QED BY <2>1, <3>1, <3>2, <3>3
  <2> QED BY <1>2, <2>1, <2>2, <2>3, <2>4
<1> QED BY <1>3, <1>4

\* Every step of the receiver's, with the same number of start packets.
LEMMA ReceiverPrefix ==
  ASSUME AllInv, AllInv', setup.debug, Fits, NEW b \in 0..submitted, Inv(b), Receiver
  PROVE  \E c \in 0..submitted' : Inv(c)'
<1>1. CASE receive_llopen \/ llread_fails \/ receive_llclose
  <2>1. Quiet
    BY <1>1, QuietSteps
  <2> QED BY <2>1, QuietPrefix DEF Quiet, Listened
<1>2. CASE llread \/ llread_nothing
  BY <1>2, ReadPrefix
<1> QED BY <1>1, <1>2 DEF Receiver

-----------------------------------------------------------------------------
(* The theorems.                                                           *)

\* The invariant holds at first, with no start packet.
LEMMA PrefixInit ==
  ASSUME Init
  PROVE  PrefixInv
<1>1. /\ submitted = 0 /\ outstanding = FALSE /\ delivered = <<>> /\ confirmed = {}
      /\ sent = <<>> /\ written = <<>>
      /\ snd.state = SND_OPEN_CONNECTION /\ snd.sequence_number = 0
      /\ snd.num_data_bytes_sent = 0
      /\ rcv.state = RCV_OPEN_CONNECTION /\ rcv.sequence_number = 0
      /\ setup.file_size \in Nat
  BY SizesAssumption DEF Init, Link!Init
<1>2. /\ snd.state \notin SND_DATA_PACKETS..SND_CLOSE_CONNECTION
      /\ snd.state \notin SND_CLOSE_CONTROL_PACKET..SND_CLOSE_CONNECTION
      /\ snd.state # SND_DATA_PACKETS /\ rcv.state # RCV_DATA_PACKETS
  BY <1>1 DEF SND_OPEN_CONNECTION, SND_DATA_PACKETS, SND_CLOSE_CONTROL_PACKET,
     SND_CLOSE_CONNECTION, RCV_OPEN_CONNECTION, RCV_DATA_PACKETS
<1>3. SentInv(0)
  BY <1>1, <1>2 DEF SentInv, Upto
<1>4. TakenInv(0)
  BY <1>1 DEF TakenInv, Upto
<1>5. GapInv(0)
  BY <1>2 DEF GapInv, Behind
<1>6. 0 \in 0..submitted
  BY <1>1
<1> QED BY <1>3, <1>4, <1>5, <1>6 DEF PrefixInv

\* The attempts and the numbers are chosen once and for all.
LEMMA PrefixStep ==
  ASSUME AllInv, AllInv', PrefixInv, [Next]_vars
  PROVE  PrefixInv'
<1>1. CASE Next
  <2>1. setup' = setup
    BY <1>1 DEF Next, Transmitter, Receiver, llopen, send_start, send_end, send_control_packet,
       send_data_packets, write_confirmed, write_failed, send_llclose, receive_llopen, llread,
       llread_nothing, llread_fails, receive_llclose
  <2> SUFFICES ASSUME setup.debug, Fits
               PROVE  \E c \in 0..submitted' : Inv(c)'
    BY <2>1 DEF PrefixInv, Fits, Inv
  <2>2. PICK b \in 0..submitted : Inv(b)
    BY DEF PrefixInv, Fits, Inv
  <2> QED BY <1>1, <2>2, TransmitterPrefix, ReceiverPrefix DEF Next
<1>2. CASE UNCHANGED vars
  <2>1. UNCHANGED <<setup, snd, rcv, sent, written, submitted, outstanding, delivered, confirmed,
                    ahead>>
    BY <1>2 DEF vars, linkvars
  <2> QED BY <2>1 DEF PrefixInv, SentInv, TakenInv, GapInv, Behind, Upto
<1> QED BY <1>1, <1>2

\* The received file is what the numbers of both sides say, and the receiver is not so
\* far behind that a number could be taken for another.
THEOREM PrefixCorrect == Spec => []PrefixInv
<1>1. AllInv /\ PrefixInv /\ AllInv' /\ [Next]_vars => PrefixInv'
  BY PrefixStep
<1>2. Init => PrefixInv
  BY PrefixInit
<1>3. Spec => []AllInv
  BY FileCorrect DEF AllInv
<1> QED BY <1>1, <1>2, <1>3, PTL DEF Spec

\* The debugging build's file is a prefix of the file, for any sizes and attempts that
\* fit in the sequence numbers, whatever fails and whichever packets are refused.
THEOREM NothingOutOfPlace == Spec => []Prefix
<1>1. TypeOK /\ PrefixInv => Prefix
  <2> SUFFICES ASSUME TypeOK, PrefixInv, setup.debug,
                      max_send_attempts + max_receive_attempts <= sequence_number_modulus
               PROVE  Len(written) <= setup.file_size /\ written = [i \in 1..Len(written) |-> i]
    BY DEF Prefix
  <2>1. PICK b \in 0..submitted : TakenInv(b)
    BY DEF PrefixInv
  <2>2. written \in Seq(Nat)
    BY DEF TypeOK
  <2> QED BY <2>1, <2>2 DEF TakenInv
<1> QED BY <1>1, PrefixCorrect, FileTypes, PTL
=============================================================================
