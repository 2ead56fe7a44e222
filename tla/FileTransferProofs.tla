------------------------- MODULE FileTransferProofs -------------------------
(***************************************************************************)
(* What is proved of the file transfer, for any number of attempts, any    *)
(* sizes and any failures of the calls it makes: the types, and that       *)
(* FileInv is invariant, from which DescriptorInTable, SettingsRestored,   *)
(* SentToTheEnd and FreedOnce follow.                                      *)
(***************************************************************************)
EXTENDS FileTransferInv, TLAPS

Senders ==
  [state : SND_OPEN_CONNECTION..SND_CLOSE_CONNECTION,
   attempts_left : 0..max_send_attempts, fd : Nat, is_active : BOOLEAN,
   num_data_bytes_sent : 0..setup.file_size, sequence_number : Nat,
   ret : {Running, 0, -1}]

Receivers ==
  [state : RCV_OPEN_CONNECTION..RCV_CLOSE_CONNECTION,
   attempts_left : 0..max_receive_attempts, is_active : BOOLEAN,
   is_open : BOOLEAN, received_file : BOOLEAN, sequence_number : Nat, lost_packets : Nat,
   duplicated_packets : Nat, trouble : BOOLEAN,
   ret : {Running, 0, -1, Aborted}]

Packets == [field : 1..3, seq : 0..sequence_number_modulus - 1, data : Seq(Nat)]

\* The types of the data, one machine or the other left out.
DataTypes ==
  /\ setup \in [debug : Builds, file_size : FileSizes,
                control_packet_size : ControlPacketSizes]
  /\ descriptors \in Nat
  /\ tty \in [settings : {"original", "raw"}, saved : {"none", "original", "raw"}]
  /\ sent \in Seq(Packets) /\ Len(sent) = submitted

ServiceTypes ==
  /\ at_most_once \in BOOLEAN /\ outstanding \in BOOLEAN /\ ahead \in BOOLEAN
  /\ submitted \in Nat
  /\ delivered \in Seq(1..submitted)
  /\ confirmed \subseteq 1..submitted

\* TypeOK in parts: what each machine and the rest must be.
LEMMA Types ==
  TypeOK <=> /\ DataTypes /\ ServiceTypes
             /\ snd \in Senders /\ rcv \in Receivers /\ written \in Seq(Nat)
<1>1. sent \in Seq(Packets) => Len(sent) \in Nat
  OBVIOUS
<1> QED BY <1>1 DEF TypeOK, DataTypes, ServiceTypes, Senders, Receivers, Packets

\* The same for the state after a step.
LEMMA TypesNext ==
  ASSUME DataTypes', ServiceTypes', snd' \in Senders', rcv' \in Receivers',
         written' \in Seq(Nat)
  PROVE  TypeOK'
BY DEF TypeOK, DataTypes, ServiceTypes, Senders, Receivers, Packets

-----------------------------------------------------------------------------
(* The operators on the machines.                                          *)

\* A failed attempt takes one away and nothing else; the last ends the loop.
LEMMA RetrySender ==
  ASSUME NEW m \in Senders, m.attempts_left > 0
  PROVE  /\ retry(m) \in Senders
         /\ retry(m).attempts_left = m.attempts_left - 1
         /\ retry(m).ret = IF m.attempts_left = 1 THEN -1 ELSE m.ret
         /\ retry(m).state = m.state /\ retry(m).fd = m.fd
         /\ retry(m).is_active = m.is_active
         /\ retry(m).num_data_bytes_sent = m.num_data_bytes_sent
<1>1. m.attempts_left - 1 \in 0..max_send_attempts
  BY AttemptsAssumption DEF Senders
<1>2. (IF m.attempts_left = 1 THEN -1 ELSE m.ret) \in {Running, 0, -1}
  BY DEF Senders
<1>3. retry(m) \in Senders
  BY <1>1, <1>2 DEF retry, Senders
<1> QED BY <1>3 DEF retry, Senders

\* The same of the receiver's machine.
LEMMA RetryReceiver ==
  ASSUME NEW m \in Receivers, m.attempts_left > 0
  PROVE  /\ retry(m) \in Receivers
         /\ retry(m).attempts_left = m.attempts_left - 1
         /\ retry(m).ret = IF m.attempts_left = 1 THEN -1 ELSE m.ret
         /\ retry(m).state = m.state /\ retry(m).is_active = m.is_active
<1>1. m.attempts_left - 1 \in 0..max_receive_attempts
  BY AttemptsAssumption DEF Receivers
<1>2. (IF m.attempts_left = 1 THEN -1 ELSE m.ret) \in {Running, 0, -1, Aborted}
  BY DEF Receivers
<1>3. retry(m) \in Receivers
  BY <1>1, <1>2 DEF retry, Receivers
<1> QED BY <1>3 DEF retry, Receivers

\* A call that succeeds gives all attempts back.
LEMMA AdvanceSender ==
  ASSUME NEW m \in Senders, NEW next \in SND_OPEN_CONNECTION..SND_CLOSE_CONNECTION
  PROVE  /\ Advance(m, next, max_send_attempts) \in Senders
         /\ Advance(m, next, max_send_attempts).attempts_left = max_send_attempts
         /\ Advance(m, next, max_send_attempts).state = next
         /\ Advance(m, next, max_send_attempts).ret = m.ret
         /\ Advance(m, next, max_send_attempts).fd = m.fd
         /\ Advance(m, next, max_send_attempts).is_active = m.is_active
         /\ Advance(m, next, max_send_attempts).num_data_bytes_sent = m.num_data_bytes_sent
<1>1. max_send_attempts \in 0..max_send_attempts
  BY AttemptsAssumption
<1>2. Advance(m, next, max_send_attempts) \in Senders
  BY <1>1 DEF Advance, Senders
<1> QED BY <1>2 DEF Advance, Senders

\* A chunk is not empty and does not run past the end of the file.
LEMMA ChunkFits ==
  ASSUME NEW size \in Nat, NEW n \in Nat, n < size, setup.file_size = size
  PROVE  data_bytes_to_send(n) \in 1..(size - n)
<1> DEFINE d == max_data_size
<1>1. d \in Nat \ {0}
  BY SizesAssumption DEF max_data_size, data_packet_header_size
<1> HIDE DEF d
<1>2. PICK x \in Nat : x = size - n /\ x > 0
  OBVIOUS
<1>3. /\ x % d \in 0..(d - 1)
      /\ x < d => x % d = x
  BY <1>1, <1>2
<1>4. x % d <= x
  BY <1>1, <1>2, <1>3
<1> QED BY <1>1, <1>2, <1>3, <1>4 DEF data_bytes_to_send, d

\* A data packet holds bytes of the file and a number below the modulus.
LEMMA DataPacketType ==
  ASSUME NEW size \in Nat, NEW n \in Nat, n < size, setup.file_size = size,
         NEW s \in Nat
  PROVE  DataPacket(n, s) \in Packets /\ DataPacket(n, s).field = control_field_data
<1> DEFINE k == n + data_bytes_to_send(n)
<1>1. k \in (n + 1)..size
  BY ChunkFits
<1>2. file \in Seq(Nat) /\ Len(file) = size
  BY DEF file
<1> HIDE DEF k
<1>3. SubSeq(file, n + 1, k) \in Seq(Nat)
  BY <1>1, <1>2
<1>4. s % sequence_number_modulus \in 0..(sequence_number_modulus - 1)
  BY SizesAssumption
<1> QED BY <1>3, <1>4 DEF DataPacket, Packets, control_field_data, k

\* The position stays within the file.
LEMMA MovedSender ==
  ASSUME NEW m \in Senders, setup.file_size \in Nat, m.num_data_bytes_sent < setup.file_size
  PROVE  /\ Moved(m) \in Senders
         /\ Moved(m).attempts_left = m.attempts_left /\ Moved(m).ret = m.ret
         /\ Moved(m).state = m.state /\ Moved(m).fd = m.fd
         /\ Moved(m).is_active = m.is_active
<1>1. m.num_data_bytes_sent \in Nat
  BY DEF Senders
<1>2. data_bytes_to_send(m.num_data_bytes_sent) \in 1..(setup.file_size - m.num_data_bytes_sent)
  BY <1>1, ChunkFits
<1>3. m.num_data_bytes_sent + data_bytes_to_send(m.num_data_bytes_sent) \in 0..setup.file_size
  BY <1>1, <1>2
<1>4. m.sequence_number + 1 \in Nat
  BY DEF Senders
<1>5. Moved(m) \in Senders
  BY <1>3, <1>4 DEF Moved, Senders
<1> QED BY <1>5 DEF Moved, Senders

-----------------------------------------------------------------------------
(* The transmitter's steps.                                                *)

AllInv == TypeOK /\ FileInv

\* A packet is written: what holds of the packets before it still does.
LEMMA Submitted ==
  ASSUME DataTypes, ServiceTypes, NEW p \in Packets, Link!Submit, sent' = Append(sent, p)
  PROVE  /\ sent' \in Seq(Packets) /\ Len(sent') = submitted' /\ ServiceTypes'
         /\ submitted' = submitted + 1 /\ sent'[submitted'] = p
         /\ \A k \in 1..submitted : sent'[k] = sent[k]
         /\ UNCHANGED <<at_most_once, delivered, confirmed, ahead>>
         /\ outstanding' \in BOOLEAN
<1>1. /\ submitted' = submitted + 1 /\ UNCHANGED <<at_most_once, delivered, confirmed, ahead>>
      /\ outstanding' \in BOOLEAN
  BY DEF Link!Submit
<1>2. /\ sent' \in Seq(Packets) /\ Len(sent') = submitted' /\ sent'[submitted'] = p
      /\ \A k \in 1..submitted : sent'[k] = sent[k]
  BY <1>1 DEF DataTypes, ServiceTypes
<1>3. ServiceTypes'
  <2>1. submitted' \in Nat /\ 1..submitted \subseteq 1..submitted'
    BY <1>1 DEF ServiceTypes
  <2>2. delivered \in Seq(1..submitted')
    BY <2>1 DEF ServiceTypes
  <2> QED BY <1>1, <2>1, <2>2 DEF ServiceTypes
<1> QED BY <1>1, <1>2, <1>3

\* The state of a transmitter stays while it writes: nothing but the attempts, the
\* position and the result changes, and it has not returned 0.
Stays ==
  /\ snd' \in Senders /\ rcv' = rcv
  /\ snd'.state = snd.state /\ snd'.fd = snd.fd /\ snd'.is_active = snd.is_active
  /\ snd.state # SND_DATA_PACKETS => snd'.num_data_bytes_sent = snd.num_data_bytes_sent
  /\ snd'.ret \in {Running, -1}
  /\ snd'.ret = Running => snd'.attempts_left > 0
  /\ snd'.attempts_left <= snd.attempts_left
  /\ UNCHANGED <<setup, descriptors, tty, written>>

\* That is so of any of its failed attempts.
LEMMA StaysInSenders ==
  ASSUME AllInv, snd.ret = Running, NEW m \in Senders, UNCHANGED setup,
         m.state = snd.state, m.fd = snd.fd, m.is_active = snd.is_active,
         m.attempts_left = snd.attempts_left, m.ret = snd.ret,
         snd.state # SND_DATA_PACKETS => m.num_data_bytes_sent = snd.num_data_bytes_sent,
         snd' = m \/ snd' = retry(m),
         UNCHANGED <<rcv, descriptors, tty, written>>
  PROVE  Stays /\ (snd' = m => snd'.ret = Running)
<1>1. m.attempts_left > 0 /\ m.attempts_left \in Nat
  BY DEF AllInv, FileInv, WriteInv, Senders
<1>2. Senders' = Senders
  BY DEF Senders
<1>3. CASE snd' = m
  BY <1>1, <1>2, <1>3 DEF Stays
<1>4. CASE snd' = retry(m)
  <2>1. /\ snd' \in Senders /\ snd'.attempts_left = m.attempts_left - 1
        /\ snd'.ret = IF m.attempts_left = 1 THEN -1 ELSE m.ret
        /\ snd'.state = m.state /\ snd'.fd = m.fd /\ snd'.is_active = m.is_active
        /\ snd'.num_data_bytes_sent = m.num_data_bytes_sent
    BY <1>1, <1>4, RetrySender
  <2>2. snd'.ret \in {Running, -1} /\ (snd'.ret = Running => snd'.attempts_left > 0)
    BY <1>1, <2>1 DEF Running
  <2>3. snd'.attempts_left <= snd.attempts_left
    BY <1>1, <2>1
  <2> QED BY <2>1, <2>2, <2>3 DEF Stays
<1> QED BY <1>3, <1>4

\* A write, successful so far or not, keeps the invariant.
LEMMA WriteKeeps ==
  ASSUME AllInv, NEW p \in Packets, Link!Submit, sent' = Append(sent, p),
         Stays, outstanding' => snd'.ret = Running,
         snd.state \in SND_START_CONTROL_PACKET..SND_CLOSE_CONTROL_PACKET,
         p.field = FieldOf(snd.state)
  PROVE  AllInv'
<1>1. /\ sent' \in Seq(Packets) /\ Len(sent') = submitted' /\ ServiceTypes'
      /\ submitted' = submitted + 1 /\ sent'[submitted'] = p
      /\ \A k \in 1..submitted : sent'[k] = sent[k]
      /\ UNCHANGED <<at_most_once, delivered, confirmed, ahead>>
  BY Types, Submitted DEF AllInv
<1>2. /\ submitted \in Nat /\ confirmed \subseteq 1..submitted
      /\ delivered \in Seq(1..submitted) /\ Len(delivered) \in Nat
  BY Types DEF AllInv, ServiceTypes
<1>3. TypeOK'
  <2>1. Senders' = Senders /\ Receivers' = Receivers
    BY DEF Stays, Senders, Receivers
  <2>2. DataTypes'
    BY <1>1, Types DEF AllInv, Stays, DataTypes
  <2> QED BY <1>1, <2>1, <2>2, Types, TypesNext DEF AllInv, Stays
<1>4. WriteInv'
  BY <1>1, <1>2 DEF WriteInv, Stays
<1>5. DescriptorInv'
  BY DEF AllInv, FileInv, DescriptorInv, Stays, SND_START_CONTROL_PACKET, SND_CLOSE_CONTROL_PACKET, SND_OPEN_CONNECTION
<1>6. PortInv'
  BY DEF AllInv, FileInv, PortInv, Stays, Running
<1>7. EndInv'
  BY DEF AllInv, FileInv, EndInv, Stays, Running, SND_START_CONTROL_PACKET,
         SND_CLOSE_CONTROL_PACKET, SND_DATA_PACKETS, SND_CLOSE_CONNECTION
<1>8. DeliveryInv'
  BY <1>1 DEF AllInv, FileInv, DeliveryInv, Stays, TransmitterLeaves
<1>9. StartInv'
  <2>1. ASSUME snd.state \in {SND_OPEN_CONNECTION, SND_START_CONTROL_PACKET}
        PROVE  \A k \in 1..submitted' : sent'[k].field = control_field_start
    <3>1. p.field = control_field_start
      BY <2>1 DEF FieldOf, SND_START_CONTROL_PACKET, SND_DATA_PACKETS,
                  SND_CLOSE_CONTROL_PACKET, SND_OPEN_CONNECTION
    <3> QED BY <1>1, <1>2, <2>1, <3>1 DEF AllInv, FileInv, StartInv
  <2>2. delivered # <<>> => delivered[1] \in 1..submitted
    BY <1>2
  <2> QED BY <1>1, <2>1, <2>2 DEF AllInv, FileInv, StartInv, Stays
<1>10. RefusedInv'
  BY <1>1 DEF AllInv, FileInv, RefusedInv, Stays
<1> QED BY <1>3, <1>4, <1>5, <1>6, <1>7, <1>8, <1>9, <1>10 DEF AllInv, FileInv

\* So does a failed attempt in which nothing is written.
LEMMA FailureKeeps ==
  ASSUME AllInv, Stays, snd.state # SND_OPEN_CONNECTION, outstanding' = FALSE,
         snd.state \in SND_START_CONTROL_PACKET..SND_CLOSE_CONTROL_PACKET,
         UNCHANGED <<at_most_once, submitted, delivered, confirmed, ahead, sent>>
  PROVE  AllInv'
<1>3. TypeOK'
  <2>1. Senders' = Senders /\ Receivers' = Receivers
    BY DEF Stays, Senders, Receivers
  <2>2. DataTypes' /\ ServiceTypes'
    BY Types DEF AllInv, Stays, DataTypes, ServiceTypes
  <2> QED BY <2>1, <2>2, Types, TypesNext DEF AllInv, Stays
<1>4. WriteInv'
  BY DEF WriteInv, Stays
<1>5. DescriptorInv'
  BY DEF AllInv, FileInv, DescriptorInv, Stays
<1>6. PortInv'
  BY DEF AllInv, FileInv, PortInv, Stays, Running
<1>7. EndInv'
  BY DEF AllInv, FileInv, EndInv, Stays, Running, SND_START_CONTROL_PACKET,
         SND_CLOSE_CONTROL_PACKET, SND_DATA_PACKETS, SND_CLOSE_CONNECTION
<1>8. DeliveryInv'
  BY DEF AllInv, FileInv, DeliveryInv, Stays, TransmitterLeaves
<1>9. StartInv'
  BY DEF AllInv, FileInv, StartInv, Stays
<1>10. RefusedInv'
  BY DEF AllInv, FileInv, RefusedInv, Stays
<1> QED BY <1>3, <1>4, <1>5, <1>6, <1>7, <1>8, <1>9, <1>10 DEF AllInv, FileInv

\* llopen: a descriptor more for at most one attempt less.
LEMMA ConnectStep ==
  ASSUME AllInv, llopen
  PROVE  AllInv'
<1>1. /\ snd \in Senders /\ descriptors \in Nat /\ outstanding = FALSE
      /\ snd.ret = Running /\ snd.state = SND_OPEN_CONNECTION
      /\ snd.attempts_left \in Nat /\ snd.attempts_left > 0
      /\ descriptors + snd.attempts_left <= max_send_attempts
      /\ Senders' = Senders /\ Receivers' = Receivers
      /\ tty \in [settings : {"original", "raw"}, saved : {"none", "original", "raw"}]
      /\ UNCHANGED <<setup, rcv, sent, written, at_most_once, submitted, outstanding,
                     delivered, confirmed, ahead>>
  BY Types DEF AllInv, FileInv, WriteInv, DescriptorInv, llopen, Sending, DataTypes,
               ServiceTypes, Senders, Receivers, linkvars
\* What becomes of the machine and the port.
<1>2. /\ snd' \in Senders
      /\ descriptors' \in {descriptors, descriptors + 1}
      /\ tty' \in [settings : {"original", "raw"}, saved : {"none", "original", "raw"}]
      /\ snd'.ret \in {Running, -1}
      /\ snd'.ret = Running => snd'.attempts_left > 0
      /\ descriptors' = 0 => tty' = tty
      /\ \/ /\ snd'.state = SND_OPEN_CONNECTION
            /\ snd'.ret = Running => snd'.attempts_left = snd.attempts_left - 1
            /\ snd'.fd = snd.fd
         \/ /\ snd'.state = SND_START_CONTROL_PACKET
            /\ snd'.is_active /\ snd'.fd = FirstFd + descriptors
            /\ descriptors' = descriptors + 1 /\ tty' = opened
  <2>1. CASE snd' = retry(snd) /\ UNCHANGED tty /\ descriptors' \in {descriptors, descriptors + 1}
    BY <1>1, <2>1, RetrySender DEF Running
  <2>2. CASE /\ snd' = [snd EXCEPT !.ret = -1]
             /\ descriptors' = descriptors + 1
             /\ tty' = [tty EXCEPT !.saved = tty.settings]
    <3>1. snd' \in Senders /\ snd'.ret = -1 /\ snd'.state = snd.state /\ snd'.fd = snd.fd
      BY <1>1, <2>2 DEF Senders
    <3>2. tty' \in [settings : {"original", "raw"}, saved : {"none", "original", "raw"}]
      BY <1>1, <2>2
    <3> QED BY <1>1, <2>2, <3>1, <3>2 DEF Running
  <2>3. CASE snd' = retry(snd) /\ descriptors' = descriptors + 1 /\ tty' = opened
    <3>1. tty' \in [settings : {"original", "raw"}, saved : {"none", "original", "raw"}]
      BY <1>1, <2>3 DEF opened
    <3> QED BY <1>1, <2>3, <3>1, RetrySender DEF Running
  <2>4. CASE /\ snd' = [Advance(snd, SND_START_CONTROL_PACKET, max_send_attempts)
                          EXCEPT !.fd = next_fd, !.is_active = TRUE]
             /\ descriptors' = descriptors + 1 /\ tty' = opened
    <3> DEFINE a == Advance(snd, SND_START_CONTROL_PACKET, max_send_attempts)
    <3>1. /\ a \in Senders /\ a.attempts_left = max_send_attempts
          /\ a.state = SND_START_CONTROL_PACKET /\ a.ret = Running
      BY <1>1, AdvanceSender DEF SND_OPEN_CONNECTION, SND_START_CONTROL_PACKET, SND_CLOSE_CONNECTION
    <3>2. next_fd \in Nat
      BY <1>1, ProgramAssumption DEF next_fd
    <3> HIDE DEF a
    <3>3. /\ snd' \in Senders /\ snd'.attempts_left = max_send_attempts
          /\ snd'.state = SND_START_CONTROL_PACKET /\ snd'.ret = Running
          /\ snd'.is_active /\ snd'.fd = next_fd
      <4>1. snd' = [a EXCEPT !.fd = next_fd, !.is_active = TRUE]
        BY <2>4 DEF a
      <4> QED BY <3>1, <3>2, <4>1 DEF Senders
    <3>4. tty' \in [settings : {"original", "raw"}, saved : {"none", "original", "raw"}]
      BY <1>1, <2>4 DEF opened
    <3>5. max_send_attempts > 0
      BY AttemptsAssumption
    <3> QED BY <1>1, <2>4, <3>3, <3>4, <3>5 DEF next_fd
  <2> QED BY <2>1, <2>2, <2>3, <2>4 DEF llopen
<1>3. TypeOK'
  <2>1. DataTypes' /\ ServiceTypes'
    BY <1>1, <1>2, Types DEF AllInv, DataTypes, ServiceTypes
  <2> QED BY <1>1, <1>2, <2>1, Types, TypesNext DEF AllInv
<1>4. WriteInv'
  BY <1>1, <1>2 DEF WriteInv
<1>5. DescriptorInv'
  BY <1>1, <1>2, ProgramAssumption, AttemptsAssumption
     DEF AllInv, FileInv, DescriptorInv, SND_OPEN_CONNECTION, SND_START_CONTROL_PACKET
<1>6. PortInv'
  <2>1. descriptors' = 0 => tty'.settings = "original"
    BY <1>1, <1>2 DEF AllInv, FileInv, PortInv
  <2>2. ASSUME snd'.state # SND_OPEN_CONNECTION
        PROVE  /\ descriptors' > 0 /\ tty'.saved # "none"
               /\ descriptors' = 1 => tty'.saved = "original"
    <3>1. tty'.saved = tty.settings /\ descriptors' = descriptors + 1
      BY <1>1, <1>2, <2>2 DEF opened
    <3> QED BY <1>1, <3>1 DEF AllInv, FileInv, PortInv
  <2> QED BY <1>2, <2>1, <2>2 DEF PortInv, Running
<1>7. EndInv'
  BY <1>2 DEF EndInv, Running, SND_OPEN_CONNECTION, SND_START_CONTROL_PACKET,
     SND_CLOSE_CONTROL_PACKET, SND_CLOSE_CONNECTION
<1>8. DeliveryInv'
  BY <1>1, <1>2 DEF AllInv, FileInv, DeliveryInv, TransmitterLeaves, SND_OPEN_CONNECTION,
     SND_START_CONTROL_PACKET, SND_DATA_PACKETS, SND_CLOSE_CONNECTION
<1>9. StartInv'
  BY <1>1 DEF AllInv, FileInv, StartInv
<1>10. RefusedInv'
  BY <1>1 DEF AllInv, FileInv, RefusedInv
<1> QED BY <1>3, <1>4, <1>5, <1>6, <1>7, <1>8, <1>9, <1>10 DEF AllInv, FileInv

\* The start and the end packet.
LEMMA ControlStep ==
  ASSUME AllInv, send_start \/ send_end
  PROVE  AllInv'
<1>1. PICK field \in {control_field_start, control_field_end} :
        /\ send_control_packet(field) /\ field = FieldOf(snd.state)
        /\ snd.ret = Running /\ outstanding = FALSE
        /\ snd.state \in {SND_START_CONTROL_PACKET, SND_CLOSE_CONTROL_PACKET}
  BY Types DEF AllInv, ServiceTypes, send_start, send_end, Sending, FieldOf,
     SND_START_CONTROL_PACKET, SND_DATA_PACKETS, SND_CLOSE_CONTROL_PACKET
<1>2. /\ snd \in Senders /\ snd.state \in SND_START_CONTROL_PACKET..SND_CLOSE_CONTROL_PACKET
      /\ snd.state # SND_OPEN_CONNECTION
  BY <1>1, Types DEF AllInv, SND_START_CONTROL_PACKET, SND_CLOSE_CONTROL_PACKET, SND_OPEN_CONNECTION
<1>3. CASE snd' = retry(snd) /\ UNCHANGED <<sent, linkvars>>
  <2>1. Stays
    BY <1>1, <1>2, <1>3, StaysInSenders DEF send_control_packet
  <2> QED BY <1>1, <1>2, <1>3, <2>1, FailureKeeps DEF linkvars
<1>4. CASE /\ Link!Submit /\ sent' = Append(sent, ControlPacket(field))
           /\ snd' = IF outstanding' THEN snd ELSE retry(snd)
  <2>1. ControlPacket(field) \in Packets /\ ControlPacket(field).field = field
    <3>1. 0 \in 0..(sequence_number_modulus - 1)
      BY SizesAssumption
    <3>2. field \in 1..3
      BY DEF control_field_start, control_field_end
    <3>3. <<>> \in Seq(Nat)
      OBVIOUS
    <3> QED BY <3>1, <3>2, <3>3 DEF ControlPacket, Packets
  <2>2. Stays /\ (outstanding' => snd'.ret = Running)
    BY <1>1, <1>2, <1>4, StaysInSenders DEF send_control_packet
  <2> QED BY <1>1, <1>2, <1>4, <2>1, <2>2, WriteKeeps
<1> QED BY <1>1, <1>3, <1>4 DEF send_control_packet

\* The data packets, and the step to the end packet after the last of them.
LEMMA DataStep ==
  ASSUME AllInv, send_data_packets
  PROVE  AllInv'
<1>1. /\ snd \in Senders /\ outstanding = FALSE /\ snd.ret = Running
      /\ snd.state = SND_DATA_PACKETS /\ snd.attempts_left > 0
      /\ setup.file_size \in Nat /\ snd.num_data_bytes_sent \in 0..setup.file_size
      /\ snd.sequence_number \in Nat
      /\ Senders' = Senders /\ Receivers' = Receivers
      /\ UNCHANGED <<setup, rcv, descriptors, tty, written>>
  BY Types, SizesAssumption DEF AllInv, FileInv, WriteInv, DataTypes, ServiceTypes,
     send_data_packets, Sending, Senders, Receivers
<1>2. /\ snd.state \in SND_START_CONTROL_PACKET..SND_CLOSE_CONTROL_PACKET
      /\ snd.state # SND_OPEN_CONNECTION
  BY <1>1 DEF SND_START_CONTROL_PACKET, SND_DATA_PACKETS, SND_CLOSE_CONTROL_PACKET, SND_OPEN_CONNECTION
<1>3. CASE /\ snd.num_data_bytes_sent = setup.file_size
           /\ snd' = Advance(snd, SND_CLOSE_CONTROL_PACKET, max_send_attempts)
           /\ UNCHANGED <<sent, linkvars>>
  <2>1. /\ snd' \in Senders /\ snd'.attempts_left = max_send_attempts
        /\ snd'.state = SND_CLOSE_CONTROL_PACKET /\ snd'.ret = Running
        /\ snd'.fd = snd.fd /\ snd'.is_active = snd.is_active
        /\ snd'.num_data_bytes_sent = setup.file_size
    BY <1>1, <1>3, AdvanceSender DEF SND_CLOSE_CONTROL_PACKET, SND_CLOSE_CONNECTION, SND_OPEN_CONNECTION
  <2>2. UNCHANGED <<sent, at_most_once, submitted, outstanding, delivered, confirmed, ahead>>
    BY <1>3 DEF linkvars
  <2>3. TypeOK'
    <3>1. DataTypes' /\ ServiceTypes'
      BY <1>1, <2>2, Types DEF AllInv, DataTypes, ServiceTypes
    <3> QED BY <1>1, <2>1, <3>1, Types, TypesNext DEF AllInv
  <2>4. WriteInv'
    BY <1>1, <2>1, <2>2, AttemptsAssumption DEF WriteInv
  <2>5. DescriptorInv' /\ PortInv'
    BY <1>1, <2>1 DEF AllInv, FileInv, DescriptorInv, PortInv, Running, SND_OPEN_CONNECTION,
       SND_CLOSE_CONTROL_PACKET, SND_DATA_PACKETS
  <2>6. EndInv'
    BY <1>1, <2>1 DEF EndInv, Running, SND_CLOSE_CONTROL_PACKET, SND_CLOSE_CONNECTION
  <2>7. DeliveryInv'
    BY <1>1, <2>1, <2>2 DEF AllInv, FileInv, DeliveryInv, TransmitterLeaves, SND_OPEN_CONNECTION,
       SND_DATA_PACKETS, SND_CLOSE_CONTROL_PACKET, SND_CLOSE_CONNECTION
  <2>8. StartInv' /\ RefusedInv'
    BY <1>1, <2>1, <2>2 DEF AllInv, FileInv, StartInv, RefusedInv, SND_OPEN_CONNECTION,
       SND_START_CONTROL_PACKET, SND_CLOSE_CONTROL_PACKET
  <2> QED BY <2>3, <2>4, <2>5, <2>6, <2>7, <2>8 DEF AllInv, FileInv
<1>4. CASE snd' = retry(snd) /\ UNCHANGED <<sent, linkvars>>
  <2>1. Stays
    BY <1>1, <1>4, StaysInSenders
  <2> QED BY <1>1, <1>2, <1>4, <2>1, FailureKeeps DEF linkvars
<1>5. CASE /\ snd.num_data_bytes_sent < setup.file_size
           /\ Link!Submit
           /\ sent' = Append(sent, DataPacket(snd.num_data_bytes_sent, snd.sequence_number))
           /\ snd' = IF outstanding' THEN Moved(snd) ELSE retry(Moved(snd))
  <2> DEFINE p == DataPacket(snd.num_data_bytes_sent, snd.sequence_number)
  <2>1. p \in Packets /\ p.field = FieldOf(snd.state)
    BY <1>1, <1>5, DataPacketType DEF FieldOf, SND_START_CONTROL_PACKET, SND_DATA_PACKETS,
       SND_CLOSE_CONTROL_PACKET
  <2>2. /\ Moved(snd) \in Senders
        /\ Moved(snd).attempts_left = snd.attempts_left /\ Moved(snd).ret = snd.ret
        /\ Moved(snd).state = snd.state /\ Moved(snd).fd = snd.fd
        /\ Moved(snd).is_active = snd.is_active
    BY <1>1, <1>5, MovedSender
  <2>3. Stays /\ (outstanding' => snd'.ret = Running)
    BY <1>1, <1>5, <2>2, StaysInSenders
  <2> HIDE DEF p
  <2>4. sent' = Append(sent, p)
    BY <1>5 DEF p
  <2> QED BY <1>2, <1>5, <2>1, <2>3, <2>4, WriteKeeps
<1> QED BY <1>3, <1>4, <1>5 DEF send_data_packets

\* A write that fails is a failed attempt.
LEMMA FailedStep ==
  ASSUME AllInv, write_failed
  PROVE  AllInv'
<1>1. /\ outstanding /\ outstanding' = FALSE
      /\ UNCHANGED <<at_most_once, submitted, delivered, confirmed, ahead, sent>>
      /\ snd' = retry(snd) /\ UNCHANGED <<setup, rcv, descriptors, tty, written>>
  BY DEF write_failed, Link!Fail, AfterFailure
<1>2. /\ snd \in Senders /\ snd.ret = Running
      /\ snd.state \in SND_START_CONTROL_PACKET..SND_CLOSE_CONTROL_PACKET
  BY <1>1, Types DEF AllInv, FileInv, WriteInv
<1>3. snd.state # SND_OPEN_CONNECTION
  BY <1>2 DEF SND_START_CONTROL_PACKET, SND_CLOSE_CONTROL_PACKET, SND_OPEN_CONNECTION
<1>4. Stays
  BY <1>1, <1>2, StaysInSenders
<1> QED BY <1>1, <1>2, <1>3, <1>4, FailureKeeps

\* A confirmation answers a delivery: with the end packet's, both the first packet
\* and the end packet were delivered.
LEMMA ConfirmedStep ==
  ASSUME AllInv, write_confirmed
  PROVE  AllInv'
<1>1. /\ outstanding /\ outstanding' = FALSE /\ ahead /\ ahead' = FALSE
      /\ confirmed' = confirmed \cup {submitted}
      /\ UNCHANGED <<at_most_once, submitted, delivered, sent, setup, rcv, descriptors, tty, written>>
  BY DEF write_confirmed, Link!Confirm
<1>2. /\ snd \in Senders /\ snd.ret = Running /\ snd.attempts_left > 0
      /\ snd.state \in SND_START_CONTROL_PACKET..SND_CLOSE_CONTROL_PACKET
      /\ submitted \in Nat /\ submitted > 0 /\ sent[submitted].field = FieldOf(snd.state)
      /\ confirmed \subseteq 1..submitted
      /\ Senders' = Senders /\ Receivers' = Receivers
  BY <1>1, Types DEF AllInv, FileInv, WriteInv, ServiceTypes, Senders, Receivers
<1>3. /\ snd' \in Senders /\ snd'.ret = Running /\ snd'.attempts_left > 0
      /\ snd'.fd = snd.fd /\ snd'.is_active = snd.is_active
      /\ snd'.num_data_bytes_sent = snd.num_data_bytes_sent
      /\ snd'.state = IF snd.state = SND_START_CONTROL_PACKET THEN SND_DATA_PACKETS
                      ELSE IF snd.state = SND_CLOSE_CONTROL_PACKET THEN SND_CLOSE_CONNECTION
                      ELSE SND_DATA_PACKETS
  <2>1. max_send_attempts > 0
    BY AttemptsAssumption
  <2>2. CASE snd.state = SND_START_CONTROL_PACKET
    <3>1. snd' = Advance(snd, SND_DATA_PACKETS, max_send_attempts)
      BY <2>2 DEF write_confirmed, SND_START_CONTROL_PACKET, SND_CLOSE_CONTROL_PACKET
    <3>2. SND_DATA_PACKETS \in SND_OPEN_CONNECTION..SND_CLOSE_CONNECTION
      BY DEF SND_DATA_PACKETS, SND_OPEN_CONNECTION, SND_CLOSE_CONNECTION
    <3> QED BY <1>2, <2>1, <2>2, <3>1, <3>2, AdvanceSender
  <2>3. CASE snd.state = SND_CLOSE_CONTROL_PACKET
    <3>1. snd' = Advance(snd, SND_CLOSE_CONNECTION, max_send_attempts)
      BY <2>3 DEF write_confirmed, SND_START_CONTROL_PACKET, SND_CLOSE_CONTROL_PACKET
    <3>2. SND_CLOSE_CONNECTION \in SND_OPEN_CONNECTION..SND_CLOSE_CONNECTION
      BY DEF SND_OPEN_CONNECTION, SND_CLOSE_CONNECTION
    <3>3. SND_START_CONTROL_PACKET # SND_CLOSE_CONTROL_PACKET
      BY DEF SND_START_CONTROL_PACKET, SND_CLOSE_CONTROL_PACKET
    <3> QED BY <1>2, <2>1, <2>3, <3>1, <3>2, <3>3, AdvanceSender
  <2>4. CASE snd.state \notin {SND_START_CONTROL_PACKET, SND_CLOSE_CONTROL_PACKET}
    <3>1. snd' = snd
      BY <2>4 DEF write_confirmed
    <3>2. snd.state = SND_DATA_PACKETS
      BY <1>2, <2>4 DEF SND_START_CONTROL_PACKET, SND_DATA_PACKETS, SND_CLOSE_CONTROL_PACKET
    <3> QED BY <1>2, <2>4, <3>1, <3>2
  <2> QED BY <2>2, <2>3, <2>4
<1>4. TypeOK'
  <2>1. DataTypes'
    BY <1>1, Types DEF AllInv, DataTypes
  <2>2. confirmed' \subseteq 1..submitted
    BY <1>1, <1>2
  <2>3. ServiceTypes'
    BY <1>1, <2>2, Types DEF AllInv, ServiceTypes
  <2> QED BY <1>1, <1>2, <1>3, <2>1, <2>3, Types, TypesNext DEF AllInv
<1>5. WriteInv'
  BY <1>1, <1>3 DEF WriteInv
<1>6. DescriptorInv' /\ PortInv'
  BY <1>1, <1>2, <1>3 DEF AllInv, FileInv, DescriptorInv, PortInv, Running, SND_OPEN_CONNECTION,
     SND_START_CONTROL_PACKET, SND_CLOSE_CONTROL_PACKET, SND_DATA_PACKETS, SND_CLOSE_CONNECTION
<1>7. EndInv'
  <2>1. CASE snd.state # SND_CLOSE_CONTROL_PACKET
    BY <1>3, <2>1 DEF EndInv, Running, SND_DATA_PACKETS, SND_CLOSE_CONTROL_PACKET, SND_CLOSE_CONNECTION
  <2>2. CASE snd.state = SND_CLOSE_CONTROL_PACKET
    <3>1. sent[submitted].field = control_field_end
      BY <1>2, <2>2 DEF FieldOf, SND_START_CONTROL_PACKET, SND_DATA_PACKETS, SND_CLOSE_CONTROL_PACKET
    <3>2. \A j \in DataPackets : j < submitted
      BY <1>2, <3>1 DEF DataPackets, control_field_data, control_field_end
    <3>3. submitted \in confirmed' /\ DataPackets' = DataPackets /\ sent' = sent
      BY <1>1 DEF DataPackets
    <3>4. snd'.num_data_bytes_sent = setup'.file_size
      BY <1>1, <1>3, <2>2 DEF AllInv, FileInv, EndInv
    <3> QED BY <1>3, <3>1, <3>2, <3>3, <3>4 DEF EndInv, Running
  <2> QED BY <2>1, <2>2
<1>8. DeliveryInv'
  BY <1>1, <1>2, <1>3 DEF AllInv, FileInv, DeliveryInv, TransmitterLeaves, SND_OPEN_CONNECTION,
     SND_START_CONTROL_PACKET, SND_DATA_PACKETS, SND_CLOSE_CONTROL_PACKET, SND_CLOSE_CONNECTION
<1>9. StartInv' /\ RefusedInv'
  BY <1>1, <1>2, <1>3 DEF AllInv, FileInv, StartInv, RefusedInv, SND_OPEN_CONNECTION,
     SND_START_CONTROL_PACKET, SND_CLOSE_CONTROL_PACKET, SND_DATA_PACKETS, SND_CLOSE_CONNECTION
<1> QED BY <1>4, <1>5, <1>6, <1>7, <1>8, <1>9 DEF AllInv, FileInv

\* llclose: either the receiver leaves too, or back to the end packet.
LEMMA CloseStep ==
  ASSUME AllInv, send_llclose
  PROVE  AllInv'
<1>1. /\ snd \in Senders /\ outstanding = FALSE /\ snd.ret = Running
      /\ snd.state = SND_CLOSE_CONNECTION /\ snd.attempts_left > 0
      /\ Senders' = Senders /\ Receivers' = Receivers
      /\ UNCHANGED <<setup, rcv, descriptors, sent, written, at_most_once, submitted,
                     outstanding, delivered, confirmed, ahead>>
      /\ tty \in [settings : {"original", "raw"}, saved : {"none", "original", "raw"}]
      /\ tty.saved # "none"
  BY Types DEF AllInv, FileInv, WriteInv, PortInv, DataTypes, ServiceTypes, send_llclose,
     Sending, Senders, Receivers, linkvars, SND_CLOSE_CONNECTION, SND_OPEN_CONNECTION
<1> DEFINE left == [snd EXCEPT !.is_active = FALSE]
           again == [left EXCEPT !.state = AfterFailedClose]
           gone == [left EXCEPT !.state = AfterFailedClose, !.fd = 0]
<1>2. /\ closed \in [settings : {"original", "raw"}, saved : {"none", "original", "raw"}]
      /\ closed.saved = tty.saved /\ closed.settings = tty.saved
  BY <1>1 DEF closed
<1>3. AfterFailedClose = SND_CLOSE_CONTROL_PACKET
  BY DEF AfterFailedClose, RCV_CLOSE_CONNECTION, SND_CLOSE_CONTROL_PACKET
<1>4. \A m \in {again, gone} :
        /\ m \in Senders /\ m.state = SND_CLOSE_CONTROL_PACKET /\ m.ret = Running
        /\ m.attempts_left = snd.attempts_left /\ m.fd \in {0, snd.fd}
        /\ m.num_data_bytes_sent = snd.num_data_bytes_sent
  <2>1. SND_CLOSE_CONTROL_PACKET \in SND_OPEN_CONNECTION..SND_CLOSE_CONNECTION
    BY DEF SND_OPEN_CONNECTION, SND_CLOSE_CONTROL_PACKET, SND_CLOSE_CONNECTION
  <2>2. left \in Senders
    BY <1>1 DEF Senders
  <2>3. again \in Senders /\ gone \in Senders
    BY <1>1, <1>3, <2>1 DEF Senders
  <2> QED BY <1>1, <1>3, <2>3 DEF Senders
\* What becomes of the machine and the port.
<1>5. /\ snd' \in Senders /\ snd'.fd \in {0, snd.fd}
      /\ snd'.num_data_bytes_sent = snd.num_data_bytes_sent
      /\ tty' \in {tty, closed}
      /\ snd'.state \in {SND_CLOSE_CONTROL_PACKET, SND_CLOSE_CONNECTION}
      /\ snd'.ret = Running => snd'.attempts_left > 0
      /\ snd'.ret = 0 =>
           ReceiverLeaves /\ snd'.state = SND_CLOSE_CONNECTION /\ tty' = closed
  <2>1. CASE ReceiverLeaves /\ snd' = [left EXCEPT !.fd = 0, !.ret = 0] /\ tty' = closed
    BY <1>1, <2>1 DEF Senders, Running
  <2>2. ASSUME NEW m \in {again, gone}, snd' = retry(m), tty' \in {tty, closed}
        PROVE  <1>5!:
    <3> HIDE DEF left, again, gone
    <3>1. /\ m \in Senders /\ m.attempts_left > 0 /\ m.attempts_left \in Nat /\ m.ret = Running
      <4>1. m \in Senders /\ m.attempts_left = snd.attempts_left /\ m.ret = Running
        BY <1>4
      <4> QED BY <1>1, <4>1 DEF Senders
    <3>2. /\ snd' \in Senders /\ snd'.state = m.state /\ snd'.fd = m.fd
          /\ snd'.num_data_bytes_sent = m.num_data_bytes_sent
          /\ snd'.attempts_left = m.attempts_left - 1
          /\ snd'.ret = IF m.attempts_left = 1 THEN -1 ELSE m.ret
      BY <2>2, <3>1, RetrySender
    <3> QED BY <1>4, <2>2, <3>1, <3>2 DEF Running
  <2> QED BY <2>1, <2>2 DEF send_llclose
<1> HIDE DEF left, again, gone
<1>6. TypeOK'
  <2>1. DataTypes' /\ ServiceTypes'
    BY <1>1, <1>2, <1>5, Types DEF AllInv, DataTypes, ServiceTypes
  <2> QED BY <1>1, <1>5, <2>1, Types, TypesNext DEF AllInv
<1>7. WriteInv'
  BY <1>1, <1>5 DEF WriteInv
<1>8. DescriptorInv'
  BY <1>1, <1>5, AttemptsAssumption, ProgramAssumption DEF AllInv, FileInv, DescriptorInv,
     SND_OPEN_CONNECTION, SND_CLOSE_CONTROL_PACKET, SND_CLOSE_CONNECTION
<1>9. PortInv'
  <2>1. /\ descriptors > 0 /\ descriptors \in Nat
        /\ descriptors = 1 => tty.saved = "original"
    BY <1>1, Types DEF AllInv, FileInv, PortInv, DataTypes, SND_CLOSE_CONNECTION, SND_OPEN_CONNECTION
  <2>2. tty'.saved = tty.saved
    BY <1>2, <1>5
  <2>3. snd'.ret = 0 => snd'.state = SND_CLOSE_CONNECTION /\ tty'.settings = tty'.saved
    BY <1>2, <1>5
  <2>4. descriptors' = descriptors /\ descriptors # 0
    BY <1>1, <2>1
  <2> QED BY <1>1, <2>1, <2>2, <2>3, <2>4 DEF PortInv
<1>10. EndInv'
  <2>1. ReceiverLeaves' = ReceiverLeaves /\ DataPackets' = DataPackets
    BY <1>1 DEF ReceiverLeaves, DataPackets
  <2> QED BY <1>1, <1>5, <2>1 DEF AllInv, FileInv, EndInv
<1>11. DeliveryInv'
  <2>1. TransmitterLeaves
    BY <1>1 DEF TransmitterLeaves
  <2> QED BY <1>1, <2>1 DEF AllInv, FileInv, DeliveryInv, SND_DATA_PACKETS, SND_CLOSE_CONNECTION
<1>12. StartInv' /\ RefusedInv'
  BY <1>1, <1>5 DEF AllInv, FileInv, StartInv, RefusedInv, SND_OPEN_CONNECTION,
     SND_START_CONTROL_PACKET, SND_CLOSE_CONTROL_PACKET, SND_CLOSE_CONNECTION
<1> QED BY <1>6, <1>7, <1>8, <1>9, <1>10, <1>11, <1>12 DEF AllInv, FileInv

\* Every step of the transmitter keeps the invariant.
LEMMA TransmitterStep ==
  ASSUME AllInv, Transmitter
  PROVE  AllInv'
BY ConnectStep, ControlStep, DataStep, ConfirmedStep, FailedStep, CloseStep DEF Transmitter

-----------------------------------------------------------------------------
(* The receiver's steps.                                                   *)

\* The receiver's calls give its attempts back in the same way.
LEMMA AdvanceReceiver ==
  ASSUME NEW m \in Receivers, NEW next \in RCV_OPEN_CONNECTION..RCV_CLOSE_CONNECTION
  PROVE  /\ Advance(m, next, max_receive_attempts) \in Receivers
         /\ Advance(m, next, max_receive_attempts).attempts_left = max_receive_attempts
         /\ Advance(m, next, max_receive_attempts).state = next
         /\ Advance(m, next, max_receive_attempts).ret = m.ret
         /\ Advance(m, next, max_receive_attempts).is_active = m.is_active
<1>1. max_receive_attempts \in 0..max_receive_attempts
  BY AttemptsAssumption
<1>2. Advance(m, next, max_receive_attempts) \in Receivers
  BY <1>1 DEF Advance, Receivers
<1> QED BY <1>2 DEF Advance, Receivers

\* A packet refused costs an attempt.
LEMMA RefusedReceiver ==
  ASSUME NEW m \in Receivers, m.attempts_left > 0
  PROVE  /\ Refused(m) \in Receivers
         /\ Refused(m).attempts_left = m.attempts_left - 1
         /\ Refused(m).ret = IF m.attempts_left = 1 THEN -1 ELSE m.ret
         /\ Refused(m).state = m.state /\ Refused(m).is_active = m.is_active
<1>1. /\ retry(m) \in Receivers
      /\ retry(m).attempts_left = m.attempts_left - 1
      /\ retry(m).ret = IF m.attempts_left = 1 THEN -1 ELSE m.ret
      /\ retry(m).state = m.state /\ retry(m).is_active = m.is_active
  BY RetryReceiver
<1>2. Refused(m) \in Receivers
  BY <1>1 DEF Refused, Receivers
<1> QED BY <1>1, <1>2 DEF Refused, Receivers

\* A file that is not open ends the program.
LEMMA UsingReceiver ==
  ASSUME NEW m \in Receivers
  PROVE  /\ Using(m) \in Receivers
         /\ Using(m).attempts_left = m.attempts_left /\ Using(m).state = m.state
         /\ Using(m).is_active = m.is_active /\ Using(m).ret \in {m.ret, Aborted}
<1>1. Using(m) \in Receivers
  BY DEF Using, Receivers
<1> QED BY <1>1 DEF Using, Receivers

\* Whatever a packet's number is taken for, the machine's own stays a number.
LEMMA NumberedReceiver ==
  ASSUME NEW m \in Receivers, NEW seq \in 0..(sequence_number_modulus - 1),
         NEW n \in Numbered(m, seq)
  PROVE  /\ [n EXCEPT !.sequence_number = @ + 1] \in Receivers
         /\ n.attempts_left = m.attempts_left /\ n.state = m.state
         /\ n.is_active = m.is_active /\ n.ret = m.ret /\ n.received_file = m.received_file
<1> DEFINE expected == m.sequence_number % sequence_number_modulus
<1>1. expected \in Nat /\ m.sequence_number \in Nat /\ m.lost_packets \in Nat
      /\ m.duplicated_packets + 1 \in Nat /\ seq \in Nat
  BY SizesAssumption DEF Receivers
<1>2. \/ n = m
      \/ /\ seq > expected
         /\ n = [m EXCEPT !.sequence_number = @ + (seq - expected),
                          !.lost_packets = @ + (seq - expected)]
      \/ n = [m EXCEPT !.sequence_number = expected, !.duplicated_packets = @ + 1]
  <2> HIDE DEF expected
  <2>1. Numbered(m, seq) =
          CASE seq = expected -> {m}
            [] seq # expected /\ setup.debug -> {}
            [] seq > expected /\ ~setup.debug ->
                 {[m EXCEPT !.sequence_number = @ + (seq - expected),
                            !.lost_packets = @ + (seq - expected)]}
            [] seq < expected /\ ~setup.debug ->
                 {[m EXCEPT !.sequence_number = expected, !.duplicated_packets = @ + 1]}
    BY DEF Numbered, expected
  <2> QED BY <1>1, <2>1
<1> HIDE DEF expected
<1>3. /\ n \in Receivers
      /\ n.attempts_left = m.attempts_left /\ n.state = m.state
      /\ n.is_active = m.is_active /\ n.ret = m.ret /\ n.received_file = m.received_file
  <2>1. CASE n = m
    BY <2>1
  <2>2. CASE /\ seq > expected
             /\ n = [m EXCEPT !.sequence_number = @ + (seq - expected),
                              !.lost_packets = @ + (seq - expected)]
    <3>1. /\ m.sequence_number + (seq - expected) \in Nat
          /\ m.lost_packets + (seq - expected) \in Nat
      BY <1>1, <2>2
    <3>2. n \in Receivers
      BY <2>2, <3>1 DEF Receivers
    <3> QED BY <2>2, <3>2 DEF Receivers
  <2>3. CASE n = [m EXCEPT !.sequence_number = expected, !.duplicated_packets = @ + 1]
    <3>1. n \in Receivers
      BY <1>1, <2>3 DEF Receivers
    <3> QED BY <2>3, <3>1 DEF Receivers
  <2> QED BY <1>2, <2>1, <2>2, <2>3
<1>4. n.sequence_number + 1 \in Nat
  BY <1>3 DEF Receivers
<1> QED BY <1>3, <1>4 DEF Receivers

\* A machine m that has been given a packet or junk: it is left waiting for the
\* start packet only with an attempt less, and nothing revives a connection.
Parsed(m) ==
  /\ rcv' \in Receivers /\ written' \in Seq(Nat)
  /\ rcv'.is_active = m.is_active
  /\ rcv'.ret = Running => rcv'.attempts_left > 0
  /\ rcv'.state # RCV_OPEN_CONNECTION
  /\ rcv'.state = RCV_START_CONTROL_PACKET =>
       /\ rcv.state = RCV_START_CONTROL_PACKET
       /\ rcv'.attempts_left = m.attempts_left - 1
       /\ rcv'.ret # Aborted

\* That is so of every packet and of every machine it can be given to.
LEMMA ParseEffect ==
  ASSUME NEW m \in Receivers, m.attempts_left > 0, m.ret = Running, m.state = rcv.state,
         NEW p, p.seq \in 0..(sequence_number_modulus - 1), p.data \in Seq(Nat),
         written \in Seq(Nat), parse(m, p)
  PROVE  Parsed(m)
<1>1. max_receive_attempts > 0 /\ m.attempts_left \in Nat
  BY AttemptsAssumption DEF Receivers
<1>2. ASSUME rcv' = Refused(m), written' \in Seq(Nat), Receiving(rcv.state),
             rcv.state # RCV_OPEN_CONNECTION
      PROVE  Parsed(m)
  <2>1. /\ rcv' \in Receivers /\ rcv'.attempts_left = m.attempts_left - 1
        /\ rcv'.ret = IF m.attempts_left = 1 THEN -1 ELSE Running
        /\ rcv'.state = rcv.state /\ rcv'.is_active = m.is_active
    BY <1>2, RefusedReceiver
  <2>2. /\ rcv'.ret = Running => rcv'.attempts_left > 0
        /\ rcv'.ret # Aborted
    BY <1>1, <2>1 DEF Running, Aborted
  <2> QED BY <1>2, <2>1, <2>2 DEF Parsed
<1>3. CASE /\ Receiving(RCV_START_CONTROL_PACKET)
           /\ rcv' \in {Refused(m)} \cup receive_start_control_packet(m, p)
           /\ UNCHANGED written
  <2>1. rcv.state # RCV_OPEN_CONNECTION /\ Receiving(rcv.state) /\ written' \in Seq(Nat)
    BY <1>3 DEF Receiving, RCV_START_CONTROL_PACKET, RCV_OPEN_CONNECTION
  <2>2. CASE rcv' = Refused(m)
    BY <1>2, <2>1, <2>2
  <2>3. CASE rcv' \in receive_start_control_packet(m, p)
    <3> DEFINE a == Advance(m, RCV_DATA_PACKETS, max_receive_attempts)
    <3>1. /\ a \in Receivers /\ a.attempts_left = max_receive_attempts
          /\ a.state = RCV_DATA_PACKETS /\ a.is_active = m.is_active
      BY AdvanceReceiver DEF RCV_OPEN_CONNECTION, RCV_DATA_PACKETS, RCV_CLOSE_CONNECTION
    <3>2. PICK f \in BOOLEAN : rcv' = [a EXCEPT !.received_file = f]
      BY <2>3 DEF receive_start_control_packet, parse_control_packet
    <3> HIDE DEF a
    <3>3. rcv' \in Receivers
      BY <3>1, <3>2 DEF Receivers
    <3>4. /\ rcv'.attempts_left = max_receive_attempts
          /\ rcv'.state = RCV_DATA_PACKETS /\ rcv'.is_active = m.is_active
      BY <3>1, <3>2 DEF Receivers
    <3>5. /\ RCV_DATA_PACKETS # RCV_START_CONTROL_PACKET
          /\ RCV_DATA_PACKETS # RCV_OPEN_CONNECTION
      BY DEF RCV_OPEN_CONNECTION, RCV_DATA_PACKETS, RCV_START_CONTROL_PACKET
    <3> QED BY <1>1, <2>1, <3>3, <3>4, <3>5 DEF Parsed
  <2> QED BY <1>3, <2>2, <2>3
<1>4. ASSUME Receiving(RCV_DATA_PACKETS),
             NEW r \in {[machine |-> Refused(m), data |-> <<>>]}
                          \cup parse_data_packet(m, p) \cup parse_end_packet(m, p),
             rcv' = r.machine, written' = written \o r.data
      PROVE  Parsed(m)
  <2>1. /\ rcv.state # RCV_OPEN_CONNECTION /\ Receiving(rcv.state)
        /\ m.state = RCV_DATA_PACKETS
        /\ RCV_DATA_PACKETS \notin {RCV_START_CONTROL_PACKET, RCV_OPEN_CONNECTION}
        /\ RCV_CLOSE_CONNECTION \notin {RCV_START_CONTROL_PACKET, RCV_OPEN_CONNECTION}
        /\ RCV_CLOSE_CONNECTION \in RCV_OPEN_CONNECTION..RCV_CLOSE_CONNECTION
    BY <1>4 DEF Receiving, RCV_DATA_PACKETS, RCV_START_CONTROL_PACKET, RCV_OPEN_CONNECTION,
       RCV_CLOSE_CONNECTION
  <2>2. CASE r = [machine |-> Refused(m), data |-> <<>>]
    <3>1. rcv' = Refused(m) /\ written' \in Seq(Nat)
      BY <1>4, <2>2
    <3> QED BY <1>2, <2>1, <3>1
  <2>3. CASE r \in parse_data_packet(m, p)
    <3>1. PICK n \in Numbered(m, p.seq) :
            r = [machine |-> Using([n EXCEPT !.sequence_number = @ + 1]),
                 data |-> IF m.received_file THEN p.data ELSE <<>>]
      BY <2>3 DEF parse_data_packet
    <3> DEFINE q == [n EXCEPT !.sequence_number = @ + 1]
    <3>2. /\ q \in Receivers /\ n.attempts_left = m.attempts_left /\ n.state = m.state
          /\ n.is_active = m.is_active /\ n.ret = m.ret
      BY NumberedReceiver
    <3>3. /\ q.attempts_left = m.attempts_left /\ q.state = m.state
          /\ q.is_active = m.is_active
      BY <3>2 DEF Receivers
    <3> HIDE DEF q
    <3>4. /\ Using(q) \in Receivers /\ Using(q).attempts_left = m.attempts_left
          /\ Using(q).state = m.state /\ Using(q).is_active = m.is_active
      BY <3>2, <3>3, UsingReceiver
    <3>5. rcv' = Using(q) /\ written' = written \o (IF m.received_file THEN p.data ELSE <<>>)
      BY <1>4, <3>1 DEF q
    <3>6. written' \in Seq(Nat)
      BY <3>5
    <3> QED BY <2>1, <3>4, <3>5, <3>6 DEF Parsed
  <2>4. CASE r \in parse_end_packet(m, p)
    <3>1. PICK q \in {Advance(m, RCV_CLOSE_CONNECTION, max_receive_attempts),
                      [m EXCEPT !.ret = -1]} :
            r = [machine |-> Using(q), data |-> <<>>]
      BY <2>4 DEF parse_end_packet
    <3>2. /\ q \in Receivers /\ q.attempts_left > 0
          /\ q.state \in {RCV_DATA_PACKETS, RCV_CLOSE_CONNECTION}
          /\ q.is_active = m.is_active
      <4>1. CASE q = Advance(m, RCV_CLOSE_CONNECTION, max_receive_attempts)
        BY <1>1, <2>1, <4>1, AdvanceReceiver
      <4>2. CASE q = [m EXCEPT !.ret = -1]
        <5>1. q \in Receivers
          BY <4>2 DEF Receivers
        <5> QED BY <2>1, <4>2, <5>1 DEF Receivers
      <4> QED BY <3>1, <4>1, <4>2
    <3>3. /\ Using(q) \in Receivers /\ Using(q).attempts_left = q.attempts_left
          /\ Using(q).state = q.state /\ Using(q).is_active = q.is_active
      BY <3>2, UsingReceiver
    <3>4. rcv' = Using(q) /\ written' \in Seq(Nat)
      BY <1>4, <3>1
    <3> QED BY <2>1, <3>2, <3>3, <3>4 DEF Parsed
  <2> QED BY <1>4, <2>2, <2>3, <2>4
<1> QED BY <1>3, <1>4 DEF parse

\* What a step of the receiver's leaves of the transmitter and the service, with at
\* most a delivery.
Hears ==
  /\ UNCHANGED <<setup, snd, descriptors, tty, sent, at_most_once, submitted, outstanding, confirmed>>
  /\ rcv' \in Receivers /\ written' \in Seq(Nat)
  /\ ReceiverLeaves => ReceiverLeaves'
  /\ \/ UNCHANGED <<delivered, ahead>>
     \/ \E k \in 1..submitted : Link!Deliver(k)

\* Only RefusedInv is left to show of such a step.
LEMMA HearingKeeps ==
  ASSUME AllInv, Hears, RefusedInv'
  PROVE  AllInv'
<1>1. /\ Senders' = Senders /\ Receivers' = Receivers
      /\ UNCHANGED <<setup, snd, descriptors, tty, sent, at_most_once, submitted, outstanding, confirmed>>
      /\ delivered \in Seq(1..submitted) /\ Len(delivered) \in Nat /\ submitted \in Nat
      /\ ahead \in BOOLEAN
  BY Types DEF AllInv, Hears, Senders, Receivers, ServiceTypes
<1>2. /\ delivered' \in Seq(1..submitted) /\ ahead' \in BOOLEAN
      /\ \/ UNCHANGED <<delivered, ahead>>
         \/ ~ahead /\ \E k \in 1..submitted : delivered' = Append(delivered, k)
  <2>1. CASE UNCHANGED <<delivered, ahead>>
    BY <1>1, <2>1
  <2>2. ASSUME NEW k \in 1..submitted, Link!Deliver(k)
        PROVE  delivered' = Append(delivered, k) /\ ~ahead /\ ahead' \in BOOLEAN
    BY <2>2 DEF Link!Deliver
  <2>3. \A k \in 1..submitted : Append(delivered, k) \in Seq(1..submitted)
    BY <1>1
  <2> QED BY <2>1, <2>2, <2>3 DEF Hears
<1>3. TypeOK'
  <2>1. DataTypes' /\ ServiceTypes'
    BY <1>1, <1>2, Types DEF AllInv, DataTypes, ServiceTypes
  <2> QED BY <1>1, <2>1, Types, TypesNext DEF AllInv, Hears
<1>4. WriteInv' /\ DescriptorInv' /\ PortInv'
  BY <1>1 DEF AllInv, FileInv, WriteInv, DescriptorInv, PortInv
<1>5. EndInv'
  <2>1. DataPackets' = DataPackets
    BY <1>1 DEF DataPackets
  <2> QED BY <1>1, <2>1 DEF AllInv, FileInv, EndInv, Hears
<1>6. DeliveryInv'
  <2>1. TransmitterLeaves' = TransmitterLeaves
    BY <1>1 DEF TransmitterLeaves
  <2>2. CASE UNCHANGED <<delivered, ahead>>
    BY <1>1, <2>1, <2>2 DEF AllInv, FileInv, DeliveryInv
  <2>3. CASE ~ahead /\ \E k \in 1..submitted : delivered' = Append(delivered, k)
    <3>1. Len(delivered') = Len(delivered) + 1
      BY <1>1, <2>3
    <3> QED BY <1>1, <2>1, <2>3, <3>1 DEF AllInv, FileInv, DeliveryInv
  <2> QED BY <1>2, <2>2, <2>3
<1>7. StartInv'
  <2>1. ASSUME delivered' # <<>>
        PROVE  sent[delivered'[1]].field = control_field_start
    <3>1. CASE delivered # <<>>
      <4>1. 1 \in DOMAIN delivered
        BY <1>1, <3>1
      <4>2. \A k \in 1..submitted : Append(delivered, k)[1] = delivered[1]
        BY <1>1, <4>1
      <4>3. delivered'[1] = delivered[1]
        BY <1>2, <4>2
      <4> QED BY <3>1, <4>3 DEF AllInv, FileInv, StartInv
    <3>2. CASE delivered = <<>>
      <4>1. delivered'[1] \in 1..submitted
        BY <1>1, <1>2, <2>1, <3>2
      <4>2. Len(delivered) = 0
        BY <3>2
      <4>3. snd.state \in {SND_OPEN_CONNECTION, SND_START_CONTROL_PACKET}
        <5>1. snd.state \in SND_OPEN_CONNECTION..SND_CLOSE_CONNECTION
          BY Types DEF AllInv, Senders
        <5>2. snd.state \notin SND_DATA_PACKETS..SND_CLOSE_CONNECTION
          BY <1>1, <4>2 DEF AllInv, FileInv, DeliveryInv
        <5> QED BY <5>1, <5>2 DEF SND_OPEN_CONNECTION, SND_START_CONTROL_PACKET,
               SND_DATA_PACKETS, SND_CLOSE_CONNECTION
      <4> QED BY <4>1, <4>3 DEF AllInv, FileInv, StartInv
    <3> QED BY <3>1, <3>2
  <2> QED BY <1>1, <2>1 DEF AllInv, FileInv, StartInv
<1> QED BY <1>3, <1>4, <1>5, <1>6, <1>7 DEF AllInv, FileInv

\* Every packet that a receiver may find in its buffer has a number and bytes.
LEMMA Buffered ==
  ASSUME DataTypes, ServiceTypes, NEW p \in {sent[k] : k \in 1..submitted} \cup Junk
  PROVE  p.seq \in 0..(sequence_number_modulus - 1) /\ p.data \in Seq(Nat)
<1>1. \A k \in 1..submitted : sent[k] \in Packets
  BY DEF DataTypes, ServiceTypes
<1>2. \A i \in DOMAIN delivered : delivered[i] \in 1..submitted
  BY DEF ServiceTypes
<1>3. p \in Packets \/ p = [field |-> 0, seq |-> 0, data |-> <<>>]
  BY <1>1, <1>2 DEF Junk
<1>4. 0 \in 0..(sequence_number_modulus - 1) /\ <<>> \in Seq(Nat)
  BY SizesAssumption
<1>5. CASE p \in Packets
  BY <1>5 DEF Packets
<1>6. CASE p = [field |-> 0, seq |-> 0, data |-> <<>>]
  BY <1>4, <1>6
<1> QED BY <1>3, <1>5, <1>6

\* llopen of the receiver: it waits for the start packet with all its attempts.
LEMMA ListenStep ==
  ASSUME AllInv, receive_llopen
  PROVE  AllInv'
<1>1. /\ rcv \in Receivers /\ rcv.ret = Running /\ rcv.state = RCV_OPEN_CONNECTION
      /\ rcv.attempts_left > 0 /\ rcv.attempts_left \in Nat /\ written \in Seq(Nat)
      /\ delivered = <<>> /\ ~rcv.is_active
      /\ UNCHANGED <<setup, snd, descriptors, tty, sent, written, at_most_once, submitted,
                     outstanding, confirmed, delivered, ahead>>
  BY Types DEF AllInv, FileInv, RefusedInv, receive_llopen, Receiving, linkvars, Receivers
<1>2. ~ReceiverLeaves
  BY <1>1 DEF ReceiverLeaves, RCV_OPEN_CONNECTION, RCV_CLOSE_CONNECTION
<1>3. CASE rcv' = retry(rcv)
  <2>1. /\ rcv' \in Receivers /\ rcv'.state = RCV_OPEN_CONNECTION /\ ~rcv'.is_active
        /\ rcv'.ret = Running => rcv'.attempts_left > 0
    BY <1>1, <1>3, RetryReceiver DEF Running
  <2>2. RefusedInv'
    BY <1>1, <2>1 DEF RefusedInv, RCV_OPEN_CONNECTION, RCV_START_CONTROL_PACKET
  <2> QED BY <1>1, <1>2, <2>1, <2>2, HearingKeeps DEF Hears
<1>4. CASE rcv' = [rcv EXCEPT !.ret = -1]
  <2>1. /\ rcv' \in Receivers /\ rcv'.state = RCV_OPEN_CONNECTION /\ ~rcv'.is_active
        /\ rcv'.ret # Running
    BY <1>1, <1>4 DEF Receivers, Running
  <2>2. RefusedInv'
    BY <1>1, <2>1 DEF RefusedInv, RCV_OPEN_CONNECTION, RCV_START_CONTROL_PACKET
  <2> QED BY <1>1, <1>2, <2>1, <2>2, HearingKeeps DEF Hears
<1>5. CASE rcv' = [Advance(rcv, RCV_START_CONTROL_PACKET, max_receive_attempts)
                     EXCEPT !.is_active = TRUE, !.is_open = TRUE]
  <2> DEFINE a == Advance(rcv, RCV_START_CONTROL_PACKET, max_receive_attempts)
  <2>1. /\ a \in Receivers /\ a.attempts_left = max_receive_attempts
        /\ a.state = RCV_START_CONTROL_PACKET /\ a.ret = Running
    BY <1>1, AdvanceReceiver DEF RCV_OPEN_CONNECTION, RCV_START_CONTROL_PACKET, RCV_CLOSE_CONNECTION
  <2> HIDE DEF a
  <2>2. rcv' = [a EXCEPT !.is_active = TRUE, !.is_open = TRUE]
    BY <1>5 DEF a
  <2>3. rcv' \in Receivers
    BY <2>1, <2>2 DEF Receivers
  <2>4. /\ rcv'.state = RCV_START_CONTROL_PACKET /\ rcv'.is_active
        /\ rcv'.attempts_left = max_receive_attempts /\ rcv'.ret = Running
    BY <2>1, <2>2 DEF Receivers
  <2>5. max_receive_attempts > 0 /\ max_receive_attempts \in Nat /\ Len(delivered') = 0
    BY <1>1, AttemptsAssumption
  <2>6. RefusedInv'
    BY <2>4, <2>5 DEF RefusedInv, RCV_OPEN_CONNECTION, RCV_START_CONTROL_PACKET, Running, Aborted
  <2> QED BY <1>1, <1>2, <2>3, <2>6, HearingKeeps DEF Hears
<1> QED BY <1>3, <1>4, <1>5 DEF receive_llopen

\* A packet, or junk, has been parsed by a receiver that was active.
LEMMA ParsedKeeps ==
  ASSUME AllInv, rcv.is_active, rcv.attempts_left > 0,
         NEW active \in BOOLEAN, NEW m \in Receivers, Parsed(m), m.is_active = active,
         m.attempts_left = rcv.attempts_left,
         rcv.state \in {RCV_START_CONTROL_PACKET, RCV_DATA_PACKETS},
         active \/ TransmitterLeaves,
         \/ UNCHANGED <<delivered, ahead>>
         \/ active /\ \E k \in 1..submitted : Link!Deliver(k),
         UNCHANGED <<setup, snd, descriptors, tty, sent, at_most_once, submitted, outstanding,
                     confirmed>>
  PROVE  AllInv'
<1>1. delivered \in Seq(1..submitted) /\ Len(delivered) \in Nat /\ rcv.attempts_left \in Nat
  BY Types DEF AllInv, ServiceTypes, Receivers
<1>2. \/ delivered' = delivered
      \/ active /\ Len(delivered') = Len(delivered) + 1
  <2>1. ASSUME NEW k \in 1..submitted, Link!Deliver(k)
        PROVE  Len(delivered') = Len(delivered) + 1
    BY <1>1, <2>1 DEF Link!Deliver
  <2> QED BY <2>1
<1>3. ~ReceiverLeaves
  BY DEF ReceiverLeaves, RCV_START_CONTROL_PACKET, RCV_DATA_PACKETS, RCV_CLOSE_CONNECTION
<1>4. RefusedInv'
  <2>1. ASSUME rcv'.state = RCV_START_CONTROL_PACKET
        PROVE  IF rcv'.is_active
                 THEN /\ rcv'.attempts_left + Len(delivered') <= max_receive_attempts
                      /\ rcv'.ret # Aborted
                 ELSE /\ Len(delivered') > 1
                      /\ rcv'.attempts_left + Len(delivered') < max_receive_attempts
                      /\ rcv'.ret = Aborted => rcv'.attempts_left > 0
    <3>1. /\ rcv'.attempts_left = rcv.attempts_left - 1 /\ rcv'.ret # Aborted
          /\ rcv'.is_active = active
          /\ rcv.attempts_left + Len(delivered) <= max_receive_attempts
          /\ max_receive_attempts \in Nat
      BY <2>1, AttemptsAssumption DEF Parsed, AllInv, FileInv, RefusedInv
    <3>2. CASE active
      <4>1. Len(delivered') <= Len(delivered) + 1 /\ Len(delivered') \in Nat
        BY <1>1, <1>2
      <4> QED BY <1>1, <3>1, <3>2, <4>1
    <3>3. CASE ~active
      <4>1. delivered' = delivered /\ Len(delivered) >= 2
        BY <1>2, <3>3 DEF AllInv, FileInv, DeliveryInv
      <4> QED BY <1>1, <3>1, <3>3, <4>1
    <3> QED BY <3>2, <3>3
  <2> QED BY <2>1 DEF RefusedInv, Parsed
<1> QED BY <1>3, <1>4, HearingKeeps DEF Hears, Parsed

\* Packets are parsed by a program that runs.
LEMMA ParsingStates ==
  ASSUME NEW m, NEW p, parse(m, p)
  PROVE  rcv.ret = Running /\ rcv.state \in {RCV_START_CONTROL_PACKET, RCV_DATA_PACKETS}
BY DEF parse, Receiving

\* llread, with a packet or without.
LEMMA ReadStep ==
  ASSUME AllInv, llread \/ llread_nothing
  PROVE  AllInv'
<1>1. /\ rcv \in Receivers /\ rcv.is_active /\ written \in Seq(Nat)
      /\ DataTypes /\ ServiceTypes
      /\ UNCHANGED <<setup, snd, descriptors, tty, sent>>
  BY Types DEF AllInv, llread, llread_nothing
<1>2. rcv.ret = Running => rcv.attempts_left > 0
  BY DEF AllInv, FileInv, RefusedInv
<1>3. ASSUME NEW k \in 1..submitted, Link!Deliver(k), parse(rcv, sent[k])
      PROVE  AllInv'
  <2>1. rcv.ret = Running /\ rcv.state \in {RCV_START_CONTROL_PACKET, RCV_DATA_PACKETS}
    BY <1>3, ParsingStates
  <2>2. sent[k].seq \in 0..(sequence_number_modulus - 1) /\ sent[k].data \in Seq(Nat)
    BY <1>1, Buffered
  <2>3. Parsed(rcv)
    BY <1>1, <1>2, <1>3, <2>1, <2>2, ParseEffect
  <2>4. UNCHANGED <<at_most_once, submitted, outstanding, confirmed>>
    BY <1>3 DEF Link!Deliver
  <2> QED BY <1>1, <1>2, <1>3, <2>1, <2>3, <2>4, ParsedKeeps
<1>4. ASSUME NEW p \in Junk, NEW active \in BOOLEAN, NEW open \in BOOLEAN,
             parse([rcv EXCEPT !.is_active = active, !.is_open = open, !.trouble = TRUE], p),
             active \/ TransmitterLeaves, UNCHANGED linkvars
      PROVE  AllInv'
  <2> DEFINE m == [rcv EXCEPT !.is_active = active, !.is_open = open, !.trouble = TRUE]
  <2>1. rcv.ret = Running /\ rcv.state \in {RCV_START_CONTROL_PACKET, RCV_DATA_PACKETS}
    BY <1>4, ParsingStates
  <2>2. m \in Receivers
    BY <1>1 DEF Receivers
  <2>3. /\ m.is_active = active /\ m.attempts_left = rcv.attempts_left
        /\ m.ret = rcv.ret /\ m.state = rcv.state
    BY <1>1 DEF Receivers
  <2>4. parse(m, p)
    BY <1>4
  <2> HIDE DEF m
  <2>5. p.seq \in 0..(sequence_number_modulus - 1) /\ p.data \in Seq(Nat)
    BY <1>1, Buffered
  <2>6. Parsed(m)
    BY <1>1, <1>2, <2>1, <2>2, <2>3, <2>4, <2>5, ParseEffect
  <2>7. UNCHANGED <<at_most_once, submitted, outstanding, delivered, confirmed, ahead>>
    BY <1>4 DEF linkvars
  <2> QED BY <1>1, <1>2, <1>4, <2>1, <2>2, <2>3, <2>6, <2>7, ParsedKeeps
<1>5. CASE llread
  BY <1>3, <1>5 DEF llread
<1>6. CASE llread_nothing
  <2>1. PICK p \in Junk, open \in BOOLEAN :
          \/ /\ TransmitterLeaves
             /\ parse([rcv EXCEPT !.is_active = FALSE, !.is_open = open, !.trouble = TRUE], p)
          \/ parse([rcv EXCEPT !.trouble = TRUE], p)
    BY <1>6 DEF llread_nothing
  <2>2. /\ rcv.is_open \in BOOLEAN
        /\ [rcv EXCEPT !.trouble = TRUE]
             = [rcv EXCEPT !.is_active = TRUE, !.is_open = rcv.is_open, !.trouble = TRUE]
    BY <1>1 DEF Receivers
  <2>3. UNCHANGED linkvars
    BY <1>6 DEF llread_nothing
  <2> QED BY <1>4, <2>1, <2>2, <2>3
<1> QED BY <1>5, <1>6

\* llread fails: the receiver refuses, or frees its packet twice.
LEMMA ReadFailsStep ==
  ASSUME AllInv, llread_fails
  PROVE  AllInv'
<1>1. /\ rcv \in Receivers /\ written \in Seq(Nat) /\ rcv.ret = Running
      /\ rcv.state \in {RCV_START_CONTROL_PACKET, RCV_DATA_PACKETS}
      /\ rcv.attempts_left > 0 /\ rcv.attempts_left \in Nat
      /\ UNCHANGED <<setup, snd, descriptors, tty, sent, written, at_most_once, submitted,
                     outstanding, confirmed, delivered, ahead>>
  BY Types DEF AllInv, FileInv, RefusedInv, llread_fails, Receiving, linkvars, Receivers
<1>2. CASE /\ Receiving(RCV_START_CONTROL_PACKET) /\ ~rcv.is_active
           /\ rcv' = [rcv EXCEPT !.ret = Aborted]
  <2>1. rcv' = [rcv EXCEPT !.ret = Aborted]
    BY <1>2
  <2>2. rcv' \in Receivers
    BY <1>1, <2>1 DEF Receivers
  <2>3. /\ rcv'.ret = Aborted /\ rcv'.state = RCV_START_CONTROL_PACKET
        /\ rcv.state = RCV_START_CONTROL_PACKET
        /\ rcv'.attempts_left = rcv.attempts_left /\ rcv'.is_active = rcv.is_active
    BY <1>1, <1>2, <2>1 DEF Receivers, Receiving
  <2>4. RefusedInv'
    BY <1>1, <1>2, <2>3 DEF AllInv, FileInv, RefusedInv, Running, Aborted,
       RCV_START_CONTROL_PACKET, RCV_OPEN_CONNECTION
  <2>5. ReceiverLeaves'
    BY <1>2, <2>3 DEF ReceiverLeaves, RCV_START_CONTROL_PACKET, RCV_OPEN_CONNECTION
  <2> QED BY <1>1, <2>2, <2>4, <2>5, HearingKeeps DEF Hears
<1>3. CASE rcv' = Refused(rcv)
  <2>1. /\ rcv' \in Receivers /\ rcv'.attempts_left = rcv.attempts_left - 1
        /\ rcv'.ret = IF rcv.attempts_left = 1 THEN -1 ELSE Running
        /\ rcv'.state = rcv.state /\ rcv'.is_active = rcv.is_active
    BY <1>1, <1>3, RefusedReceiver
  <2>2. /\ rcv'.ret = Running => rcv'.attempts_left > 0
        /\ rcv'.ret # Aborted
    BY <1>1, <2>1 DEF Running, Aborted
  <2>3. /\ rcv.state # RCV_OPEN_CONNECTION
        /\ Len(delivered) \in Nat /\ max_receive_attempts \in Nat
    BY <1>1, Types, AttemptsAssumption DEF AllInv, ServiceTypes, RCV_START_CONTROL_PACKET,
       RCV_DATA_PACKETS, RCV_OPEN_CONNECTION
  <2>4. RefusedInv'
    <3>1. rcv.state = RCV_START_CONTROL_PACKET =>
            IF rcv.is_active THEN rcv.attempts_left + Len(delivered) <= max_receive_attempts
            ELSE /\ Len(delivered) > 1
                 /\ rcv.attempts_left + Len(delivered) < max_receive_attempts
      BY DEF AllInv, FileInv, RefusedInv
    <3>2. rcv.state = RCV_START_CONTROL_PACKET =>
            IF rcv.is_active THEN rcv'.attempts_left + Len(delivered) <= max_receive_attempts
            ELSE /\ Len(delivered) > 1
                 /\ rcv'.attempts_left + Len(delivered) < max_receive_attempts
      BY <1>1, <2>1, <2>3, <3>1
    <3> QED BY <1>1, <2>1, <2>2, <2>3, <3>2 DEF RefusedInv
  <2>5. ReceiverLeaves => ReceiverLeaves'
    BY <2>1 DEF ReceiverLeaves
  <2> QED BY <1>1, <2>1, <2>4, <2>5, HearingKeeps DEF Hears
<1> QED BY <1>2, <1>3 DEF llread_fails

\* llclose of the receiver.
LEMMA ReceiverCloseStep ==
  ASSUME AllInv, receive_llclose
  PROVE  AllInv'
<1>1. /\ rcv \in Receivers /\ written \in Seq(Nat) /\ rcv.ret = Running
      /\ rcv.state = RCV_CLOSE_CONNECTION
      /\ rcv.attempts_left > 0 /\ rcv.attempts_left \in Nat
      /\ UNCHANGED <<setup, snd, descriptors, tty, sent, written, at_most_once, submitted,
                     outstanding, confirmed, delivered, ahead>>
  BY Types DEF AllInv, FileInv, RefusedInv, receive_llclose, Receiving, linkvars, Receivers
<1>2. /\ rcv' \in Receivers /\ rcv'.state = RCV_CLOSE_CONNECTION
      /\ rcv'.ret = Running => rcv'.attempts_left > 0
  <2>1. CASE rcv' = [rcv EXCEPT !.is_active = FALSE, !.is_open = FALSE, !.ret = 0]
    <3>1. rcv' \in Receivers
      BY <1>1, <2>1 DEF Receivers
    <3> QED BY <1>1, <2>1, <3>1 DEF Receivers, Running
  <2>2. ASSUME NEW open \in {FALSE, rcv.is_open},
               rcv' = [retry(rcv) EXCEPT !.is_active = FALSE, !.is_open = open]
        PROVE  /\ rcv' \in Receivers /\ rcv'.state = RCV_CLOSE_CONNECTION
               /\ rcv'.ret = Running => rcv'.attempts_left > 0
    <3>1. /\ retry(rcv) \in Receivers /\ retry(rcv).state = RCV_CLOSE_CONNECTION
          /\ retry(rcv).ret = Running => retry(rcv).attempts_left > 0
      <4>1. /\ retry(rcv) \in Receivers /\ retry(rcv).state = RCV_CLOSE_CONNECTION
            /\ retry(rcv).ret = IF rcv.attempts_left = 1 THEN -1 ELSE Running
            /\ retry(rcv).attempts_left = rcv.attempts_left - 1
        BY <1>1, RetryReceiver
      <4> QED BY <1>1, <4>1 DEF Running
    <3> DEFINE r == retry(rcv)
    <3> HIDE DEF r
    <3>2. rcv' = [r EXCEPT !.is_active = FALSE, !.is_open = open] /\ open \in BOOLEAN
      BY <1>1, <2>2 DEF r, Receivers
    <3>3. r \in Receivers /\ r.state = RCV_CLOSE_CONNECTION /\ (r.ret = Running => r.attempts_left > 0)
      BY <3>1 DEF r
    <3>4. rcv' \in Receivers
      BY <3>2, <3>3 DEF Receivers
    <3> QED BY <3>2, <3>3, <3>4 DEF Receivers
  <2>3. CASE rcv' = [rcv EXCEPT !.ret = Aborted]
    <3>1. rcv' \in Receivers
      BY <1>1, <2>3 DEF Receivers
    <3> QED BY <1>1, <2>3, <3>1 DEF Receivers, Running, Aborted
  <2> QED BY <2>1, <2>2, <2>3 DEF receive_llclose
<1>3. RefusedInv'
  BY <1>2 DEF RefusedInv, RCV_OPEN_CONNECTION, RCV_START_CONTROL_PACKET, RCV_CLOSE_CONNECTION
<1>4. ReceiverLeaves'
  BY <1>2 DEF ReceiverLeaves
<1> QED BY <1>1, <1>2, <1>3, <1>4, HearingKeeps DEF Hears

\* Every step of the receiver keeps the invariant.
LEMMA ReceiverStep ==
  ASSUME AllInv, Receiver
  PROVE  AllInv'
BY ListenStep, ReadStep, ReadFailsStep, ReceiverCloseStep DEF Receiver

-----------------------------------------------------------------------------
(* The invariant, and what follows from it.                                *)

\* The invariant holds at first.
LEMMA FileInit == Init => AllInv
<1> SUFFICES ASSUME Init PROVE AllInv
  OBVIOUS
<1>1. /\ at_most_once \in BOOLEAN /\ submitted = 0 /\ outstanding = FALSE
      /\ delivered = <<>> /\ confirmed = {} /\ ahead = FALSE
      /\ descriptors = 0 /\ sent = <<>> /\ written = <<>>
      /\ tty = [settings |-> "original", saved |-> "none"]
      /\ setup \in [debug : Builds, file_size : FileSizes,
                    control_packet_size : ControlPacketSizes]
  BY DEF Init, Link!Init
<1>2. /\ snd \in Senders /\ snd.state = SND_OPEN_CONNECTION /\ snd.ret = Running
      /\ snd.attempts_left = max_send_attempts /\ snd.fd = 0
  <2>1. setup.file_size \in Nat
    BY <1>1, SizesAssumption
  <2>2. /\ max_send_attempts \in 0..max_send_attempts /\ 0 \in 0..setup.file_size
        /\ SND_OPEN_CONNECTION \in SND_OPEN_CONNECTION..SND_CLOSE_CONNECTION
    BY <2>1, AttemptsAssumption DEF SND_OPEN_CONNECTION, SND_CLOSE_CONNECTION
  <2> QED BY <2>2 DEF Init, Senders
<1>3. /\ rcv \in Receivers /\ rcv.state = RCV_OPEN_CONNECTION /\ rcv.ret = Running
      /\ rcv.attempts_left = max_receive_attempts /\ rcv.is_active = FALSE
  <2>1. /\ max_receive_attempts \in 0..max_receive_attempts
        /\ RCV_OPEN_CONNECTION \in RCV_OPEN_CONNECTION..RCV_CLOSE_CONNECTION
    BY AttemptsAssumption DEF RCV_OPEN_CONNECTION, RCV_CLOSE_CONNECTION
  <2> QED BY <2>1 DEF Init, Receivers
<1>4. /\ max_send_attempts > 0 /\ max_send_attempts \in Nat
      /\ max_receive_attempts > 0 /\ max_receive_attempts \in Nat
      /\ FirstFd > 0 /\ FirstFd \in Nat
  BY AttemptsAssumption, ProgramAssumption
<1>5. TypeOK
  <2>1. DataTypes
    BY <1>1 DEF DataTypes
  <2>2. ServiceTypes
    <3>1. submitted \in Nat /\ delivered \in Seq(1..submitted) /\ confirmed \subseteq 1..submitted
      BY <1>1
    <3> QED BY <1>1, <3>1 DEF ServiceTypes
  <2>3. written \in Seq(Nat)
    BY <1>1
  <2> QED BY <1>2, <1>3, <2>1, <2>2, <2>3, Types
<1>6. WriteInv /\ DescriptorInv /\ PortInv
  BY <1>1, <1>2, <1>4 DEF WriteInv, DescriptorInv, PortInv, Running
<1>7. EndInv /\ DeliveryInv
  BY <1>1, <1>2 DEF EndInv, DeliveryInv, TransmitterLeaves, Running, SND_OPEN_CONNECTION,
     SND_DATA_PACKETS, SND_CLOSE_CONTROL_PACKET, SND_CLOSE_CONNECTION
<1>8. StartInv /\ RefusedInv
  BY <1>1, <1>3, <1>4 DEF StartInv, RefusedInv, RCV_OPEN_CONNECTION, RCV_START_CONTROL_PACKET
<1> QED BY <1>5, <1>6, <1>7, <1>8 DEF AllInv, FileInv

\* And in a step of neither program.
LEMMA Unmoved ==
  ASSUME AllInv, UNCHANGED vars
  PROVE  AllInv'
<1>1. /\ UNCHANGED <<setup, snd, rcv, descriptors, tty, sent, written, at_most_once, submitted,
                     outstanding, delivered, confirmed, ahead>>
      /\ Senders' = Senders /\ Receivers' = Receivers
  BY DEF vars, linkvars, Senders, Receivers
<1>2. RefusedInv'
  BY <1>1 DEF AllInv, FileInv, RefusedInv
<1>3. ReceiverLeaves => ReceiverLeaves'
  BY <1>1 DEF ReceiverLeaves
<1> QED BY <1>1, <1>2, <1>3, Types, HearingKeeps DEF AllInv, Hears

\* The invariant, for any number of attempts, any sizes and any failures.
THEOREM FileCorrect == Spec => [](TypeOK /\ FileInv)
<1>1. AllInv /\ [Next]_vars => AllInv'
  BY TransmitterStep, ReceiverStep, Unmoved DEF Next
<1>2. Init => AllInv
  BY FileInit
<1>3. Spec => []AllInv
  BY <1>1, <1>2, PTL DEF Spec
<1> QED BY <1>3, PTL DEF AllInv

\* Every variable keeps its type: no counter of attempts leaves its range, no packet
\* is parsed that was not sent, and no chunk runs past the end of the file.
THEOREM FileTypes == Spec => []TypeOK
BY FileCorrect, PTL

\* No connection is stored beyond the end of g_connections when the table has room
\* for all attempts: a failed llopen leaves at most one descriptor behind.
THEOREM TableIsBigEnough == Spec => []DescriptorInTable
<1>1. TypeOK /\ FileInv => DescriptorInTable
  <2> SUFFICES ASSUME TypeOK, FileInv, FirstFd + max_send_attempts <= MAX_FD
               PROVE  snd.fd < MAX_FD
    BY DEF DescriptorInTable
  <2>1. snd.fd \in Nat /\ snd.fd < FirstFd + max_send_attempts
    BY Types DEF FileInv, DescriptorInv, Senders
  <2> QED BY <2>1, AttemptsAssumption, ProgramAssumption
<1> QED BY <1>1, FileCorrect, PTL

\* A successful send_file leaves the port as it found it, if its first attempt to
\* open it succeeded.
THEOREM Restored == Spec => []SettingsRestored
<1>1. TypeOK /\ FileInv => SettingsRestored
  BY DEF FileInv, PortInv, SettingsRestored, SND_CLOSE_CONNECTION, SND_OPEN_CONNECTION
<1> QED BY <1>1, FileCorrect, PTL

\* send_file returns 0 only when the end packet, after the last byte, was confirmed.
THEOREM EndsConfirmed == Spec => []SentToTheEnd
<1>1. TypeOK /\ FileInv => SentToTheEnd
  BY DEF FileInv, EndInv, PortInv, SentToTheEnd
<1> QED BY <1>1, FileCorrect, PTL

\* The second free in receive_start_control_packet takes four attempts.
THEOREM FreesNeedFour == Spec => []FreedOnce
<1>1. TypeOK /\ FileInv => FreedOnce
  <2> SUFFICES ASSUME TypeOK, FileInv, rcv.ret = Aborted, rcv.state = RCV_START_CONTROL_PACKET
               PROVE  /\ max_receive_attempts > 3
                      /\ Len(delivered) > 1 /\ sent[delivered[1]].field = control_field_start
    BY DEF FreedOnce
  <2>1. /\ Len(delivered) > 1 /\ Len(delivered) \in Nat /\ delivered # <<>>
        /\ rcv.attempts_left + Len(delivered) < max_receive_attempts
        /\ rcv.attempts_left > 0 /\ rcv.attempts_left \in Nat
    BY Types DEF FileInv, RefusedInv, ServiceTypes, Receivers
  <2>2. sent[delivered[1]].field = control_field_start
    BY <2>1 DEF FileInv, StartInv
  <2> QED BY <2>1, <2>2, AttemptsAssumption
<1> QED BY <1>1, FileCorrect, PTL
=============================================================================
