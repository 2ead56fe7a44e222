-------------------------- MODULE FileTransferInv --------------------------
(***************************************************************************)
(* Inductive invariants of FileTransfer, checked by TLC and proved in      *)
(* FileTransferProofs, FileTransferPrefix and FileTransferWhole: FileInv,  *)
(* what DescriptorInTable, SettingsRestored, SentToTheEnd and FreedOnce    *)
(* rest on, PrefixInv, what Prefix rests on, and TransferInv, what Whole   *)
(* and LostReal rest on.                                                   *)
(***************************************************************************)
EXTENDS FileTransfer

\* The kind of packet that the transmitter writes in each of its states.
FieldOf(state) ==
  CASE state = SND_START_CONTROL_PACKET -> control_field_start
    [] state = SND_DATA_PACKETS         -> control_field_data
    [] state = SND_CLOSE_CONTROL_PACKET -> control_field_end
    [] OTHER -> 0

\* A transmitter that runs has an attempt left; one that writes is in a state of
\* writing, and the last packet is one of that state.
WriteInv ==
  /\ snd.ret = Running => snd.attempts_left > 0
  /\ outstanding =>
       /\ snd.ret = Running
       /\ snd.state \in SND_START_CONTROL_PACKET..SND_CLOSE_CONTROL_PACKET
       /\ submitted > 0
       /\ sent[submitted].field = FieldOf(snd.state)

\* A transmitter that is not connected has opened at most one descriptor for each
\* attempt it has lost.
DescriptorInv ==
  /\ snd.state = SND_OPEN_CONNECTION /\ snd.ret = Running =>
       descriptors + snd.attempts_left <= max_send_attempts
  /\ snd.fd < FirstFd + max_send_attempts

\* The saved settings are the first ones if they were saved once.
PortInv ==
  /\ descriptors = 0 => tty.settings = "original"
  /\ snd.state # SND_OPEN_CONNECTION =>
       /\ descriptors > 0
       /\ tty.saved # "none"
       /\ descriptors = 1 => tty.saved = "original"
  /\ snd.ret = 0 => snd.state = SND_CLOSE_CONNECTION /\ tty.settings = tty.saved

\* The end packet comes after the last byte, and llclose after its confirmation.
EndInv ==
  /\ snd.state \in {SND_CLOSE_CONTROL_PACKET, SND_CLOSE_CONNECTION} =>
       snd.num_data_bytes_sent = setup.file_size
  /\ snd.state = SND_CLOSE_CONNECTION =>
       \E k \in confirmed : sent[k].field = control_field_end /\ \A j \in DataPackets : j < k
  /\ snd.ret = 0 => ReceiverLeaves

\* The start packet was confirmed, so it was delivered, and the end packet likewise:
\* a transmitter that disconnects has had two packets delivered.
DeliveryInv ==
  /\ snd.state \in SND_DATA_PACKETS..SND_CLOSE_CONNECTION =>
       Len(delivered) >= IF ahead THEN 2 ELSE 1
  /\ ahead => Len(delivered) >= 1
  /\ TransmitterLeaves => Len(delivered) >= 2

\* The first packet delivered is a start packet.
StartInv ==
  /\ snd.state \in {SND_OPEN_CONNECTION, SND_START_CONTROL_PACKET} =>
       \A k \in 1..submitted : sent[k].field = control_field_start
  /\ delivered # <<>> => sent[delivered[1]].field = control_field_start

\* A receiver that waits for the start packet has lost an attempt for each packet
\* delivered, and another for the end of the connection.
RefusedInv ==
  /\ rcv.ret = Running => rcv.attempts_left > 0
  /\ rcv.state = RCV_OPEN_CONNECTION => delivered = <<>> /\ ~rcv.is_active
  /\ rcv.state = RCV_START_CONTROL_PACKET =>
       IF rcv.is_active
         THEN rcv.attempts_left + Len(delivered) <= max_receive_attempts /\ rcv.ret # Aborted
         ELSE /\ Len(delivered) > 1
              /\ rcv.attempts_left + Len(delivered) < max_receive_attempts
              /\ rcv.ret = Aborted => rcv.attempts_left > 0

FileInv ==
  /\ WriteInv /\ DescriptorInv /\ PortInv /\ EndInv
  /\ DeliveryInv /\ StartInv /\ RefusedInv

-----------------------------------------------------------------------------
(* The received file, in the debugging build. Before the data packets come *)
(* b start packets; data packet s, from 1, is packet b + s.                *)

\* The last byte of data packet s.
Upto(b, s) == IF s = 0 THEN 0 ELSE LET d == sent[b + s].data IN d[Len(d)]

\* Start packets, data packets, end packets. The data packets hold the file from its
\* beginning, one after the other, and the position is where the last one ends.
SentInv(b) ==
  /\ b + snd.sequence_number <= submitted
  /\ snd.state \in SND_OPEN_CONNECTION..SND_DATA_PACKETS =>
       submitted = b + snd.sequence_number
  /\ snd.state \in SND_OPEN_CONNECTION..SND_START_CONTROL_PACKET =>
       snd.sequence_number = 0
  /\ snd.state \in SND_DATA_PACKETS..SND_CLOSE_CONNECTION => b \in confirmed
  /\ \A k \in 1..submitted :
       sent[k].field = IF k <= b THEN control_field_start
                       ELSE IF k <= b + snd.sequence_number THEN control_field_data
                       ELSE control_field_end
  /\ \A s \in 1..snd.sequence_number :
       LET d == sent[b + s].data
       IN /\ sent[b + s].seq = (s - 1) % sequence_number_modulus
          /\ d # <<>> /\ \A i \in DOMAIN d : d[i] = Upto(b, s - 1) + i
          /\ Upto(b, s) <= setup.file_size
  /\ Upto(b, snd.sequence_number) = snd.num_data_bytes_sent

\* The receiver has the first data packets, as many as its number says, and the last
\* one it took was delivered: no earlier one can come any more.
TakenInv(b) ==
  /\ rcv.sequence_number <= snd.sequence_number
  /\ rcv.sequence_number > 0 =>
       \E i \in DOMAIN delivered : delivered[i] = b + rcv.sequence_number
  /\ \A i \in DOMAIN delivered : delivered[i] <= delivered[Len(delivered)]
  /\ rcv.state \in RCV_OPEN_CONNECTION..RCV_START_CONTROL_PACKET =>
       rcv.sequence_number = 0
  /\ \A i \in DOMAIN written : written[i] = i
  /\ Len(written) <= setup.file_size
  /\ rcv.ret = Running => Len(written) = Upto(b, rcv.sequence_number)

\* How far the receiver's number may be behind the transmitter's when the receiver has
\* refused that many packets: each confirmation needed a delivery, so a packet that is
\* missing has cost one of them an attempt.
Behind(refused) ==
  /\ snd.state = SND_DATA_PACKETS =>
       snd.sequence_number + (IF ahead THEN 1 ELSE 0) + snd.attempts_left
         <= rcv.sequence_number + refused + max_send_attempts + (IF outstanding THEN 1 ELSE 0)
  /\ snd.state \in SND_CLOSE_CONTROL_PACKET..SND_CLOSE_CONNECTION =>
       snd.sequence_number <= rcv.sequence_number + refused + max_send_attempts

\* A receiver that waits for the start packet has missed none as long as nothing else
\* was delivered; afterwards it never gets one.
GapInv(b) ==
  /\ rcv.state = RCV_DATA_PACKETS => Behind(max_receive_attempts - rcv.attempts_left)
  /\ /\ rcv.state \in RCV_OPEN_CONNECTION..RCV_START_CONTROL_PACKET
     /\ \A i \in DOMAIN delivered : delivered[i] <= b
     => Behind(0)

PrefixInv ==
  setup.debug /\ max_send_attempts + max_receive_attempts <= sequence_number_modulus =>
    \E b \in 0..submitted : SentInv(b) /\ TakenInv(b) /\ GapInv(b)

-----------------------------------------------------------------------------
(* The received file and the count of lost packets, in either build, when  *)
(* the receiver has had no trouble.                                        *)

\* The packets whose writes have returned, and those the receiver has answered beyond
\* what was confirmed.
settled == IF outstanding THEN submitted - 1 ELSE submitted
answered == IF ahead THEN 1 ELSE 0

\* Every write has succeeded so far.
AllConfirmed == confirmed = 1..settled

\* And each packet was delivered once and parsed.
Lockstep == AllConfirmed /\ Len(delivered) = settled + answered /\ ~rcv.trouble

\* Each confirmation takes up a delivery, the first that of the start packet.
ConfirmInv ==
  /\ outstanding => submitted \notin confirmed
  /\ snd.state \in SND_OPEN_CONNECTION..SND_START_CONTROL_PACKET => confirmed = {}
  /\ AllConfirmed => Len(delivered) >= settled + answered

\* A receiver that waits for the start packet has parsed nothing.
FreshInv ==
  rcv.state \in RCV_OPEN_CONNECTION..RCV_START_CONTROL_PACKET /\ ~rcv.trouble =>
    /\ delivered = <<>> /\ written = <<>>
    /\ rcv.sequence_number = 0 /\ rcv.lost_packets = 0

\* The receiver has parsed an end packet, or its program has ended.
AtEnd ==
  \/ rcv.state = RCV_CLOSE_CONNECTION
  \/ rcv.state = RCV_DATA_PACKETS /\ rcv.ret # Running

\* In lockstep there is one start packet, and the receiver has every packet up to the
\* last one delivered: it has the bytes of those until it has them all.
CopyInv(b) ==
  Lockstep =>
    /\ submitted > 0 => b = 1
    /\ \A i \in DOMAIN delivered : delivered[i] = i
    /\ rcv.state = RCV_DATA_PACKETS /\ rcv.ret = Running =>
         /\ rcv.sequence_number + 1 = Len(delivered)
         /\ rcv.sequence_number <= snd.sequence_number
         /\ rcv.received_file =>
              /\ Len(written) = Upto(b, rcv.sequence_number)
              /\ \A i \in DOMAIN written : written[i] = i
    /\ AtEnd /\ rcv.received_file => written = file

\* Of data packets 1 to s, those that were not delivered.
Skipped(b, s) == {k \in (b + 1)..(b + s) : \A i \in DOMAIN delivered : delivered[i] # k}

\* The receiver has parsed data packet s last. Its number is that of s but for whole
\* rounds of the modulus and what it lags behind; what it has counted as lost and what
\* it lags behind were not delivered.
CountInv(b, s, lag) ==
  at_most_once /\ ~rcv.trouble =>
    /\ rcv.lost_packets + lag <= Cardinality(Skipped(b, s))
    /\ rcv.state \in RCV_OPEN_CONNECTION..RCV_START_CONTROL_PACKET => s = 0 /\ lag = 0
    /\ rcv.state = RCV_DATA_PACKETS /\ rcv.ret = Running =>
         /\ (rcv.sequence_number + lag) % sequence_number_modulus
              = s % sequence_number_modulus
         /\ \A i \in DOMAIN delivered : delivered[i] <= b + s
         /\ s > 0 => \E i \in DOMAIN delivered : delivered[i] = b + s

LostInv(b) ==
  \E s \in 0..snd.sequence_number : \E lag \in 0..Len(sent) : CountInv(b, s, lag)

TransferInv ==
  /\ ConfirmInv /\ FreshInv
  /\ \E b \in 0..submitted : SentInv(b) /\ CopyInv(b) /\ LostInv(b)
=============================================================================
