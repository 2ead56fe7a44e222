---------------------------- MODULE FileTransfer ----------------------------
(***************************************************************************)
(* The file transfer of packets.c: send_file in one program, receive_file  *)
(* in the other, each a machine with a state, a number of attempts and one *)
(* call of the data link at a time. The data link is module LinkService,   *)
(* which module DataLink is shown to implement: the actions here take its  *)
(* actions as conjuncts.                                                   *)
(*                                                                         *)
(* Byte i of the file is the number i. Every packet is kept in sent, so    *)
(* that packet k of the service is sent[k].                                *)
(***************************************************************************)
EXTENDS Integers, Sequences, FiniteSets, Functions

CONSTANTS
  max_send_attempts,       \* send_file's argument
  max_receive_attempts,    \* receive_file's
  packet_size,             \* connection.packet_size
  max_data_transfer,       \* the option -p, 0 for none
  sequence_number_modulus,
  MAX_FD,                  \* entries of g_connections
  FirstFd,                 \* the first descriptor open() returns
  Builds,                  \* with APPLICATION_LAYER_DEBUG_MODE, without it
  FileSizes,               \* bound: sizes of the file
  ControlPacketSizes,      \* bound: sizes of a control packet
  MaxRepeats               \* bound: packets delivered or parsed once more

data_packet_header_size == 4

ASSUME AttemptsAssumption ==
  /\ max_send_attempts \in Nat \ {0}
  /\ max_receive_attempts \in Nat \ {0}
ASSUME SizesAssumption ==
  /\ packet_size \in Nat /\ packet_size > data_packet_header_size
  /\ max_data_transfer \in Nat
  /\ sequence_number_modulus \in Nat /\ sequence_number_modulus > 1
  /\ FileSizes \subseteq Nat /\ MaxRepeats \in Nat
  /\ ControlPacketSizes \subseteq Nat
ASSUME ProgramAssumption ==
  /\ MAX_FD \in Nat
  /\ FirstFd \in Nat \ {0}
  /\ Builds \subseteq BOOLEAN

VARIABLES
  setup,       \* the build, the file and its name's length: they never change
  snd,         \* send_file: its variables and what it returned
  rcv,         \* receive_file and receive_data_packets: theirs, whether the port
               \* is open, and whether an attempt to read was lost (trouble)
  descriptors, \* how many descriptors the transmitter has opened
  tty,         \* the settings of the transmitter's port, and g_oldtio
  sent,        \* the packets given to transmitter_write
  written,     \* the bytes in the received file
  at_most_once, submitted, outstanding, delivered, confirmed, ahead \* LinkService's

linkvars == <<at_most_once, submitted, outstanding, delivered, confirmed, ahead>>
vars == <<setup, snd, rcv, descriptors, tty, sent, written, linkvars>>

Link == INSTANCE LinkService

\* The states of the two machines.
SND_OPEN_CONNECTION      == 0
SND_START_CONTROL_PACKET == 1
SND_DATA_PACKETS         == 2
SND_CLOSE_CONTROL_PACKET == 3
SND_CLOSE_CONNECTION     == 4
RCV_OPEN_CONNECTION      == 0
RCV_START_CONTROL_PACKET == 1
RCV_DATA_PACKETS         == 2
RCV_CLOSE_CONNECTION     == 3

control_field_data  == 1
control_field_start == 2
control_field_end   == 3

\* What a machine has returned: 0, -1, aborted, or nothing yet.
Running == 1
Aborted == -2

file == [i \in 1..setup.file_size |-> i]

Init ==
  /\ setup \in [debug : Builds, file_size : FileSizes,
                control_packet_size : ControlPacketSizes]
  /\ snd = [state |-> SND_OPEN_CONNECTION, attempts_left |-> max_send_attempts,
            fd |-> 0, is_active |-> FALSE, num_data_bytes_sent |-> 0,
            sequence_number |-> 0, ret |-> Running]
  /\ rcv = [state |-> RCV_OPEN_CONNECTION, attempts_left |-> max_receive_attempts,
            is_active |-> FALSE, is_open |-> FALSE, received_file |-> FALSE,
            sequence_number |-> 0, lost_packets |-> 0, duplicated_packets |-> 0, trouble |-> FALSE,
            ret |-> Running]
  /\ descriptors = 0
  /\ tty = [settings |-> "original", saved |-> "none"]
  /\ sent = <<>>
  /\ written = <<>>
  /\ Link!Init

-----------------------------------------------------------------------------
(* Attempts.                                                               *)

\* Mutant: a failure costs nothing.
Patient(m) == m

\* One attempt less; with the last one the machine's loop ends and returns -1.
retry(m) ==
  [m EXCEPT !.attempts_left = @ - 1,
            !.ret = IF m.attempts_left = 1 THEN -1 ELSE @]

\* A call has succeeded: the next state begins with all its attempts.
Advance(m, next, attempts) == [m EXCEPT !.state = next, !.attempts_left = attempts]

-----------------------------------------------------------------------------
(* The transmitter's machine.                                              *)

Sending(state) == snd.ret = Running /\ snd.state = state /\ ~outstanding

\* Mutant: the settings are saved after they were changed.
saved_late == [settings |-> "raw", saved |-> "raw"]

\* The port of a transmitter once serial_port_open has returned.
opened == [settings |-> "raw", saved |-> tty.settings]

\* And once serial_port_close has.
closed == [tty EXCEPT !.settings = tty.saved]

\* The descriptor open() returns next. None is ever closed before a connection.
next_fd == FirstFd + descriptors

\* The port cannot be opened, with or without a descriptor left over; or its
\* settings cannot be changed, which ends the program; or transmitter_connect
\* finds no receiver; or one has answered. A descriptor is never given back.
llopen ==
  /\ Sending(SND_OPEN_CONNECTION)
  /\ \/ /\ snd' = retry(snd)
        /\ descriptors' \in {descriptors, descriptors + 1}
        /\ UNCHANGED tty
     \/ /\ snd' = [snd EXCEPT !.ret = -1]
        /\ descriptors' = descriptors + 1
        /\ tty' = [tty EXCEPT !.saved = tty.settings]
     \/ /\ snd' = retry(snd)
        /\ descriptors' = descriptors + 1
        /\ tty' = opened
     \/ /\ rcv.state # RCV_OPEN_CONNECTION
        /\ snd' = [Advance(snd, SND_START_CONTROL_PACKET, max_send_attempts)
                     EXCEPT !.fd = next_fd, !.is_active = TRUE]
        /\ descriptors' = descriptors + 1
        /\ tty' = opened
  /\ UNCHANGED <<setup, rcv, sent, written, linkvars>>

ControlPacket(field) == [field |-> field, seq |-> 0, data |-> <<>>]

\* The packet does not fit or there is no memory for it, or it is written. On a
\* port that is closed that fails; is_active is not asked.
send_control_packet(field) ==
  /\ \/ /\ snd' = retry(snd)
        /\ UNCHANGED <<sent, linkvars>>
     \/ /\ setup.control_packet_size <= packet_size
        /\ snd.fd # 0
        /\ Link!Submit
        /\ sent' = Append(sent, ControlPacket(field))
        /\ snd' = IF outstanding' THEN snd ELSE retry(snd)
  /\ UNCHANGED <<setup, rcv, descriptors, tty, written>>

send_start == Sending(SND_START_CONTROL_PACKET) /\ send_control_packet(control_field_start)
send_end   == Sending(SND_CLOSE_CONTROL_PACKET) /\ send_control_packet(control_field_end)

max_data_size ==
  LET room == packet_size - data_packet_header_size
  IN IF max_data_transfer \in 1..room THEN max_data_transfer ELSE room

\* The chunk after the first n bytes: what does not fill a packet goes first.
data_bytes_to_send(n) ==
  LET remainder == (setup.file_size - n) % max_data_size
  IN IF remainder = 0 THEN max_data_size ELSE remainder

\* Mutant: the place of a chunk is worked out from its number, as if all were full.
ChunkByNumber(n, sequence_number) ==
  [field |-> control_field_data, seq |-> sequence_number % sequence_number_modulus,
   data  |-> [i \in 1..data_bytes_to_send(n) |-> sequence_number * max_data_size + i]]

DataPacket(n, sequence_number) ==
  [field |-> control_field_data, seq |-> sequence_number % sequence_number_modulus,
   data  |-> SubSeq(file, n + 1, n + data_bytes_to_send(n))]

\* Mutant: the position moves by a full packet.
FullMove(m) ==
  [m EXCEPT !.num_data_bytes_sent = @ + max_data_size, !.sequence_number = @ + 1]

\* The position and the number move on before the packet is written.
Moved(m) ==
  [m EXCEPT !.num_data_bytes_sent = @ + data_bytes_to_send(@), !.sequence_number = @ + 1]

\* One round of the loop: the file is sent, or there is no memory, or the next
\* packet is written. Attempts are given back only with the last of them.
send_data_packets ==
  /\ Sending(SND_DATA_PACKETS)
  /\ \/ /\ snd.num_data_bytes_sent = setup.file_size
        /\ snd' = Advance(snd, SND_CLOSE_CONTROL_PACKET, max_send_attempts)
        /\ UNCHANGED <<sent, linkvars>>
     \/ /\ snd.num_data_bytes_sent < setup.file_size
        /\ snd' = retry(snd)
        /\ UNCHANGED <<sent, linkvars>>
     \/ /\ snd.num_data_bytes_sent < setup.file_size
        /\ Link!Submit
        /\ sent' = Append(sent, DataPacket(snd.num_data_bytes_sent, snd.sequence_number))
        /\ snd' = IF outstanding' THEN Moved(snd) ELSE retry(Moved(snd))
  /\ UNCHANGED <<setup, rcv, descriptors, tty, written>>

\* transmitter_write returns 0.
write_confirmed ==
  /\ Link!Confirm
  /\ snd' = CASE snd.state = SND_START_CONTROL_PACKET ->
                   Advance(snd, SND_DATA_PACKETS, max_send_attempts)
              [] snd.state = SND_CLOSE_CONTROL_PACKET ->
                   Advance(snd, SND_CLOSE_CONNECTION, max_send_attempts)
              [] OTHER -> snd
  /\ UNCHANGED <<setup, rcv, descriptors, tty, sent, written>>

\* Mutant: a write that failed is taken for one that succeeded.
WriteFailureIgnored(m) == Advance(m, m.state + 1, max_send_attempts)

AfterFailure(m) == retry(m)

\* transmitter_write returns -1.
write_failed ==
  /\ Link!Fail
  /\ snd' = AfterFailure(snd)
  /\ UNCHANGED <<setup, rcv, descriptors, tty, sent, written>>

\* The receiver has taken part in a DISC exchange, or is in one.
ReceiverLeaves ==
  \/ rcv.state = RCV_CLOSE_CONNECTION
  \/ rcv.state # RCV_OPEN_CONNECTION /\ ~rcv.is_active

\* The transmitter has sent DISC.
TransmitterLeaves ==
  \/ snd.state = SND_CLOSE_CONNECTION
  \/ snd.state # SND_OPEN_CONNECTION /\ ~snd.is_active

\* Where a failed llclose leads: to a state of the receiver's machine, whose
\* number here is that of SND_CLOSE_CONTROL_PACKET.
AfterFailedClose == RCV_CLOSE_CONNECTION

\* llclose. It closes the port whatever becomes of the exchange, unless the
\* settings cannot be restored.
send_llclose ==
  /\ Sending(SND_CLOSE_CONNECTION)
  /\ LET left == [snd EXCEPT !.is_active = FALSE]
     IN \/ /\ ReceiverLeaves
           /\ snd' = [left EXCEPT !.fd = 0, !.ret = 0]
           /\ tty' = closed
        \/ /\ snd' = retry([left EXCEPT !.state = AfterFailedClose])
           /\ UNCHANGED tty
        \/ /\ snd' = retry([left EXCEPT !.state = AfterFailedClose, !.fd = 0])
           /\ tty' = closed
  /\ UNCHANGED <<setup, rcv, descriptors, sent, written, linkvars>>

-----------------------------------------------------------------------------
(* The receiver's machine.                                                 *)

Receiving(state) == rcv.ret = Running /\ rcv.state = state

\* receiver_listen fails, or the port's settings cannot be changed, which ends the
\* program; or it returns 0 when it has seen a SET, be it of another attempt of the
\* transmitter's or noise.
receive_llopen ==
  /\ Receiving(RCV_OPEN_CONNECTION)
  /\ \/ rcv' = retry(rcv)
     \/ rcv' = [rcv EXCEPT !.ret = -1]
     \/ rcv' = [Advance(rcv, RCV_START_CONTROL_PACKET, max_receive_attempts)
                  EXCEPT !.is_active = TRUE, !.is_open = TRUE]
  /\ UNCHANGED <<setup, snd, descriptors, tty, sent, written, linkvars>>

\* Mutant: it is not counted.
Forgiven(m) == [m EXCEPT !.trouble = TRUE]

\* A failed attempt of receive_data_packets or receive_start_control_packet.
Refused(m) == [retry(m) EXCEPT !.trouble = TRUE]

\* The name that parse_control_packet takes from the start packet has no end. The
\* file is opened under it or is not, which is not looked at.
parse_control_packet(m) == {[m EXCEPT !.received_file = f] : f \in BOOLEAN}

\* What receive_start_control_packet makes of packet p.
receive_start_control_packet(m, p) ==
  { n \in parse_control_packet(Advance(m, RCV_DATA_PACKETS, max_receive_attempts)) :
      p.field = control_field_start }

\* Mutant: any number will do.
AnyNumber(m, seq) == {m}

\* Mutant: the packet that shows the loss is counted as lost too.
OneMoreLost(m, seq) ==
  LET expected == m.sequence_number % sequence_number_modulus
  IN IF seq = expected THEN {m}
     ELSE IF setup.debug THEN {}
     ELSE {[m EXCEPT !.sequence_number = @ + (seq - expected),
                     !.lost_packets = @ + (seq - expected) + 1]}

\* The number in a packet against the next one modulo the modulus. The debugging
\* build refuses another one. The other build takes a greater one for a loss and
\* a smaller one for a repetition, and reduces its own number then.
Numbered(m, seq) ==
  LET expected == m.sequence_number % sequence_number_modulus
  IN CASE seq = expected -> {m}
       [] seq # expected /\ setup.debug -> {}
       [] seq > expected /\ ~setup.debug ->
            {[m EXCEPT !.sequence_number = @ + (seq - expected),
                       !.lost_packets = @ + (seq - expected)]}
       [] seq < expected /\ ~setup.debug ->
            {[m EXCEPT !.sequence_number = expected, !.duplicated_packets = @ + 1]}

\* Machine m uses the file; if it was not opened that ends the program.
Using(m) == IF m.received_file THEN m ELSE [m EXCEPT !.ret = Aborted]

\* What parse_data_packet makes of data packet p, whose bytes are written
\* whatever the build makes of its number.
parse_data_packet(m, p) ==
  { [machine |-> Using([n EXCEPT !.sequence_number = @ + 1]),
     data |-> IF m.received_file THEN p.data ELSE <<>>] :
      n \in {q \in Numbered(m, p.seq) : p.field = control_field_data} }

\* The end packet closes the file, which may fail.
parse_end_packet(m, p) ==
  { [machine |-> Using(n), data |-> <<>>] :
      n \in {q \in { Advance(m, RCV_CLOSE_CONNECTION, max_receive_attempts),
                     [m EXCEPT !.ret = -1] } : p.field = control_field_end} }

\* The program in state m has p in its buffer. It may refuse any packet, for
\* want of memory.
parse(m, p) ==
  \/ /\ Receiving(RCV_START_CONTROL_PACKET)
     /\ rcv' \in {Refused(m)} \cup receive_start_control_packet(m, p)
     /\ UNCHANGED written
  \/ /\ Receiving(RCV_DATA_PACKETS)
     /\ \E r \in {[machine |-> Refused(m), data |-> <<>>]}
                   \cup parse_data_packet(m, p) \cup parse_end_packet(m, p) :
          rcv' = r.machine /\ written' = written \o r.data

\* llread returns a packet.
llread ==
  /\ rcv.is_active
  /\ \E k \in 1..submitted : Link!Deliver(k) /\ parse(rcv, sent[k])
  /\ Len(delivered') <= MaxRepeats + Cardinality(Range(delivered'))
  /\ UNCHANGED <<setup, snd, descriptors, tty, sent>>

\* What llread leaves in its new memory when it returns 0: no packet, or the one
\* before, which was in the same place.
Junk == {[field |-> 0, seq |-> 0, data |-> <<>>]} \cup
        {sent[delivered[i]] : i \in DOMAIN delivered \cap {Len(delivered)}}

\* llread returns 0, for the transmitter disconnects, whether or not the port can be
\* closed, or a rejection could not be written. The buffer is used all the same.
llread_nothing ==
  /\ rcv.is_active
  /\ \E p \in Junk, open \in BOOLEAN :
       \/ /\ TransmitterLeaves
          /\ parse([rcv EXCEPT !.is_active = FALSE, !.is_open = open, !.trouble = TRUE], p)
       \/ ~at_most_once /\ parse([rcv EXCEPT !.trouble = TRUE], p)
  /\ Len(written') <= setup.file_size + MaxRepeats * max_data_size
  /\ UNCHANGED <<setup, snd, descriptors, tty, sent, linkvars>>

\* llread returns -1, for want of memory or on a connection that has ended.
\* On such a one receive_start_control_packet frees a second time what llread has
\* freed.
llread_fails ==
  /\ \/ /\ Receiving(RCV_START_CONTROL_PACKET) \/ Receiving(RCV_DATA_PACKETS)
        /\ rcv' = Refused(rcv)
     \/ /\ Receiving(RCV_START_CONTROL_PACKET) /\ ~rcv.is_active
        /\ rcv' = [rcv EXCEPT !.ret = Aborted]
  /\ UNCHANGED <<setup, snd, descriptors, tty, sent, written, linkvars>>

\* llclose, which asks for an open port, not for an active connection; a failed one
\* may leave it open. A data packet that arrives meanwhile has no buffer to go to.
receive_llclose ==
  /\ Receiving(RCV_CLOSE_CONNECTION)
  /\ \/ /\ rcv.is_open /\ TransmitterLeaves
        /\ rcv' = [rcv EXCEPT !.is_active = FALSE, !.is_open = FALSE, !.ret = 0]
     \/ \E open \in {FALSE, rcv.is_open} :
          rcv' = [retry(rcv) EXCEPT !.is_active = FALSE, !.is_open = open]
     \/ /\ rcv.is_open /\ outstanding
        /\ rcv' = [rcv EXCEPT !.ret = Aborted]
  /\ UNCHANGED <<setup, snd, descriptors, tty, sent, written, linkvars>>

-----------------------------------------------------------------------------
Transmitter == llopen \/ send_start \/ send_data_packets \/ send_end
                 \/ write_confirmed \/ write_failed \/ send_llclose
Receiver == receive_llopen \/ llread \/ llread_nothing \/ llread_fails \/ receive_llclose

Next == Transmitter \/ Receiver

Spec == Init /\ [][Next]_vars

\* A write of the transmitter's and a DISC exchange of the receiver's may take
\* each other's frames for replies that cost no attempt. Also the last moment of
\* every session's last write: the receiver has its end packet and goes on to llclose
\* while the RR is on its way.
CrossTalk == outstanding /\ ReceiverLeaves /\ rcv.ret = Running

\* Every call of the data link returns, unless it waits for a peer that is not
\* bound to come: see link_liveness. The calls that return at once do so always.
Fairness ==
  /\ WF_vars(Transmitter /\ ~CrossTalk)
  /\ WF_vars((llread_fails /\ ~rcv.is_active) \/ (receive_llclose /\ ~CrossTalk))

FairSpec == Spec /\ Fairness

-----------------------------------------------------------------------------
(* Properties.                                                             *)

TypeOK ==
  /\ setup \in [debug : Builds, file_size : FileSizes,
                control_packet_size : ControlPacketSizes]
  /\ snd \in [state : SND_OPEN_CONNECTION..SND_CLOSE_CONNECTION,
              attempts_left : 0..max_send_attempts, fd : Nat, is_active : BOOLEAN,
              num_data_bytes_sent : 0..setup.file_size, sequence_number : Nat,
              ret : {Running, 0, -1}]
  /\ rcv \in [state : RCV_OPEN_CONNECTION..RCV_CLOSE_CONNECTION,
              attempts_left : 0..max_receive_attempts, is_active : BOOLEAN,
              is_open : BOOLEAN, received_file : BOOLEAN, sequence_number : Nat,
              lost_packets : Nat, duplicated_packets : Nat, trouble : BOOLEAN,
              ret : {Running, 0, -1, Aborted}]
  /\ descriptors \in Nat
  /\ tty \in [settings : {"original", "raw"}, saved : {"none", "original", "raw"}]
  /\ sent \in Seq([field : 1..3, seq : 0..sequence_number_modulus - 1, data : Seq(Nat)])
  /\ written \in Seq(Nat)
  /\ Len(sent) = submitted
  /\ at_most_once \in BOOLEAN
  /\ outstanding \in BOOLEAN
  /\ delivered \in Seq(1..submitted)
  /\ confirmed \subseteq 1..submitted
  /\ ahead \in BOOLEAN

\* In the debugging build the received file is a prefix of the file: no bytes are
\* lost from its middle, repeated or out of place, whatever writes failed and
\* whichever packets were refused. Numbers that come round again are no danger
\* because the attempts run out first.
Prefix ==
  setup.debug /\ max_send_attempts + max_receive_attempts <= sequence_number_modulus
    => Len(written) <= setup.file_size /\ written = [i \in 1..Len(written) |-> i]

\* When every write succeeds, no packet is delivered twice and every one is parsed,
\* the whole file is there once either side has reached its end: the odd chunk goes
\* first, and no chunk runs past the end.
Whole ==
  /\ snd.ret = 0 \/ rcv.state = RCV_CLOSE_CONNECTION
  /\ confirmed = 1..submitted
  /\ Len(delivered) = submitted
  /\ ~rcv.trouble /\ rcv.received_file
  => written = file

DataPackets == {k \in 1..submitted : sent[k].field = control_field_data}
Missing == {k \in DataPackets : \A i \in DOMAIN delivered : delivered[i] # k}

\* The other build counts no packet as lost that was not: the number it has fallen
\* behind by at a wrap is made up for at the next.
LostReal ==
  at_most_once /\ ~rcv.trouble => rcv.lost_packets <= Cardinality(Missing)

\* llopen never stores a connection beyond the end of g_connections, though the
\* descriptors of failed attempts are never closed, as long as the table has room
\* for all the attempts.
DescriptorInTable ==
  FirstFd + max_send_attempts <= MAX_FD => snd.fd < MAX_FD

\* receive_start_control_packet frees its packet a second time only in a session in
\* which it has refused two packets before, a start packet first: the transmitter
\* disconnects only after two confirmations. With three attempts, the default, that
\* cannot happen; with four it does.
FreedOnce ==
  rcv.ret = Aborted /\ rcv.state = RCV_START_CONTROL_PACKET =>
    /\ max_receive_attempts > 3
    /\ Len(delivered) > 1 /\ sent[delivered[1]].field = control_field_start

\* A transmitter that says the file was sent has seen an end packet confirmed
\* after its last byte, and the receiver has been told to hang up.
SentToTheEnd ==
  snd.ret = 0 =>
    /\ snd.num_data_bytes_sent = setup.file_size
    /\ ReceiverLeaves
    /\ \E k \in confirmed : sent[k].field = control_field_end /\ \A j \in DataPackets : j < k

\* Its port has its first settings again, unless an earlier attempt to connect
\* had put them away.
SettingsRestored ==
  snd.ret = 0 /\ descriptors = 1 => tty.settings = "original"

\* send_file returns, whatever goes wrong and however often it goes back to the
\* end packet, unless from some point on it talks at cross purposes with a receiver
\* that hangs up, for ever.
TransmitterEnds == <>(snd.ret # Running) \/ <>[]CrossTalk

\* Once send_file has returned 0, receive_file returns or its program ends.
ReceiverEnds == snd.ret = 0 ~> rcv.ret # Running

\* report.tex has the sizes compared at the end: when both sides report success
\* the received file is the file.
SizesAgree == snd.ret = 0 /\ rcv.ret = 0 => written = file
=============================================================================
