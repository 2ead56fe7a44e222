-------------------------- MODULE FileTransferWhole --------------------------
(***************************************************************************)
(* The received file is whole when every write succeeds and every packet   *)
(* is parsed, and no packet is counted as lost that was not, in either     *)
(* build and for any sizes, attempts and modulus: TransferInv is           *)
(* invariant, and Whole and LostReal follow.                               *)
(***************************************************************************)
EXTENDS FileTransferPrefix, FiniteSetTheorems

\* The types of what the service has, and of the two counts.
LEMMA ServiceNumbers ==
  ASSUME AllInv
  PROVE  /\ submitted \in Nat /\ outstanding \in BOOLEAN /\ ahead \in BOOLEAN
         /\ confirmed \subseteq 1..submitted
         /\ delivered \in Seq(1..submitted) /\ Len(delivered) \in Nat
         /\ outstanding => submitted > 0
         /\ settled \in Nat /\ settled <= submitted /\ answered \in {0, 1}
<1>1. /\ submitted \in Nat /\ outstanding \in BOOLEAN /\ ahead \in BOOLEAN
      /\ confirmed \subseteq 1..submitted
      /\ delivered \in Seq(1..submitted) /\ Len(delivered) \in Nat
  BY Numbers
<1>2. outstanding => submitted > 0
  BY DEF AllInv, FileInv, WriteInv
<1> QED BY <1>1, <1>2 DEF settled, answered

-----------------------------------------------------------------------------
(* The service.                                                            *)

\* Every step of the programs' uses the data link as it is meant to be used.
LEMMA UsesLink ==
  ASSUME Next
  PROVE  Link!Next \/ UNCHANGED linkvars
<1>1. CASE Transmitter
  BY <1>1 DEF Transmitter, llopen, send_start, send_end, send_control_packet,
     send_data_packets, write_confirmed, write_failed, send_llclose, Link!Next
<1>2. CASE Receiver
  BY <1>2 DEF Receiver, receive_llopen, llread, llread_nothing, llread_fails,
     receive_llclose, Link!Next
<1> QED BY <1>1, <1>2 DEF Next

\* A step of the service keeps what is confirmed tied to what is delivered. It ends in
\* lockstep only if it began there: what was left unconfirmed, or delivered once more,
\* stays so.
LEMMA ServiceStep ==
  ASSUME AllInv, AllInv', ConfirmInv, Link!Next \/ UNCHANGED linkvars,
         snd'.state \in SND_OPEN_CONNECTION..SND_START_CONTROL_PACKET => confirmed' = {}
  PROVE  /\ ConfirmInv'
         /\ AllConfirmed' => AllConfirmed
         /\ AllConfirmed' /\ Len(delivered') = settled' + answered' =>
              Len(delivered) = settled + answered
<1>1. /\ submitted \in Nat /\ outstanding \in BOOLEAN /\ ahead \in BOOLEAN
      /\ confirmed \subseteq 1..submitted
      /\ delivered \in Seq(1..submitted) /\ Len(delivered) \in Nat
      /\ outstanding => submitted > 0
      /\ settled \in Nat /\ settled <= submitted /\ answered \in {0, 1}
  BY ServiceNumbers
<1>2. /\ outstanding => submitted \notin confirmed
      /\ AllConfirmed => Len(delivered) >= settled + answered
  BY DEF ConfirmInv
<1>3. ASSUME /\ outstanding' => submitted' \notin confirmed'
             /\ AllConfirmed' => /\ AllConfirmed
                                 /\ Len(delivered') - (settled' + answered')
                                      >= Len(delivered) - (settled + answered)
             /\ Len(delivered') \in Nat /\ settled' + answered' \in Nat
      PROVE  /\ ConfirmInv'
             /\ AllConfirmed' => AllConfirmed
             /\ AllConfirmed' /\ Len(delivered') = settled' + answered' =>
                  Len(delivered) = settled + answered
  <2>1. PICK n \in Nat : n = settled' + answered'
    BY <1>3
  <2>2. PICK l \in Nat : l = Len(delivered')
    BY <1>3
  <2>3. AllConfirmed' => l - n >= Len(delivered) - (settled + answered)
    BY <1>3, <2>1, <2>2
  <2>4. AllConfirmed' => l >= n /\ (l = n => Len(delivered) = settled + answered)
    BY <1>1, <1>2, <1>3, <2>3
  <2>5. ConfirmInv'
    BY <1>3, <2>1, <2>2, <2>4 DEF ConfirmInv
  <2> QED BY <1>3, <2>1, <2>2, <2>4, <2>5
<1>4. CASE UNCHANGED linkvars
  BY <1>1, <1>2, <1>3, <1>4 DEF linkvars, AllConfirmed, settled, answered
<1>5. CASE Link!Submit
  <2>1. /\ outstanding = FALSE /\ submitted' = submitted + 1 /\ outstanding' \in BOOLEAN
        /\ UNCHANGED <<delivered, confirmed, ahead>>
    BY <1>5 DEF Link!Submit
  <2>2. /\ settled = submitted /\ answered' = answered
        /\ settled' = IF outstanding' THEN submitted ELSE submitted + 1
    BY <1>1, <2>1 DEF settled, answered
  <2>3. submitted + 1 \notin confirmed
    BY <1>1
  <2>4. AllConfirmed' => AllConfirmed /\ settled' = settled
    <3>1. CASE outstanding'
      BY <2>1, <2>2, <3>1 DEF AllConfirmed
    <3>2. CASE ~outstanding'
      <4>1. submitted + 1 \in 1..settled'
        BY <1>1, <2>2, <3>2
      <4> QED BY <2>1, <2>3, <4>1 DEF AllConfirmed
    <3> QED BY <3>1, <3>2
  <2> QED BY <1>1, <1>3, <2>1, <2>2, <2>3, <2>4
<1>6. CASE Link!Fail
  <2>1. /\ outstanding /\ outstanding' = FALSE
        /\ UNCHANGED <<submitted, delivered, confirmed, ahead>>
    BY <1>6 DEF Link!Fail
  <2>2. settled' = submitted /\ answered' = answered
    BY <2>1 DEF settled, answered
  <2>3. ~AllConfirmed'
    <3>1. submitted \in 1..settled' /\ submitted \notin confirmed'
      BY <1>1, <1>2, <2>1, <2>2
    <3> QED BY <3>1 DEF AllConfirmed
  <2> QED BY <1>1, <1>3, <2>1, <2>2, <2>3
<1>7. CASE Link!Confirm
  <2>1. /\ outstanding /\ ahead /\ outstanding' = FALSE /\ ahead' = FALSE
        /\ confirmed' = confirmed \cup {submitted}
        /\ UNCHANGED <<submitted, delivered>>
    BY <1>7 DEF Link!Confirm
  <2>2. settled + 1 = submitted /\ settled' = submitted /\ answered = 1 /\ answered' = 0
    BY <1>1, <2>1 DEF settled, answered
  <2>3. AllConfirmed' => AllConfirmed
    <3>1. submitted \notin confirmed
      BY <1>2, <2>1
    <3>2. ASSUME confirmed \cup {submitted} = 1..submitted
          PROVE  confirmed = 1..settled
      <4>1. confirmed = (1..submitted) \ {submitted}
        BY <3>1, <3>2
      <4>2. (1..submitted) \ {submitted} = 1..settled
        BY <1>1, <2>2
      <4> QED BY <4>1, <4>2
    <3> QED BY <2>1, <2>2, <3>2 DEF AllConfirmed
  <2> QED BY <1>1, <1>3, <2>1, <2>2, <2>3
<1>8. ASSUME NEW k \in 1..submitted, Link!Deliver(k)
      PROVE  /\ ConfirmInv'
             /\ AllConfirmed' => AllConfirmed
             /\ AllConfirmed' /\ Len(delivered') = settled' + answered' =>
                  Len(delivered) = settled + answered
  <2>1. /\ ahead = FALSE /\ delivered' = Append(delivered, k) /\ ahead' \in BOOLEAN
        /\ UNCHANGED <<submitted, outstanding, confirmed>>
    BY <1>1, <1>8 DEF Link!Deliver
  <2>2. settled' = settled /\ answered = 0 /\ answered' \in {0, 1}
    BY <2>1 DEF settled, answered
  <2>3. Len(delivered') = Len(delivered) + 1
    BY <1>1, <2>1
  <2>4. AllConfirmed' <=> AllConfirmed
    BY <2>1, <2>2 DEF AllConfirmed
  <2>5. Len(delivered') - (settled' + answered') >= Len(delivered) - (settled + answered)
    BY <1>1, <2>2, <2>3
  <2>6. Len(delivered') \in Nat /\ settled' + answered' \in Nat
    <3>1. PICK n \in Nat : n = settled'
      BY <1>1, <2>2
    <3>2. PICK a \in Nat : a = answered'
      BY <2>2
    <3>3. n + a \in Nat
      OBVIOUS
    <3>4. settled' + answered' \in Nat
      BY ONLY <3>1, <3>2, <3>3
    <3>5. Len(delivered') \in Nat
      BY <1>1, <2>3
    <3> QED BY <3>4, <3>5
  <2>7. outstanding' => submitted' \notin confirmed'
    BY <1>2, <2>1
  <2> QED BY <1>3, <2>4, <2>5, <2>6, <2>7
<1> QED BY <1>4, <1>5, <1>6, <1>7, <1>8 DEF Link!Next

-----------------------------------------------------------------------------
(* What a receiver makes of a packet, in either build.                     *)

\* It opens the file;
Opens(p) ==
  /\ p.field = control_field_start
  /\ rcv.state = RCV_START_CONTROL_PACKET /\ rcv'.state = RCV_DATA_PACKETS
  /\ rcv'.ret = Running
  /\ UNCHANGED written
  /\ rcv'.sequence_number = rcv.sequence_number /\ rcv'.lost_packets = rcv.lost_packets

\* or it takes data packet p, whose number is the one it waits for, a greater one or a
\* smaller one;
CountsAs(r, seq) ==
  \/ /\ seq = r
     /\ rcv'.sequence_number = rcv.sequence_number + 1
     /\ rcv'.lost_packets = rcv.lost_packets
  \/ /\ seq > r
     /\ rcv'.sequence_number = rcv.sequence_number + (seq - r) + 1
     /\ rcv'.lost_packets = rcv.lost_packets + (seq - r)
  \/ /\ seq < r
     /\ rcv'.sequence_number = r + 1
     /\ rcv'.lost_packets = rcv.lost_packets

Takes(p) ==
  /\ p.field = control_field_data
  /\ rcv.state = RCV_DATA_PACKETS /\ rcv'.state = RCV_DATA_PACKETS /\ rcv.ret = Running
  /\ CountsAs(rcv.sequence_number % sequence_number_modulus, p.seq)
  /\ rcv'.received_file = rcv.received_file
  /\ IF rcv.received_file THEN rcv'.ret = Running /\ written' = written \o p.data
                           ELSE rcv'.ret = Aborted

\* or it closes the file.
Ends(p) ==
  /\ p.field = control_field_end
  /\ rcv.state = RCV_DATA_PACKETS /\ rcv.ret = Running /\ AtEnd'
  /\ UNCHANGED written
  /\ rcv'.sequence_number = rcv.sequence_number /\ rcv'.lost_packets = rcv.lost_packets
  /\ rcv'.received_file = rcv.received_file

\* The fields of a machine that has been given a number.
LEMMA NumberedFields ==
  ASSUME NEW m \in Receivers, NEW r \in Nat, r = m.sequence_number % sequence_number_modulus,
         NEW seq \in Nat, NEW n \in Numbered(m, seq)
  PROVE  /\ n.state = m.state /\ n.ret = m.ret /\ n.received_file = m.received_file
         /\ n.trouble = m.trouble /\ DOMAIN n = DOMAIN m
         /\ \/ /\ seq = r
               /\ n.sequence_number = m.sequence_number /\ n.lost_packets = m.lost_packets
            \/ /\ seq > r
               /\ n.sequence_number = m.sequence_number + (seq - r)
               /\ n.lost_packets = m.lost_packets + (seq - r)
            \/ /\ seq < r
               /\ n.sequence_number = r /\ n.lost_packets = m.lost_packets
<1>1. \/ seq = r /\ n = m
      \/ /\ seq > r
         /\ n = [m EXCEPT !.sequence_number = @ + (seq - r), !.lost_packets = @ + (seq - r)]
      \/ /\ seq < r
         /\ n = [m EXCEPT !.sequence_number = r, !.duplicated_packets = @ + 1]
  <2>1. Numbered(m, seq) =
          CASE seq = r -> {m}
            [] seq # r /\ setup.debug -> {}
            [] seq > r /\ ~setup.debug ->
                 {[m EXCEPT !.sequence_number = @ + (seq - r), !.lost_packets = @ + (seq - r)]}
            [] seq < r /\ ~setup.debug ->
                 {[m EXCEPT !.sequence_number = r, !.duplicated_packets = @ + 1]}
    BY DEF Numbered
  <2> QED BY <2>1
<1>2. CASE seq = r /\ n = m
  BY <1>2
<1>3. CASE /\ seq > r
           /\ n = [m EXCEPT !.sequence_number = @ + (seq - r), !.lost_packets = @ + (seq - r)]
  BY <1>3 DEF Receivers
<1>4. CASE /\ seq < r
           /\ n = [m EXCEPT !.sequence_number = r, !.duplicated_packets = @ + 1]
  BY <1>4 DEF Receivers
<1> QED BY <1>1, <1>2, <1>3, <1>4

\* A packet in the buffer is refused, or means trouble, or is one of the three.
LEMMA Parses ==
  ASSUME rcv \in Receivers, NEW m \in Receivers, m.ret = Running, m.state = rcv.state,
         m.sequence_number = rcv.sequence_number, m.lost_packets = rcv.lost_packets,
         m.received_file = rcv.received_file,
         NEW p, p.seq \in 0..(sequence_number_modulus - 1), p.data \in Seq(Nat),
         written \in Seq(Nat), parse(m, p)
  PROVE  /\ m.trouble => rcv'.trouble
         /\ rcv'.trouble \/ Opens(p) \/ Takes(p) \/ Ends(p)
<1>0. written \o <<>> = written
  OBVIOUS
<1>1. ASSUME rcv' = Refused(m)
      PROVE  rcv'.trouble
  BY <1>1 DEF Refused, retry, Receivers
<1>2. CASE /\ Receiving(RCV_START_CONTROL_PACKET)
           /\ rcv' \in {Refused(m)} \cup receive_start_control_packet(m, p)
           /\ UNCHANGED written
  <2>1. CASE rcv' = Refused(m)
    BY <1>1, <2>1
  <2>2. CASE rcv' \in receive_start_control_packet(m, p)
    <3>1. PICK f \in BOOLEAN :
            /\ p.field = control_field_start
            /\ rcv' = [Advance(m, RCV_DATA_PACKETS, max_receive_attempts)
                         EXCEPT !.received_file = f]
      BY <2>2 DEF receive_start_control_packet, parse_control_packet
    <3>2. /\ rcv'.state = RCV_DATA_PACKETS /\ rcv'.ret = m.ret
          /\ rcv'.sequence_number = m.sequence_number /\ rcv'.lost_packets = m.lost_packets
          /\ rcv'.trouble = m.trouble
      BY <3>1 DEF Advance, Receivers
    <3> QED BY <1>2, <3>1, <3>2 DEF Opens, Receiving
  <2> QED BY <1>2, <2>1, <2>2
<1>3. ASSUME Receiving(RCV_DATA_PACKETS),
             NEW r \in {[machine |-> Refused(m), data |-> <<>>]}
                          \cup parse_data_packet(m, p) \cup parse_end_packet(m, p),
             rcv' = r.machine, written' = written \o r.data
      PROVE  /\ m.trouble => rcv'.trouble
             /\ rcv'.trouble \/ Opens(p) \/ Takes(p) \/ Ends(p)
  <2>1. rcv.state = RCV_DATA_PACKETS /\ rcv.ret = Running
    BY <1>3 DEF Receiving
  <2>2. CASE r = [machine |-> Refused(m), data |-> <<>>]
    BY <1>1, <1>3, <2>2
  <2>3. CASE r \in parse_data_packet(m, p)
    <3>1. PICK n \in Numbered(m, p.seq) :
            /\ p.field = control_field_data
            /\ r = [machine |-> Using([n EXCEPT !.sequence_number = @ + 1]),
                    data |-> IF m.received_file THEN p.data ELSE <<>>]
      BY <2>3 DEF parse_data_packet
    <3>2. PICK e \in Nat : e = rcv.sequence_number % sequence_number_modulus
      BY SizesAssumption DEF Receivers
    <3>3. PICK seq \in Nat : seq = p.seq
      OBVIOUS
    <3>4. PICK q : q = [n EXCEPT !.sequence_number = @ + 1]
      OBVIOUS
    <3>5. /\ n.state = rcv.state /\ n.ret = Running /\ n.received_file = rcv.received_file
          /\ n.trouble = m.trouble /\ DOMAIN n = DOMAIN m
          /\ \/ /\ seq = e
                /\ n.sequence_number = rcv.sequence_number /\ n.lost_packets = rcv.lost_packets
             \/ /\ seq > e
                /\ n.sequence_number = rcv.sequence_number + (seq - e)
                /\ n.lost_packets = rcv.lost_packets + (seq - e)
             \/ /\ seq < e
                /\ n.sequence_number = e /\ n.lost_packets = rcv.lost_packets
      <4>1. n \in Numbered(m, seq) /\ e = m.sequence_number % sequence_number_modulus
        BY <3>1, <3>2, <3>3
      <4> QED BY <4>1, NumberedFields
    <3>6. /\ q.state = rcv.state /\ q.ret = Running /\ q.received_file = rcv.received_file
          /\ q.trouble = m.trouble /\ q.sequence_number = n.sequence_number + 1
          /\ q.lost_packets = n.lost_packets /\ DOMAIN q = DOMAIN m
      BY <3>4, <3>5 DEF Receivers
    <3>7. rcv' = Using(q) /\ written' = written \o (IF m.received_file THEN p.data ELSE <<>>)
      BY <1>3, <3>1, <3>4
    <3>8. /\ rcv'.state = q.state /\ rcv'.received_file = q.received_file
          /\ rcv'.trouble = q.trouble /\ rcv'.sequence_number = q.sequence_number
          /\ rcv'.lost_packets = q.lost_packets
          /\ rcv'.ret = IF rcv.received_file THEN Running ELSE Aborted
      BY <3>6, <3>7 DEF Using, Receivers
    <3>9. CountsAs(e, seq)
      BY <3>5, <3>6, <3>8 DEF CountsAs
    <3> QED BY <2>1, <3>1, <3>2, <3>3, <3>6, <3>7, <3>8, <3>9 DEF Takes
  <2>4. CASE r \in parse_end_packet(m, p)
    <3>1. PICK q \in {Advance(m, RCV_CLOSE_CONNECTION, max_receive_attempts),
                      [m EXCEPT !.ret = -1]} :
            p.field = control_field_end /\ r = [machine |-> Using(q), data |-> <<>>]
      BY <2>4 DEF parse_end_packet
    <3>2. rcv' = Using(q) /\ written' = written
      BY <1>0, <1>3, <3>1
    <3>3. /\ rcv'.trouble = m.trouble /\ rcv'.sequence_number = rcv.sequence_number
          /\ rcv'.lost_packets = rcv.lost_packets /\ rcv'.received_file = rcv.received_file
          /\ \/ rcv'.state = RCV_CLOSE_CONNECTION
             \/ rcv'.state = RCV_DATA_PACKETS /\ rcv'.ret \in {-1, Aborted}
      <4>1. CASE q = Advance(m, RCV_CLOSE_CONNECTION, max_receive_attempts)
        BY <3>2, <4>1 DEF Advance, Using, Receivers
      <4>2. CASE q = [m EXCEPT !.ret = -1]
        BY <2>1, <3>2, <4>2 DEF Using, Receivers
      <4> QED BY <3>1, <4>1, <4>2
    <3>4. AtEnd'
      BY <3>3 DEF AtEnd, Running, Aborted
    <3> QED BY <2>1, <3>1, <3>2, <3>3, <3>4 DEF Ends
  <2> QED BY <1>3, <2>2, <2>3, <2>4
<1> QED BY <1>2, <1>3 DEF parse

\* A step in which nothing is parsed, by a receiver that is not waiting for data.
Idle ==
  /\ Listened /\ UNCHANGED <<delivered, ahead, at_most_once, written>>
  /\ rcv'.sequence_number = rcv.sequence_number /\ rcv'.lost_packets = rcv.lost_packets
  /\ rcv'.trouble = rcv.trouble /\ rcv'.received_file = rcv.received_file
  /\ \/ rcv'.state = rcv.state /\ rcv.state # RCV_DATA_PACKETS
     \/ rcv.state = RCV_OPEN_CONNECTION /\ rcv'.state = RCV_START_CONTROL_PACKET

\* A packet that is delivered and parsed.
Accepts(k) ==
  /\ k \in 1..submitted /\ Link!Deliver(k) /\ Listened /\ UNCHANGED at_most_once
  /\ Opens(sent[k]) \/ Takes(sent[k]) \/ Ends(sent[k])

\* Once it has had trouble, a receiver has had it for good.
LEMMA ReceiverParses ==
  ASSUME AllInv, Receiver
  PROVE  /\ Listened
         /\ rcv.trouble => rcv'.trouble
         /\ rcv'.trouble \/ Idle \/ \E k \in 1..submitted : Accepts(k)
<1>1. /\ DataTypes /\ ServiceTypes /\ rcv \in Receivers /\ written \in Seq(Nat)
  BY Types DEF AllInv
<1>2. Listened /\ UNCHANGED at_most_once
  <2>1. \A k \in 1..submitted :
          Link!Deliver(k) => UNCHANGED <<at_most_once, submitted, outstanding, confirmed>>
    BY DEF Link!Deliver
  <2> QED BY <2>1 DEF Receiver, receive_llopen, llread, llread_nothing, llread_fails,
             receive_llclose, Listened, linkvars
<1>3. CASE receive_llopen
  <2>1. rcv.state = RCV_OPEN_CONNECTION /\ UNCHANGED <<delivered, ahead, written>>
    BY <1>3 DEF receive_llopen, Receiving, linkvars
  <2>2. \/ rcv' = retry(rcv)
        \/ rcv' = [rcv EXCEPT !.ret = -1]
        \/ rcv' = [Advance(rcv, RCV_START_CONTROL_PACKET, max_receive_attempts)
                     EXCEPT !.is_active = TRUE, !.is_open = TRUE]
    BY <1>3 DEF receive_llopen
  <2>3. /\ rcv'.sequence_number = rcv.sequence_number /\ rcv'.lost_packets = rcv.lost_packets
        /\ rcv'.trouble = rcv.trouble /\ rcv'.received_file = rcv.received_file
        /\ rcv'.state = rcv.state \/ rcv'.state = RCV_START_CONTROL_PACKET
    BY <1>1, <2>2 DEF retry, Advance, Receivers
  <2>4. RCV_OPEN_CONNECTION # RCV_DATA_PACKETS
    BY DEF RCV_OPEN_CONNECTION, RCV_DATA_PACKETS
  <2> QED BY <1>2, <2>1, <2>3, <2>4 DEF Idle
<1>4. CASE llread_fails
  <2>1. CASE rcv' = Refused(rcv)
    <3>1. rcv'.trouble
      BY <1>1, <2>1 DEF Refused, retry, Receivers
    <3> QED BY <1>2, <3>1
  <2>2. CASE rcv' = [rcv EXCEPT !.ret = Aborted] /\ Receiving(RCV_START_CONTROL_PACKET)
    <3>1. /\ rcv'.sequence_number = rcv.sequence_number /\ rcv'.lost_packets = rcv.lost_packets
          /\ rcv'.trouble = rcv.trouble /\ rcv'.received_file = rcv.received_file
          /\ rcv'.state = rcv.state /\ rcv.state # RCV_DATA_PACKETS
      BY <1>1, <2>2 DEF Receivers, Receiving, RCV_START_CONTROL_PACKET, RCV_DATA_PACKETS
    <3> QED BY <1>2, <1>4, <3>1 DEF Idle, llread_fails, linkvars
  <2> QED BY <1>4, <2>1, <2>2 DEF llread_fails
<1>5. CASE receive_llclose
  <2>1. \/ rcv' = [rcv EXCEPT !.is_active = FALSE, !.is_open = FALSE, !.ret = 0]
        \/ \E open \in {FALSE, rcv.is_open} :
             rcv' = [retry(rcv) EXCEPT !.is_active = FALSE, !.is_open = open]
        \/ rcv' = [rcv EXCEPT !.ret = Aborted]
    BY <1>5 DEF receive_llclose
  <2>2. /\ rcv'.sequence_number = rcv.sequence_number /\ rcv'.lost_packets = rcv.lost_packets
        /\ rcv'.trouble = rcv.trouble /\ rcv'.received_file = rcv.received_file
        /\ rcv'.state = rcv.state
    BY <1>1, <2>1 DEF retry, Receivers
  <2>3. rcv.state # RCV_DATA_PACKETS
    BY <1>5 DEF receive_llclose, Receiving, RCV_CLOSE_CONNECTION, RCV_DATA_PACKETS
  <2> QED BY <1>2, <1>5, <2>2, <2>3 DEF Idle, receive_llclose, linkvars
<1>6. CASE llread
  <2>1. PICK k \in 1..submitted : Link!Deliver(k) /\ parse(rcv, sent[k])
    BY <1>6 DEF llread
  <2>2. PICK p : p = sent[k]
    OBVIOUS
  <2>3. p.seq \in 0..(sequence_number_modulus - 1) /\ p.data \in Seq(Nat)
    BY <1>1, <2>2, Buffered
  <2>4. rcv.ret = Running
    BY <2>1, ParsingStates
  <2>5. /\ rcv.trouble => rcv'.trouble
        /\ rcv'.trouble \/ Opens(p) \/ Takes(p) \/ Ends(p)
    BY <1>1, <2>1, <2>2, <2>3, <2>4, Parses
  <2> QED BY <1>2, <2>1, <2>2, <2>5 DEF Accepts
<1>7. CASE llread_nothing
  <2>1. PICK p \in Junk, open \in BOOLEAN :
          \/ parse([rcv EXCEPT !.is_active = FALSE, !.is_open = open, !.trouble = TRUE], p)
          \/ parse([rcv EXCEPT !.trouble = TRUE], p)
    BY <1>7 DEF llread_nothing
  <2>2. p.seq \in 0..(sequence_number_modulus - 1) /\ p.data \in Seq(Nat)
    BY <1>1, <2>1, Buffered
  <2>3. rcv.ret = Running
    BY <2>1, ParsingStates
  <2>4. ASSUME NEW active \in BOOLEAN, NEW still \in BOOLEAN,
               parse([rcv EXCEPT !.is_active = active, !.is_open = still, !.trouble = TRUE], p)
        PROVE  rcv'.trouble
    <3>1. PICK m : m = [rcv EXCEPT !.is_active = active, !.is_open = still, !.trouble = TRUE]
      OBVIOUS
    <3>2. /\ m \in Receivers /\ m.ret = Running /\ m.state = rcv.state
          /\ m.sequence_number = rcv.sequence_number /\ m.lost_packets = rcv.lost_packets
          /\ m.received_file = rcv.received_file /\ m.trouble
      BY <1>1, <2>3, <3>1 DEF Receivers
    <3>3. parse(m, p)
      BY <2>4, <3>1
    <3> QED BY <1>1, <2>2, <3>2, <3>3, Parses
  <2>5. [rcv EXCEPT !.trouble = TRUE]
          = [rcv EXCEPT !.is_active = rcv.is_active, !.is_open = rcv.is_open, !.trouble = TRUE]
    BY <1>1 DEF Receivers
  <2>6. rcv.is_active \in BOOLEAN /\ rcv.is_open \in BOOLEAN
    BY <1>1 DEF Receivers
  <2>7. rcv'.trouble
    BY <2>1, <2>4, <2>5, <2>6
  <2> QED BY <1>2, <2>7
<1> QED BY <1>3, <1>4, <1>5, <1>6, <1>7 DEF Receiver

-----------------------------------------------------------------------------
(* The transmitter's steps.                                                *)

\* Its data packets stay what they were; their place moves only with a start packet,
\* when there are none.
Moves(b, c) ==
  /\ UNCHANGED <<setup, rcv, delivered, written>>
  /\ snd.sequence_number <= snd'.sequence_number /\ submitted <= submitted'
  /\ \A s \in 0..snd.sequence_number : Upto(c, s)' = Upto(b, s)
  /\ \/ c = b /\ (submitted' = submitted \/ submitted > 0)
     \/ /\ c = b + 1 /\ submitted = b /\ snd.sequence_number = 0
        /\ snd.state = SND_START_CONTROL_PACKET /\ outstanding = FALSE

LEMMA TransmitterMoves ==
  ASSUME AllInv, NEW b \in 0..submitted, SentInv(b), Transmitter
  PROVE  \E c \in 0..submitted' : SentInv(c)' /\ Moves(b, c)
<1>1. b \in Nat /\ submitted \in Nat /\ snd.sequence_number \in Nat
      /\ confirmed \subseteq 1..submitted
  BY Numbers
<1>2. CASE llopen \/ Failed \/ AllSent \/ write_confirmed \/ send_llclose
  <2>1. Unsent(b) /\ UNCHANGED <<rcv, delivered, written>>
    BY <1>2, UnsentSteps
  <2>2. SentInv(b)' /\ \A s \in Nat : Upto(b, s)' = Upto(b, s)
    BY <2>1, SentSame
  <2> QED BY <1>1, <2>1, <2>2 DEF Unsent, Moves
<1>3. ASSUME NEW p, WroteStart(p)
      PROVE  \E c \in 0..submitted' : SentInv(c)' /\ Moves(b, c)
  <2>1. PICK c : c = b + 1
    OBVIOUS
  <2>2. /\ c \in 0..submitted' /\ SentInv(c)'
        /\ snd.sequence_number = 0 /\ snd'.sequence_number = 0 /\ submitted = b
    BY <1>3, <2>1, StartSent
  <2>3. \A s \in 0..snd.sequence_number : Upto(c, s)' = Upto(b, s)
    BY <2>2 DEF Upto
  <2>4. Moves(b, c)
    BY <1>3, <2>1, <2>2, <2>3 DEF Moves, WroteStart, Wrote
  <2> QED BY <2>2, <2>4
<1>4. ASSUME NEW p, Wrote(p), SentInv(b)', b \in 0..submitted',
             snd.state \in SND_DATA_PACKETS..SND_CLOSE_CONNECTION,
             snd.sequence_number <= snd'.sequence_number
      PROVE  \E c \in 0..submitted' : SentInv(c)' /\ Moves(b, c)
  <2>1. \A s \in 0..snd.sequence_number : Upto(b, s)' = Upto(b, s)
    BY <1>4, SentBefore
  <2>2. submitted > 0
    BY <1>1, <1>4 DEF SentInv
  <2>3. submitted <= submitted'
    BY <1>1, <1>4 DEF Wrote
  <2>4. Moves(b, b)
    BY <1>4, <2>1, <2>2, <2>3 DEF Moves, Wrote
  <2> QED BY <1>4, <2>4
<1>5. ASSUME NEW p, WroteEnd(p)
      PROVE  \E c \in 0..submitted' : SentInv(c)' /\ Moves(b, c)
  <2>1. SentInv(b)' /\ b \in 0..submitted'
    BY <1>5, EndSent
  <2>2. /\ Wrote(p) /\ snd.sequence_number <= snd'.sequence_number
        /\ snd.state \in SND_DATA_PACKETS..SND_CLOSE_CONNECTION
    BY <1>1, <1>5 DEF WroteEnd, StandsStill, SND_DATA_PACKETS, SND_CLOSE_CONTROL_PACKET,
       SND_CLOSE_CONNECTION
  <2> QED BY <1>4, <2>1, <2>2
<1>6. ASSUME NEW p, NEW n \in Nat, WroteData(p, n)
      PROVE  \E c \in 0..submitted' : SentInv(c)' /\ Moves(b, c)
  <2>1. SentInv(b)' /\ b \in 0..submitted'
    BY <1>6, DataSent
  <2>2. /\ Wrote(p) /\ snd.sequence_number <= snd'.sequence_number
        /\ snd.state \in SND_DATA_PACKETS..SND_CLOSE_CONNECTION
    BY <1>1, <1>6 DEF WroteData, MovesOn, SND_DATA_PACKETS, SND_CLOSE_CONNECTION
  <2> QED BY <1>4, <2>1, <2>2
<1> QED BY <1>2, <1>3, <1>5, <1>6, TransmitterWrites

\* They come back to the start packet only from there, with nothing confirmed.
LEMMA ConfirmStep ==
  ASSUME AllInv, AllInv', ConfirmInv, Next
  PROVE  /\ ConfirmInv'
         /\ AllConfirmed' => AllConfirmed
         /\ AllConfirmed' /\ Len(delivered') = settled' + answered' =>
              Len(delivered) = settled + answered
<1>1. Link!Next \/ UNCHANGED linkvars
  BY UsesLink
<1>2. ASSUME snd.state \in SND_OPEN_CONNECTION..SND_START_CONTROL_PACKET => confirmed' = confirmed,
             snd'.state \in SND_OPEN_CONNECTION..SND_START_CONTROL_PACKET =>
               snd.state \in SND_OPEN_CONNECTION..SND_START_CONTROL_PACKET
      PROVE  snd'.state \in SND_OPEN_CONNECTION..SND_START_CONTROL_PACKET => confirmed' = {}
  BY <1>2 DEF ConfirmInv
<1>3. snd \in Senders
  BY Numbers
<1>4. snd'.state \in SND_OPEN_CONNECTION..SND_START_CONTROL_PACKET => confirmed' = {}
  <2>1. CASE Receiver
    <3>1. Listened
      BY <2>1, ReceiverParses
    <3> QED BY <1>2, <3>1 DEF Listened
  <2>2. CASE llopen
    <3>1. snd.state = SND_OPEN_CONNECTION /\ confirmed' = confirmed
      BY <2>2 DEF llopen, Sending, linkvars
    <3> QED BY <1>2, <3>1 DEF SND_OPEN_CONNECTION, SND_START_CONTROL_PACKET
  <2>3. CASE Failed
    <3>1. snd'.state = snd.state /\ confirmed' = confirmed
      BY <1>3, <2>3 DEF Failed, retry, Senders
    <3> QED BY <1>2, <3>1
  <2>4. CASE AllSent
    <3>1. snd'.state = SND_CLOSE_CONTROL_PACKET
      BY <1>3, <2>4 DEF AllSent, Advance, Senders
    <3> QED BY <3>1 DEF SND_OPEN_CONNECTION, SND_START_CONTROL_PACKET, SND_CLOSE_CONTROL_PACKET
  <2>5. CASE write_confirmed
    <3>1. outstanding /\ snd.state \in SND_START_CONTROL_PACKET..SND_CLOSE_CONTROL_PACKET
      BY <2>5 DEF write_confirmed, Link!Confirm, AllInv, FileInv, WriteInv
    <3>2. snd'.state \in SND_DATA_PACKETS..SND_CLOSE_CONNECTION
      BY <1>3, <2>5, <3>1 DEF write_confirmed, Advance, Senders, SND_START_CONTROL_PACKET,
         SND_DATA_PACKETS, SND_CLOSE_CONTROL_PACKET, SND_CLOSE_CONNECTION
    <3> QED BY <3>2 DEF SND_OPEN_CONNECTION, SND_START_CONTROL_PACKET, SND_DATA_PACKETS,
               SND_CLOSE_CONNECTION
  <2>6. CASE send_llclose
    <3>1. snd'.state \in {SND_CLOSE_CONTROL_PACKET, SND_CLOSE_CONNECTION}
      <4>1. snd.state = SND_CLOSE_CONNECTION
        BY <2>6 DEF send_llclose, Sending
      <4> QED BY <1>3, <2>6, <4>1 DEF send_llclose, retry, Senders, AfterFailedClose,
                 RCV_CLOSE_CONNECTION, SND_CLOSE_CONTROL_PACKET
    <3> QED BY <3>1 DEF SND_OPEN_CONNECTION, SND_START_CONTROL_PACKET,
               SND_CLOSE_CONTROL_PACKET, SND_CLOSE_CONNECTION
  <2>7. ASSUME NEW p, Wrote(p)
        PROVE  snd'.state \in SND_OPEN_CONNECTION..SND_START_CONTROL_PACKET => confirmed' = {}
    BY <1>2, <2>7 DEF Wrote
  <2> QED BY <2>1, <2>2, <2>3, <2>4, <2>5, <2>6, <2>7, TransmitterWrites
         DEF Next, WroteStart, WroteEnd, WroteData
<1> QED BY <1>1, <1>4, ServiceStep

\* The copy and the count are what they were.
LEMMA TransmitterCopies ==
  ASSUME AllInv, AllInv', NEW b \in 0..submitted, SentInv(b), CopyInv(b), ConfirmInv,
         NEW c \in 0..submitted', Moves(b, c), Lockstep' => Lockstep
  PROVE  CopyInv(c)'
<1> SUFFICES ASSUME Lockstep, Lockstep'
             PROVE  /\ submitted' > 0 => c = 1
                    /\ \A i \in DOMAIN delivered' : delivered'[i] = i
                    /\ rcv'.state = RCV_DATA_PACKETS /\ rcv'.ret = Running =>
                         /\ rcv'.sequence_number + 1 = Len(delivered')
                         /\ rcv'.sequence_number <= snd'.sequence_number
                         /\ rcv'.received_file =>
                              /\ Len(written') = Upto(c, rcv.sequence_number)'
                              /\ \A i \in DOMAIN written' : written'[i] = i
                    /\ AtEnd' /\ rcv'.received_file => written' = file'
  BY DEF CopyInv
<1>1. /\ submitted \in Nat /\ b \in Nat /\ confirmed \subseteq 1..submitted
      /\ delivered \in Seq(1..submitted) /\ Len(delivered) \in Nat
      /\ snd.sequence_number \in Nat /\ rcv.sequence_number \in Nat
  BY Numbers
<1>2. UNCHANGED <<setup, rcv, delivered, written>>
  BY DEF Moves
<1>3. /\ submitted > 0 => b = 1
      /\ \A i \in DOMAIN delivered : delivered[i] = i
      /\ rcv.state = RCV_DATA_PACKETS /\ rcv.ret = Running =>
           /\ rcv.sequence_number + 1 = Len(delivered)
           /\ rcv.sequence_number <= snd.sequence_number
           /\ rcv.received_file =>
                /\ Len(written) = Upto(b, rcv.sequence_number)
                /\ \A i \in DOMAIN written : written[i] = i
      /\ AtEnd /\ rcv.received_file => written = file
  BY DEF CopyInv
<1>4. AtEnd' /\ rcv'.received_file => written' = file'
  BY <1>2, <1>3 DEF AtEnd, file
<1>5. submitted' > 0 => c = 1
  <2>1. CASE c = b /\ (submitted' = submitted \/ submitted > 0)
    BY <1>3, <2>1
  <2>2. CASE /\ c = b + 1 /\ submitted = b
             /\ snd.state = SND_START_CONTROL_PACKET /\ outstanding = FALSE
    <3>1. confirmed = {}
      BY <2>2 DEF ConfirmInv, SND_OPEN_CONNECTION, SND_START_CONTROL_PACKET
    <3>2. settled = submitted /\ confirmed = 1..settled
      BY <2>2 DEF settled, Lockstep, AllConfirmed
    <3>3. submitted = 0
      BY <1>1, <3>1, <3>2
    <3> QED BY <2>2, <3>3
  <2> QED BY <2>1, <2>2 DEF Moves
<1>6. ASSUME rcv.state = RCV_DATA_PACKETS, rcv.ret = Running
      PROVE  /\ rcv.sequence_number <= snd'.sequence_number
             /\ Upto(c, rcv.sequence_number)' = Upto(b, rcv.sequence_number)
  <2>1. PICK r \in Nat : r = rcv.sequence_number
    BY <1>1
  <2>2. r \in 0..snd.sequence_number
    BY <1>1, <1>3, <1>6, <2>1
  <2>3. Upto(c, r)' = Upto(b, r)
    BY <2>2 DEF Moves
  <2>4. snd'.sequence_number \in Nat
    BY Types DEF AllInv, TypeOK
  <2>5. r <= snd'.sequence_number
    BY <1>1, <2>2, <2>4 DEF Moves
  <2>6. Upto(c, rcv.sequence_number)' = Upto(b, rcv.sequence_number)
    BY <1>2, <2>1, <2>3
  <2> QED BY <2>1, <2>5, <2>6
<1> QED BY <1>2, <1>3, <1>4, <1>5, <1>6

LEMMA TransmitterCounts ==
  ASSUME AllInv, AllInv', NEW b \in 0..submitted, LostInv(b),
         NEW c \in 0..submitted', Moves(b, c), at_most_once' = at_most_once
  PROVE  LostInv(c)'
<1>1. /\ submitted \in Nat /\ b \in Nat /\ Len(sent) \in Nat /\ snd.sequence_number \in Nat
      /\ delivered \in Seq(1..submitted)
  BY Numbers
<1>2. UNCHANGED <<rcv, delivered>> /\ snd.sequence_number <= snd'.sequence_number
  BY DEF Moves
<1>3. snd'.sequence_number \in Nat /\ Len(sent') = submitted' /\ Len(sent) = submitted
  BY Numbers, Types DEF AllInv, TypeOK
<1>4. PICK s \in 0..snd.sequence_number, lag \in 0..Len(sent) : CountInv(b, s, lag)
  BY DEF LostInv
<1>5. /\ s \in 0..snd'.sequence_number
      /\ lag \in 0..Len(sent')
  <2>1. submitted <= submitted' /\ submitted' \in Nat
    BY Types DEF Moves, AllInv, TypeOK
  <2>2. s \in 0..snd'.sequence_number
    BY <1>1, <1>2, <1>3
  <2>3. lag \in 0..Len(sent')
    BY <1>1, <1>3, <2>1
  <2> QED BY <2>2, <2>3
<1>6. CountInv(c, s, lag)'
  <2>1. CASE c = b
    BY <1>2, <1>4, <2>1 DEF CountInv, Skipped
  <2>2. CASE c = b + 1 /\ snd.sequence_number = 0
    <3>1. s = 0
      BY <2>2
    <3>2. Skipped(b, s) = {} /\ Skipped(c, s)' = {}
      BY <1>1, <2>2, <3>1 DEF Skipped
    <3>3. \A i \in DOMAIN delivered : delivered[i] <= b + s => delivered[i] <= c + s
      BY <1>1, <2>2, <3>1
    <3>4. ASSUME at_most_once, ~rcv.trouble
          PROVE  /\ rcv.lost_packets + lag <= Cardinality(Skipped(b, s))
                 /\ rcv.state = RCV_DATA_PACKETS /\ rcv.ret = Running =>
                      \A i \in DOMAIN delivered : delivered[i] <= c + s
      BY <1>4, <3>3, <3>4 DEF CountInv
    <3>5. Cardinality(Skipped(b, s)) = Cardinality(Skipped(c, s)')
      BY <3>2
    <3> QED BY <1>2, <1>4, <3>1, <3>4, <3>5 DEF CountInv
  <2> QED BY <2>1, <2>2 DEF Moves
<1> QED BY <1>5, <1>6 DEF LostInv

-----------------------------------------------------------------------------
(* The receiver's steps.                                                   *)

\* A receiver that waits for the start packet goes on waiting or opens the file.
LEMMA FreshStep ==
  ASSUME AllInv, FreshInv, Next
  PROVE  FreshInv'
<1>1. delivered \in Seq(1..submitted) /\ written \in Seq(Nat)
  BY Numbers
<1>2. CASE Transmitter
  <2>1. UNCHANGED <<rcv, written>>
    BY <1>2 DEF Transmitter, llopen, send_start, send_end, send_control_packet,
       send_data_packets, write_confirmed, write_failed, send_llclose
  <2>2. delivered' = delivered
    BY <1>2 DEF Transmitter, llopen, send_start, send_end, send_control_packet,
       send_data_packets, write_confirmed, write_failed, send_llclose, linkvars,
       Link!Submit, Link!Confirm, Link!Fail
  <2> QED BY <2>1, <2>2 DEF FreshInv
<1>3. CASE Receiver
  <2>1. CASE rcv'.trouble
    BY <2>1 DEF FreshInv
  <2>2. CASE Idle
    BY <2>2 DEF Idle, FreshInv, RCV_OPEN_CONNECTION, RCV_START_CONTROL_PACKET
  <2>3. ASSUME NEW k \in 1..submitted, Accepts(k)
        PROVE  FreshInv'
    <3>1. rcv'.state \notin RCV_OPEN_CONNECTION..RCV_START_CONTROL_PACKET
      BY <2>3 DEF Accepts, Opens, Takes, Ends, AtEnd, RCV_OPEN_CONNECTION,
         RCV_START_CONTROL_PACKET, RCV_DATA_PACKETS, RCV_CLOSE_CONNECTION
    <3> QED BY <3>1 DEF FreshInv
  <2> QED BY <1>3, <2>1, <2>2, <2>3, ReceiverParses
<1> QED BY <1>2, <1>3 DEF Next

\* In lockstep the packet delivered is the one that is being written, and the next.
LEMMA NextInLockstep ==
  ASSUME AllInv, Lockstep, NEW k \in 1..submitted, Link!Deliver(k)
  PROVE  /\ k = submitted /\ k = Len(delivered) + 1
         /\ delivered' = Append(delivered, k)
<1>1. /\ submitted \in Nat /\ outstanding \in BOOLEAN
      /\ delivered \in Seq(1..submitted) /\ Len(delivered) \in Nat
      /\ settled \in Nat /\ settled <= submitted
  BY ServiceNumbers
<1>2. /\ ahead = FALSE
      /\ \A c \in confirmed : c < k
  BY DEF Link!Deliver, AllInv, TypeOK
<1>3. confirmed = 1..settled /\ Len(delivered) = settled
  BY <1>1, <1>2 DEF Lockstep, AllConfirmed, answered
<1>4. settled < k
  <2>1. CASE settled = 0
    BY <2>1
  <2>2. CASE settled > 0
    <3>1. settled \in confirmed
      BY <1>1, <1>3, <2>2
    <3> QED BY <1>2, <3>1
  <2> QED BY <1>1, <2>1, <2>2
<1>5. submitted <= settled + 1
  BY <1>1 DEF settled
<1>6. k = submitted /\ k = settled + 1
  BY <1>1, <1>4, <1>5
<1>7. delivered' = Append(delivered, k)
  BY DEF Link!Deliver
<1> QED BY <1>3, <1>6, <1>7

\* A packet's field and place.
LEMMA Placed ==
  ASSUME AllInv, NEW b \in 0..submitted, SentInv(b), NEW k \in 1..submitted
  PROVE  /\ sent[k].field = control_field_start => k <= b
         /\ sent[k].field = control_field_data =>
              \E t \in 1..snd.sequence_number :
                /\ k = b + t /\ sent[k].seq = (t - 1) % sequence_number_modulus
                /\ sent[k].data \in Seq(Nat) /\ sent[k].data # <<>>
                /\ \A i \in DOMAIN sent[k].data : sent[k].data[i] = Upto(b, t - 1) + i
                /\ sent[k].data[Len(sent[k].data)] = Upto(b, t)
         /\ sent[k].field = control_field_end => k > b + snd.sequence_number
<1>1. /\ b \in Nat /\ submitted \in Nat /\ k \in Nat /\ snd.sequence_number \in Nat
      /\ sent[k].data \in Seq(Nat)
  BY Numbers
<1>2. sent[k].field = IF k <= b THEN control_field_start
                      ELSE IF k <= b + snd.sequence_number THEN control_field_data
                      ELSE control_field_end
  BY DEF SentInv
<1>3. /\ sent[k].field = control_field_start => k <= b
      /\ sent[k].field = control_field_end => k > b + snd.sequence_number
      /\ sent[k].field = control_field_data => k > b /\ k <= b + snd.sequence_number
  BY <1>1, <1>2 DEF control_field_start, control_field_data, control_field_end
<1>4. ASSUME sent[k].field = control_field_data
      PROVE  \E t \in 1..snd.sequence_number :
                /\ k = b + t /\ sent[k].seq = (t - 1) % sequence_number_modulus
                /\ sent[k].data \in Seq(Nat) /\ sent[k].data # <<>>
                /\ \A i \in DOMAIN sent[k].data : sent[k].data[i] = Upto(b, t - 1) + i
                /\ sent[k].data[Len(sent[k].data)] = Upto(b, t)
  <2>1. PICK t \in 1..snd.sequence_number : k = b + t
    <3>1. k - b \in 1..snd.sequence_number /\ k = b + (k - b)
      BY <1>1, <1>3, <1>4
    <3> QED BY <3>1
  <2>2. /\ sent[b + t].seq = (t - 1) % sequence_number_modulus /\ sent[b + t].data # <<>>
        /\ \A i \in DOMAIN sent[b + t].data : sent[b + t].data[i] = Upto(b, t - 1) + i
    BY DEF SentInv
  <2>3. sent[b + t].data[Len(sent[b + t].data)] = Upto(b, t)
    BY DEF Upto
  <2> QED BY <1>1, <2>1, <2>2, <2>3
<1> QED BY <1>3, <1>4

\* A delivery adds one packet at the end.
LEMMA Appended ==
  ASSUME NEW n \in Nat, NEW d \in Seq(1..n), NEW k \in 1..n, NEW e, e = Append(d, k)
  PROVE  /\ Len(e) = Len(d) + 1 /\ DOMAIN e = 1..(Len(d) + 1)
         /\ e[Len(d) + 1] = k /\ \A i \in DOMAIN d : i \in DOMAIN e /\ e[i] = d[i]
         /\ \A i \in DOMAIN e : i \in DOMAIN d \/ i = Len(d) + 1
OBVIOUS

\* In lockstep the packets come one after the other, each once, and with the number that
\* is waited for; the end packet comes when the receiver has all the bytes.
LEMMA ReceiverCopies ==
  ASSUME AllInv, AllInv', NEW b \in 0..submitted, SentInv(b), CopyInv(b), FreshInv,
         NEW k \in 1..submitted, Accepts(k), Lockstep, ~rcv'.trouble
  PROVE  CopyInv(b)'
<1>1. /\ submitted \in Nat /\ b \in Nat /\ delivered \in Seq(1..submitted)
      /\ Len(delivered) \in Nat /\ written \in Seq(Nat)
      /\ snd.sequence_number \in Nat /\ rcv.sequence_number \in Nat
  BY Numbers
<1>2. /\ k = submitted /\ k = Len(delivered) + 1
      /\ delivered' = Append(delivered, k)
  BY NextInLockstep DEF Accepts
<1>3. Listened
  BY DEF Accepts
<1>4. /\ b = 1
      /\ \A i \in DOMAIN delivered : delivered[i] = i
      /\ rcv.state = RCV_DATA_PACKETS /\ rcv.ret = Running =>
           /\ rcv.sequence_number + 1 = Len(delivered)
           /\ rcv.sequence_number <= snd.sequence_number
           /\ rcv.received_file =>
                /\ Len(written) = Upto(b, rcv.sequence_number)
                /\ \A i \in DOMAIN written : written[i] = i
  BY <1>1, <1>2 DEF CopyInv
<1>5. /\ Len(delivered') = Len(delivered) + 1
      /\ \A i \in DOMAIN delivered' : delivered'[i] = i
  <2>1. PICK e : e = delivered'
    OBVIOUS
  <2>2. /\ Len(e) = Len(delivered) + 1
        /\ e[Len(delivered) + 1] = k /\ \A i \in DOMAIN delivered : e[i] = delivered[i]
        /\ \A i \in DOMAIN e : i \in DOMAIN delivered \/ i = Len(delivered) + 1
    BY <1>1, <1>2, <2>1, Appended
  <2> QED BY <1>2, <1>4, <2>1, <2>2
<1>6. \A s \in Nat : Upto(b, s)' = Upto(b, s)
  BY <1>3, SentUntouched
<1>7. ASSUME rcv'.state = RCV_DATA_PACKETS /\ rcv'.ret = Running =>
               /\ rcv'.sequence_number = Len(delivered)
               /\ rcv'.sequence_number <= snd.sequence_number
               /\ rcv'.received_file =>
                    /\ Len(written') = Upto(b, Len(delivered))
                    /\ \A i \in DOMAIN written' : written'[i] = i,
             AtEnd' /\ rcv'.received_file => written' = file
      PROVE  CopyInv(b)'
  <2>1. file' = file /\ snd' = snd
    BY <1>3 DEF file, Listened
  <2>2. rcv'.sequence_number = Len(delivered) =>
          Upto(b, rcv.sequence_number)' = Upto(b, Len(delivered))
    BY <1>1, <1>6
  <2> QED BY <1>1, <1>4, <1>5, <1>7, <2>1, <2>2 DEF CopyInv
<1>8. CASE Opens(sent[k])
  <2>1. delivered = <<>> /\ written = <<>> /\ rcv.sequence_number = 0
    BY <1>8 DEF Opens, FreshInv, Lockstep, RCV_OPEN_CONNECTION, RCV_START_CONTROL_PACKET
  <2>2. ~AtEnd'
    BY <1>8 DEF Opens, AtEnd, RCV_DATA_PACKETS, RCV_CLOSE_CONNECTION
  <2>3. Len(delivered) = 0 /\ Len(written) = 0 /\ DOMAIN written = {} /\ Upto(b, 0) = 0
    BY <2>1 DEF Upto
  <2> QED BY <1>1, <1>7, <1>8, <2>1, <2>2, <2>3 DEF Opens
<1>9. CASE Takes(sent[k])
  <2>1. PICK r \in Nat : r = rcv.sequence_number
    BY <1>1
  <2>2. PICK d : d = sent[k].data
    OBVIOUS
  <2>3. r + 1 = Len(delivered) /\ k = b + (r + 1)
    BY <1>1, <1>2, <1>4, <1>9, <2>1 DEF Takes
  <2>4. PICK t \in 1..snd.sequence_number :
          /\ k = b + t /\ sent[k].seq = (t - 1) % sequence_number_modulus
          /\ d \in Seq(Nat) /\ d # <<>>
          /\ \A i \in DOMAIN d : d[i] = Upto(b, t - 1) + i
          /\ d[Len(d)] = Upto(b, t)
    BY <1>9, <2>2, Placed DEF Takes
  <2>5. t = r + 1 /\ t - 1 = r
    BY <1>1, <2>3, <2>4
  <2>6. sent[k].seq = r % sequence_number_modulus
    BY <2>4, <2>5
  <2>7. rcv'.sequence_number = r + 1
    <3>1. PICK e \in Nat : e = r % sequence_number_modulus
      BY SizesAssumption
    <3>2. CountsAs(e, e)
      BY <1>9, <2>1, <2>6, <3>1 DEF Takes
    <3> QED BY <2>1, <3>1, <3>2 DEF CountsAs
  <2>8. CASE rcv.received_file
    <3>1. /\ Len(written) = Upto(b, r) /\ \A i \in DOMAIN written : written[i] = i
      BY <1>4, <1>9, <2>1, <2>8 DEF Takes
    <3>2. \A i \in DOMAIN d : d[i] = Len(written) + i
      BY <2>4, <2>5, <3>1
    <3>3. written \in Seq(Nat) /\ d \in Seq(Nat) /\ d # <<>>
      BY <1>1, <2>4
    <3>4. /\ \A i \in DOMAIN (written \o d) : (written \o d)[i] = i
          /\ Len(written \o d) = d[Len(d)]
      BY <3>1, <3>2, <3>3, PrefixGrows
    <3>5. written' = written \o d /\ rcv'.state = RCV_DATA_PACKETS /\ rcv'.ret = Running
      BY <1>9, <2>2, <2>8 DEF Takes
    <3>6. /\ \A i \in DOMAIN written' : written'[i] = i
          /\ Len(written') = Upto(b, t)
      BY <2>4, <3>4, <3>5
    <3>7. t = Len(delivered) /\ t \in 1..snd.sequence_number /\ rcv'.sequence_number = t
      BY <1>1, <2>1, <2>3, <2>5, <2>7
    <3>8. ~AtEnd'
      BY <3>5 DEF AtEnd, RCV_DATA_PACKETS, RCV_CLOSE_CONNECTION
    <3> QED BY <1>1, <1>7, <3>6, <3>7, <3>8
  <2>9. CASE ~rcv.received_file
    <3>1. rcv'.ret # Running /\ ~rcv'.received_file
      BY <1>9, <2>9 DEF Takes, Running, Aborted
    <3> QED BY <1>7, <3>1
  <2> QED BY <2>8, <2>9
<1>10. CASE Ends(sent[k])
  <2>1. PICK r \in Nat : r = rcv.sequence_number
    BY <1>1
  <2>2. r + 1 = Len(delivered) /\ r <= snd.sequence_number
    BY <1>1, <1>4, <1>10, <2>1 DEF Ends
  <2>3. k > b + snd.sequence_number
    BY <1>10, Placed DEF Ends
  <2>4. r = snd.sequence_number
    BY <1>1, <1>2, <1>4, <2>2, <2>3
  <2>5. snd.num_data_bytes_sent = setup.file_size
    <3>1. submitted # b + snd.sequence_number
      BY <1>1, <1>2, <2>3
    <3>2. snd.state \notin SND_OPEN_CONNECTION..SND_DATA_PACKETS
      BY <3>1 DEF SentInv
    <3>3. snd.state \in SND_OPEN_CONNECTION..SND_CLOSE_CONNECTION
      BY Numbers
    <3>4. snd.state \in {SND_CLOSE_CONTROL_PACKET, SND_CLOSE_CONNECTION}
      BY <3>2, <3>3 DEF SND_OPEN_CONNECTION, SND_DATA_PACKETS, SND_CLOSE_CONTROL_PACKET,
         SND_CLOSE_CONNECTION
    <3> QED BY <3>4 DEF AllInv, FileInv, EndInv
  <2>6. ASSUME rcv.received_file
        PROVE  written = file
    <3>1. Len(written) = Upto(b, r) /\ \A i \in DOMAIN written : written[i] = i
      BY <1>4, <1>10, <2>1, <2>6 DEF Ends
    <3>2. Upto(b, r) = setup.file_size
      BY <2>4, <2>5 DEF SentInv
    <3>3. setup.file_size \in Nat
      BY Numbers
    <3> QED BY <1>1, <3>1, <3>2, <3>3 DEF file
  <2>7. ~(rcv'.state = RCV_DATA_PACKETS /\ rcv'.ret = Running)
    BY <1>10 DEF Ends, AtEnd, RCV_DATA_PACKETS, RCV_CLOSE_CONNECTION
  <2> QED BY <1>7, <1>10, <2>6, <2>7 DEF Ends
<1> QED BY <1>8, <1>9, <1>10 DEF Accepts

\* The same of every step of the receiver's.
LEMMA CopyKept ==
  ASSUME AllInv, AllInv', NEW b \in 0..submitted, SentInv(b), CopyInv(b), FreshInv,
         Receiver, Lockstep' => Lockstep
  PROVE  CopyInv(b)'
<1>1. CASE rcv'.trouble
  BY <1>1 DEF CopyInv, Lockstep
<1>2. CASE Idle
  <2>1. Listened
    BY <1>2 DEF Idle
  <2>2. file' = file /\ snd' = snd /\ submitted' = submitted
    BY <2>1 DEF file, Listened
  <2>3. /\ delivered' = delivered /\ written' = written
        /\ rcv'.received_file = rcv.received_file
        /\ rcv'.state # RCV_DATA_PACKETS
        /\ rcv'.state = RCV_CLOSE_CONNECTION => rcv.state = RCV_CLOSE_CONNECTION
    BY <1>2 DEF Idle, RCV_START_CONTROL_PACKET, RCV_DATA_PACKETS, RCV_CLOSE_CONNECTION
  <2> QED BY <2>2, <2>3 DEF CopyInv, AtEnd
<1>3. ASSUME NEW k \in 1..submitted, Accepts(k)
      PROVE  CopyInv(b)'
  <2>1. CASE Lockstep /\ ~rcv'.trouble
    BY <1>3, <2>1, ReceiverCopies
  <2>2. CASE ~Lockstep
    BY <2>2 DEF CopyInv
  <2> QED BY <1>1, <2>1, <2>2
<1> QED BY <1>1, <1>2, <1>3, ReceiverParses

-----------------------------------------------------------------------------
(* The count of lost packets.                                              *)

\* Numbers with the same rest are whole rounds apart,
LEMMA RestGives ==
  ASSUME NEW M \in Nat, M > 1, NEW a \in Nat, NEW c \in Nat, a % M = c % M
  PROVE  \E x \in Int : a = c + M * x
<1> DEFINE q == a \div M
           p == c \div M
           r == a % M
<1>1. /\ q \in Int /\ p \in Int /\ r \in Nat
      /\ a = M * q + r /\ c = M * p + r
  OBVIOUS
<1> HIDE DEF q, p, r
<1>2. PICK x \in Int : x = q - p
  BY <1>1
<1>3. M * q = M * p + M * x
  BY <1>1, <1>2
<1>4. a = c + M * x
  BY <1>1, <1>3
<1> QED BY <1>4

\* and the other way round.
LEMMA RestSame ==
  ASSUME NEW M \in Nat, M > 1, NEW a \in Nat, NEW c \in Nat, NEW x \in Int, a = c + M * x
  PROVE  a % M = c % M
<1> DEFINE q == a \div M
           p == c \div M
           r == a % M
           u == c % M
<1>1. /\ q \in Int /\ p \in Int /\ r \in 0..(M - 1) /\ u \in 0..(M - 1)
      /\ a = M * q + r /\ c = M * p + u
  OBVIOUS
<1>2. SUFFICES r = u
  OBVIOUS
<1> HIDE DEF q, p, r, u
<1>3. PICK y \in Int : y = p + x - q
  BY <1>1
<1>4. M * p + M * x = M * q + M * y
  BY <1>1, <1>3
<1>5. r = M * y + u
  BY <1>1, <1>4
<1>6. CASE y = 0
  BY <1>1, <1>5, <1>6
<1>7. CASE y > 0
  <2>1. PICK e \in Nat : y = e + 1
    BY <1>7
  <2>2. M * y = M * e + M /\ M * e >= 0
    BY <2>1
  <2> QED BY <1>1, <1>5, <2>2
<1>8. CASE y < 0
  <2>1. PICK e \in Nat : y = -e - 1
    BY <1>8
  <2>2. M * y = -(M * e) - M /\ M * e >= 0
    BY <2>1
  <2> QED BY <1>1, <1>5, <2>2
<1> QED BY <1>6, <1>7, <1>8

\* A receiver at number r, lagging behind data packet s, takes packet t, which is d
\* further on than the next: with rest q where e is waited for.
Overtakes(M, r, lag, s, d, t, e, q, more, next, lag1) ==
  /\ M \in Nat /\ M > 1
  /\ r \in Nat /\ lag \in Nat /\ s \in Nat /\ (r + lag) % M = s % M
  /\ d \in Nat /\ t = s + d + 1
  /\ e \in 0..(M - 1) /\ e = r % M /\ q \in 0..(M - 1) /\ q = (s + d) % M
  /\ more = IF q > e THEN q - e ELSE 0
  /\ next = IF q < e THEN e + 1 ELSE r + more + 1
  /\ lag1 = lag + d - more

\* It does not get ahead, and lags behind t by what it did not make up for.
LEMMA CatchesUp ==
  ASSUME NEW M, NEW r, NEW lag, NEW s, NEW d, NEW t, NEW e, NEW q, NEW more, NEW next,
         NEW lag1, Overtakes(M, r, lag, s, d, t, e, q, more, next, lag1)
  PROVE  lag1 \in Nat /\ (next + lag1) % M = t % M
<1>0. /\ M \in Nat /\ M > 1
      /\ r \in Nat /\ lag \in Nat /\ s \in Nat /\ (r + lag) % M = s % M
      /\ d \in Nat /\ t = s + d + 1
      /\ e \in 0..(M - 1) /\ e = r % M /\ q \in 0..(M - 1) /\ q = (s + d) % M
      /\ more = IF q > e THEN q - e ELSE 0
      /\ next = IF q < e THEN e + 1 ELSE r + more + 1
      /\ lag1 = lag + d - more
  BY DEF Overtakes
<1> SUFFICES lag + d - more \in Nat /\ (next + (lag + d - more)) % M = (s + d + 1) % M
  BY <1>0
<1> USE <1>0
<1>1. PICK x \in Int : r + lag = s + M * x
  <2>1. r + lag \in Nat
    OBVIOUS
  <2> QED BY <2>1, RestGives
<1>2. PICK v \in Int : r = M * v + e
  <2>1. r = M * (r \div M) + (r % M) /\ r \div M \in Int
    OBVIOUS
  <2> QED BY <2>1
<1>3. PICK w \in Int : s + d = M * w + q
  <2>1. s + d = M * ((s + d) \div M) + ((s + d) % M) /\ (s + d) \div M \in Int
    OBVIOUS
  <2> QED BY <2>1
<1>4. CASE q > e
  <2>1. PICK m \in Nat : m = q - e
    BY <1>4
  <2>2. PICK y \in Int : y = w + x - v
    OBVIOUS
  <2>3. M * w + M * x = M * v + M * y
    BY <2>2
  <2>4. lag + d = m + M * y
    <3>1. /\ M * x \in Int /\ M * v \in Int /\ M * w \in Int /\ M * y \in Int
      OBVIOUS
    <3>2. lag \in Nat /\ d \in Nat /\ s \in Nat /\ r \in Nat /\ e \in Int /\ q \in Int
      OBVIOUS
    <3> QED BY ONLY <1>1, <1>2, <1>3, <2>1, <2>3, <3>1, <3>2
  <2>5. y >= 0
    <3>1. CASE y < 0
      <4>1. PICK n \in Nat : y = -n - 1
        BY <3>1
      <4>2. M * y = -(M * n) - M /\ M * n >= 0
        BY <4>1
      <4> QED BY <2>1, <2>4, <4>2
    <3> QED BY <3>1
  <2>6. M * y >= 0 /\ M * y \in Int
    BY <2>5
  <2>7. lag + d - m \in Nat
    BY <2>1, <2>4, <2>6
  <2>8. r + m + 1 + (lag + d - m) = (s + d + 1) + M * x
    BY <1>1, <2>1
  <2>9. (r + m + 1 + (lag + d - m)) % M = (s + d + 1) % M
    <3>1. PICK a \in Nat : a = r + m + 1 + (lag + d - m)
      <4>1. r + m + 1 + (lag + d - m) \in Nat
        BY ONLY <2>1, <2>7, r \in Nat
      <4> QED BY <4>1
    <3>2. a = (s + d + 1) + M * x
      BY <2>8, <3>1
    <3>3. s + d + 1 \in Nat
      OBVIOUS
    <3>4. a % M = (s + d + 1) % M
      BY <3>2, <3>3, RestSame
    <3> QED BY <3>1, <3>4
  <2> QED BY <1>4, <2>1, <2>7, <2>9
<1>5. CASE q = e
  <2>1. PICK a \in Nat : a = r + 1 + (lag + d)
    OBVIOUS
  <2>2. a = (s + d + 1) + M * x
    BY <1>1, <2>1
  <2>3. a % M = (s + d + 1) % M
    <3>1. s + d + 1 \in Nat
      OBVIOUS
    <3> QED BY <2>2, <3>1, RestSame
  <2>4. r + 0 + 1 + (lag + d - 0) = a /\ lag + d - 0 \in Nat
    BY <2>1
  <2> QED BY <1>5, <2>3, <2>4
<1>6. CASE q < e
  <2>1. PICK a \in Nat : a = e + 1 + (lag + d)
    OBVIOUS
  <2>2. PICK y \in Int : y = x - v
    OBVIOUS
  <2>3. M * x = M * v + M * y
    BY <2>2
  <2>4. a = (s + d + 1) + M * y
    BY <1>1, <1>2, <2>1, <2>3, SMTT(60)
  <2>5. a % M = (s + d + 1) % M
    <3>1. s + d + 1 \in Nat
      OBVIOUS
    <3> QED BY <2>4, <3>1, RestSame
  <2>6. e + 1 + (lag + d - 0) = a /\ lag + d - 0 \in Nat
    BY <2>1
  <2> QED BY <1>6, <2>5, <2>6
<1> QED BY <1>4, <1>5, <1>6


\* Skipped, of any sequence of deliveries.
Unseen(d, b, s) == {k \in (b + 1)..(b + s) : \A i \in DOMAIN d : d[i] # k}

LEMMA UnseenFinite ==
  ASSUME NEW d, NEW b \in Nat, NEW s \in Nat
  PROVE  /\ IsFiniteSet(Unseen(d, b, s))
         /\ Cardinality(Unseen(d, b, s)) \in Nat /\ Cardinality(Unseen(d, b, s)) <= s
<1>1. b + 1 \in Int /\ b + s \in Int
  OBVIOUS
<1>2. /\ IsFiniteSet((b + 1)..(b + s))
      /\ Cardinality((b + 1)..(b + s)) = IF b + 1 > b + s THEN 0 ELSE b + s - (b + 1) + 1
  BY <1>1, FS_Interval
<1>3. Unseen(d, b, s) \in SUBSET ((b + 1)..(b + s))
  BY DEF Unseen
<1>4. /\ IsFiniteSet(Unseen(d, b, s))
      /\ Cardinality(Unseen(d, b, s)) <= Cardinality((b + 1)..(b + s))
  BY <1>2, <1>3, FS_Subset
<1>5. Cardinality(Unseen(d, b, s)) \in Nat
  BY <1>4, FS_CardinalityType
<1>6. Cardinality((b + 1)..(b + s)) <= s
  BY <1>2
<1>7. Cardinality((b + 1)..(b + s)) \in Nat
  BY <1>2, FS_CardinalityType
<1> QED BY <1>4, <1>5, <1>6, <1>7

\* A delivery that passes over the j packets between the last, s, and t.
PassesOver(n, d, b, s, j, t, e) ==
  /\ n \in Nat /\ d \in Seq(1..n) /\ b \in Nat /\ s \in Nat /\ j \in Nat
  /\ t = s + j + 1 /\ b + t \in 1..n /\ e = Append(d, b + t)
  /\ \A i \in DOMAIN d : d[i] <= b + s

\* It adds those to the ones not delivered.
LEMMA PassedOver ==
  ASSUME NEW n, NEW d, NEW b, NEW s, NEW j, NEW t, NEW e, PassesOver(n, d, b, s, j, t, e)
  PROVE  /\ Cardinality(Unseen(e, b, t)) = Cardinality(Unseen(d, b, s)) + j
         /\ \A i \in DOMAIN e : e[i] <= b + t
         /\ \E i \in DOMAIN e : e[i] = b + t
<1>0. /\ n \in Nat /\ d \in Seq(1..n) /\ b \in Nat /\ s \in Nat /\ j \in Nat
      /\ t = s + j + 1 /\ b + t \in 1..n /\ e = Append(d, b + t)
      /\ \A i \in DOMAIN d : d[i] <= b + s
  BY DEF PassesOver
<1> USE <1>0
<1>9. PICK k \in 1..n : k = b + t
  OBVIOUS
<1>1. /\ DOMAIN e = 1..(Len(d) + 1) /\ e[Len(d) + 1] = k
      /\ \A i \in DOMAIN d : i \in DOMAIN e /\ e[i] = d[i]
      /\ \A i \in DOMAIN e : i \in DOMAIN d \/ i = Len(d) + 1
      /\ Len(d) + 1 \in DOMAIN e
  BY <1>9, Appended
<1>2. \A i \in DOMAIN d : d[i] \in Nat
  OBVIOUS
<1>3. Unseen(e, b, t) = Unseen(d, b, s) \cup ((b + s + 1)..(b + s + j))
  <2>1. ASSUME NEW m \in (b + 1)..(b + t), m <= b + s
        PROVE  (\A i \in DOMAIN e : e[i] # m) <=> (\A i \in DOMAIN d : d[i] # m)
    BY <1>1, <2>1
  <2>2. ASSUME NEW m \in (b + 1)..(b + t), m > b + s
        PROVE  (\A i \in DOMAIN e : e[i] # m) <=> m # k
    <3>1. \A i \in DOMAIN d : e[i] # m
      BY <1>1, <1>2, <1>9, <2>2
    <3> QED BY <1>1, <3>1
  <2>3. ASSUME NEW m
        PROVE  m \in Unseen(e, b, t)
                 <=> m \in Unseen(d, b, s) \/ m \in (b + s + 1)..(b + s + j)
    <3>1. CASE m \in (b + 1)..(b + t) /\ m <= b + s
      <4>1. m \in (b + 1)..(b + s) /\ m \notin (b + s + 1)..(b + s + j)
        BY <3>1
      <4> QED BY <2>1, <3>1, <4>1 DEF Unseen
    <3>2. CASE m \in (b + 1)..(b + t) /\ m > b + s
      <4>1. /\ m \notin (b + 1)..(b + s)
            /\ m # k <=> m \in (b + s + 1)..(b + s + j)
        BY <1>9, <3>2
      <4> QED BY <2>2, <3>2, <4>1 DEF Unseen
    <3>3. CASE m \notin (b + 1)..(b + t)
      BY <3>3 DEF Unseen
    <3>4. m \in (b + 1)..(b + t) => m <= b + s \/ m > b + s
      OBVIOUS
    <3> QED BY <3>1, <3>2, <3>3, <3>4
  <2> QED BY <2>3
<1>4. Unseen(d, b, s) \cap ((b + s + 1)..(b + s + j)) = {}
  BY DEF Unseen
<1>5. /\ IsFiniteSet((b + s + 1)..(b + s + j))
      /\ Cardinality((b + s + 1)..(b + s + j)) = j
  <2>1. PICK lo \in Int : lo = b + s + 1
    OBVIOUS
  <2>2. PICK hi \in Int : hi = b + s + j
    OBVIOUS
  <2>3. /\ IsFiniteSet(lo..hi)
        /\ Cardinality(lo..hi) = IF lo > hi THEN 0 ELSE hi - lo + 1
    BY FS_Interval
  <2>4. (IF lo > hi THEN 0 ELSE hi - lo + 1) = j
    BY <2>1, <2>2
  <2> QED BY <2>1, <2>2, <2>3, <2>4
<1>6. IsFiniteSet(Unseen(d, b, s)) /\ Cardinality(Unseen(d, b, s)) \in Nat
  BY UnseenFinite
<1>7. Cardinality(Unseen(e, b, t)) = Cardinality(Unseen(d, b, s)) + j
  <2>1. Cardinality(Unseen(e, b, t)) = Cardinality(Unseen(d, b, s)) + j - Cardinality({})
    BY <1>3, <1>4, <1>5, <1>6, FS_Union
  <2> QED BY <1>6, <2>1, FS_EmptySet
<1>8. /\ \A i \in DOMAIN e : e[i] <= b + t
      /\ \E i \in DOMAIN e : e[i] = b + t
  <2>1. \A i \in DOMAIN d : d[i] <= b + t
    BY <1>2
  <2> QED BY <1>1, <1>9, <2>1
<1> QED BY <1>7, <1>8


LEMMA SkippedUnseen ==
  ASSUME NEW b \in Nat, NEW s \in Nat
  PROVE  Skipped(b, s) = Unseen(delivered, b, s) /\ Skipped(b, s)' = Unseen(delivered', b, s)
BY DEF Skipped, Unseen

\* The two numbers that LostInv asks for.
LEMMA Counted ==
  ASSUME AllInv, AllInv', NEW b \in Nat, Listened, NEW s \in 0..snd.sequence_number,
         NEW lag \in 0..submitted, CountInv(b, s, lag)'
  PROVE  LostInv(b)'
<1>1. Len(sent') = submitted /\ snd'.sequence_number = snd.sequence_number
  BY Numbers DEF Listened
<1> QED BY <1>1 DEF LostInv

\* A packet is passed over when the one after it is taken, and only then is it counted.
LEMMA TakenCounts ==
  ASSUME AllInv, AllInv', NEW b \in 0..submitted, SentInv(b), LostInv(b),
         NEW k \in 1..submitted, Accepts(k), Takes(sent[k]), at_most_once, ~rcv.trouble
  PROVE  LostInv(b)'
<1>1. /\ submitted \in Nat /\ b \in Nat /\ delivered \in Seq(1..submitted)
      /\ rcv.sequence_number \in Nat /\ snd.sequence_number \in Nat
      /\ Len(sent) = submitted /\ rcv \in Receivers
  BY Numbers
<1>2. Listened
  BY DEF Accepts
<1>3. rcv.lost_packets \in Nat /\ rcv'.lost_packets \in Nat
  BY Types DEF AllInv, TypeOK
<1>4. PICK s \in 0..snd.sequence_number, lag \in 0..Len(sent) : CountInv(b, s, lag)
  BY DEF LostInv
<1>5. /\ rcv.lost_packets + lag <= Cardinality(Skipped(b, s))
      /\ (rcv.sequence_number + lag) % sequence_number_modulus = s % sequence_number_modulus
      /\ \A i \in DOMAIN delivered : delivered[i] <= b + s
      /\ s > 0 => \E i \in DOMAIN delivered : delivered[i] = b + s
  BY <1>4 DEF CountInv, Takes
<1>6. PICK t \in 1..snd.sequence_number :
        k = b + t /\ sent[k].seq = (t - 1) % sequence_number_modulus
  BY Placed DEF Takes
<1>7. /\ delivered' = Append(delivered, k)
      /\ \A i \in DOMAIN delivered : delivered[i] < k
  BY DEF Accepts, Link!Deliver
<1>8. PICK j \in Nat : t = s + j + 1
  <2>1. s < t
    <3>1. CASE s > 0
      <4>1. b + s < b + t
        BY <1>5, <1>6, <1>7, <3>1
      <4> QED BY <1>1, <4>1
    <3>2. CASE s = 0
      BY <3>2
    <3> QED BY <1>1, <3>1, <3>2
  <2>2. t - s - 1 \in Nat /\ t = s + (t - s - 1) + 1
    BY <1>1, <2>1
  <2> QED BY <2>2
<1>9. PICK m \in Nat : m = sequence_number_modulus /\ m > 1
  BY SizesAssumption
<1>10. PICK r \in Nat : r = rcv.sequence_number
  BY <1>1
<1>11. PICK e \in 0..(m - 1) : e = r % m
  BY <1>9
<1>12. PICK q \in 0..(m - 1) : q = (s + j) % m
  BY <1>9
<1>13. sent[k].seq = q
  <2>1. t - 1 = s + j
    BY <1>8
  <2> QED BY <1>6, <1>9, <1>12, <2>1
<1>14. PICK more \in Nat : more = IF q > e THEN q - e ELSE 0
  <2>1. (IF q > e THEN q - e ELSE 0) \in Nat
    BY <1>9
  <2> QED BY <2>1
<1>15. PICK next : next = IF q < e THEN e + 1 ELSE r + more + 1
  OBVIOUS
<1>16. PICK lag1 : lag1 = lag + j - more
  OBVIOUS
<1>17. lag1 \in Nat /\ (next + lag1) % m = t % m
  <2>1. lag \in Nat /\ s \in Nat
    BY <1>1
  <2>2. (r + lag) % m = s % m
    BY <1>5, <1>9, <1>10
  <2>3. Overtakes(m, r, lag, s, j, t, e, q, more, next, lag1)
    BY <1>8, <1>9, <1>11, <1>12, <1>14, <1>15, <1>16, <2>1, <2>2 DEF Overtakes
  <2> QED BY <2>3, CatchesUp
<1>18. /\ rcv'.sequence_number = next
       /\ rcv'.lost_packets = rcv.lost_packets + more
  <2>1. CountsAs(e, q)
    BY <1>9, <1>10, <1>11, <1>13 DEF Takes
  <2> QED BY <1>3, <1>10, <1>14, <1>15, <2>1 DEF CountsAs
<1>19. /\ Cardinality(Skipped(b, t)') = Cardinality(Skipped(b, s)) + j
       /\ \A i \in DOMAIN delivered' : delivered'[i] <= b + t
       /\ \E i \in DOMAIN delivered' : delivered'[i] = b + t
  <2>1. PICK d : d = delivered'
    OBVIOUS
  <2>2. s \in Nat /\ t \in Nat /\ d = Append(delivered, k)
    BY <1>1, <1>7, <2>1
  <2>3. /\ Cardinality(Unseen(d, b, t)) = Cardinality(Unseen(delivered, b, s)) + j
        /\ \A i \in DOMAIN d : d[i] <= b + t
        /\ \E i \in DOMAIN d : d[i] = b + t
    <3>1. PassesOver(submitted, delivered, b, s, j, t, d)
      BY <1>1, <1>5, <1>6, <1>8, <2>2 DEF PassesOver
    <3> QED BY <3>1, PassedOver
  <2> QED BY <1>1, <2>1, <2>2, <2>3, SkippedUnseen
<1>20. PICK c \in Nat : c = Cardinality(Skipped(b, s))
  <2>1. s \in Nat
    BY <1>1
  <2> QED BY <1>1, <2>1, UnseenFinite, SkippedUnseen
<1>21. PICK l \in Nat : l = rcv.lost_packets
  BY <1>3
<1>22. rcv'.lost_packets + lag1 <= Cardinality(Skipped(b, t)')
  <2>1. l + lag <= c
    BY <1>5, <1>20, <1>21
  <2>2. l + more + lag1 <= c + j
    BY <1>1, <1>16, <1>17, <2>1
  <2> QED BY <1>18, <1>19, <1>20, <1>21, <2>2
<1>23. lag1 \in 0..submitted
  <2>1. PICK u \in Nat : u = Cardinality(Skipped(b, t)') /\ u <= t
    <3>1. t \in Nat
      BY <1>1
    <3> QED BY <1>1, <3>1, UnseenFinite, SkippedUnseen
  <2>2. lag1 <= u
    BY <1>3, <1>17, <1>22, <2>1
  <2>3. t <= submitted
    BY <1>1, <1>6
  <2> QED BY <1>1, <1>17, <2>1, <2>2, <2>3
<1>24. (rcv'.sequence_number + lag1) % sequence_number_modulus = t % sequence_number_modulus
  BY <1>9, <1>17, <1>18
<1>25. rcv'.state \notin RCV_OPEN_CONNECTION..RCV_START_CONTROL_PACKET
  BY DEF Takes, RCV_OPEN_CONNECTION, RCV_START_CONTROL_PACKET, RCV_DATA_PACKETS
<1>26. CountInv(b, t, lag1)'
  BY <1>19, <1>22, <1>24, <1>25 DEF CountInv
<1>27. t \in 0..snd.sequence_number
  BY <1>1
<1> QED BY <1>1, <1>2, <1>23, <1>26, <1>27, Counted

\* The same of every step of the receiver's.
LEMMA CountKept ==
  ASSUME AllInv, AllInv', NEW b \in 0..submitted, SentInv(b), LostInv(b), FreshInv, Receiver
  PROVE  LostInv(b)'
<1>1. /\ submitted \in Nat /\ b \in Nat /\ snd.sequence_number \in Nat
      /\ delivered \in Seq(1..submitted) /\ Len(sent) = submitted
  BY Numbers
<1>2. Listened /\ (rcv.trouble => rcv'.trouble)
  BY ReceiverParses
<1>3. 0 \in 0..snd.sequence_number /\ 0 \in 0..submitted
  BY <1>1
<1>4. CASE rcv'.trouble \/ ~at_most_once'
  <2>1. CountInv(b, 0, 0)'
    BY <1>4 DEF CountInv
  <2> QED BY <1>1, <1>2, <1>3, <2>1, Counted
<1>5. PICK s \in 0..snd.sequence_number, lag \in 0..submitted : CountInv(b, s, lag)
  BY <1>1 DEF LostInv
<1>6. s \in Nat /\ s <= snd.sequence_number
  BY <1>1
<1>7. CASE Idle
  <2>1. /\ UNCHANGED <<delivered, at_most_once>>
        /\ rcv'.lost_packets = rcv.lost_packets /\ rcv'.trouble = rcv.trouble
        /\ rcv'.state # RCV_DATA_PACKETS
        /\ rcv'.state \in RCV_OPEN_CONNECTION..RCV_START_CONTROL_PACKET =>
             rcv.state \in RCV_OPEN_CONNECTION..RCV_START_CONTROL_PACKET
    BY <1>7 DEF Idle, RCV_OPEN_CONNECTION, RCV_START_CONTROL_PACKET, RCV_DATA_PACKETS
  <2>2. Skipped(b, s)' = Skipped(b, s)
    BY <2>1 DEF Skipped
  <2>3. CountInv(b, s, lag)'
    BY <1>5, <2>1, <2>2 DEF CountInv
  <2> QED BY <1>1, <1>2, <2>3, Counted
<1>8. ASSUME NEW k \in 1..submitted, Accepts(k), ~rcv'.trouble, at_most_once'
      PROVE  LostInv(b)'
  <2>1. /\ delivered' = Append(delivered, k) /\ at_most_once /\ ~rcv.trouble
    BY <1>2, <1>8 DEF Accepts, Link!Deliver
  <2>2. CASE Opens(sent[k])
    <3>1. delivered = <<>> /\ rcv.lost_packets = 0 /\ rcv.sequence_number = 0
      BY <2>1, <2>2 DEF Opens, FreshInv, RCV_OPEN_CONNECTION, RCV_START_CONTROL_PACKET
    <3>2. k <= b
      BY <2>2, Placed DEF Opens
    <3>3. /\ \A i \in DOMAIN delivered' : delivered'[i] <= b + 0
          /\ rcv'.lost_packets = 0 /\ rcv'.sequence_number = 0
      BY <1>1, <2>1, <2>2, <3>1, <3>2 DEF Opens
    <3>4. Cardinality(Skipped(b, 0)') = 0
      <4>1. Skipped(b, 0)' = {}
        BY <1>1 DEF Skipped
      <4> QED BY <4>1, FS_EmptySet
    <3>5. CountInv(b, 0, 0)'
      BY <3>3, <3>4 DEF CountInv
    <3> QED BY <1>1, <1>2, <1>3, <3>5, Counted
  <2>3. CASE Takes(sent[k])
    BY <1>8, <2>1, <2>3, TakenCounts
  <2>4. CASE Ends(sent[k])
    <3>1. k > b + snd.sequence_number
      BY <2>4, Placed DEF Ends
    <3>2. k > b + s
      BY <1>1, <1>6, <3>1
    <3>3. Skipped(b, s)' = Skipped(b, s)
      <4>1. /\ \A i \in DOMAIN delivered : i \in DOMAIN delivered' /\ delivered'[i] = delivered[i]
            /\ \A i \in DOMAIN delivered' : i \in DOMAIN delivered \/ delivered'[i] = k
        <5>1. PICK e : e = delivered'
          OBVIOUS
        <5>2. e = Append(delivered, k)
          BY <2>1, <5>1
        <5> QED BY <1>1, <5>1, <5>2, Appended
      <4>2. \A m \in (b + 1)..(b + s) : m # k
        BY <1>1, <1>6, <3>2
      <4> QED BY <4>1, <4>2 DEF Skipped
    <3>4. /\ rcv'.lost_packets = rcv.lost_packets
          /\ rcv'.state \notin RCV_OPEN_CONNECTION..RCV_START_CONTROL_PACKET
          /\ ~(rcv'.state = RCV_DATA_PACKETS /\ rcv'.ret = Running)
      BY <2>4 DEF Ends, AtEnd, RCV_OPEN_CONNECTION, RCV_START_CONTROL_PACKET,
         RCV_DATA_PACKETS, RCV_CLOSE_CONNECTION
    <3>5. CountInv(b, s, lag)'
      BY <1>5, <2>1, <3>3, <3>4 DEF CountInv
    <3> QED BY <1>1, <1>2, <3>5, Counted
  <2> QED BY <1>8, <2>2, <2>3, <2>4 DEF Accepts
<1> QED BY <1>4, <1>7, <1>8, ReceiverParses

-----------------------------------------------------------------------------
(* The theorems.                                                           *)

\* The invariant holds at first, with nothing sent.
LEMMA TransferInit ==
  ASSUME Init
  PROVE  TransferInv
<1>1. /\ submitted = 0 /\ outstanding = FALSE /\ ahead = FALSE
      /\ delivered = <<>> /\ confirmed = {} /\ sent = <<>> /\ written = <<>>
      /\ snd.state = SND_OPEN_CONNECTION /\ snd.sequence_number = 0
      /\ snd.num_data_bytes_sent = 0
      /\ rcv.state = RCV_OPEN_CONNECTION /\ rcv.sequence_number = 0 /\ rcv.lost_packets = 0
      /\ setup.file_size \in Nat
  BY SizesAssumption DEF Init, Link!Init
<1>2. /\ snd.state \notin SND_DATA_PACKETS..SND_CLOSE_CONNECTION
      /\ rcv.state # RCV_DATA_PACKETS /\ rcv.state # RCV_CLOSE_CONNECTION
  BY <1>1 DEF SND_OPEN_CONNECTION, SND_DATA_PACKETS, SND_CLOSE_CONNECTION,
     RCV_OPEN_CONNECTION, RCV_DATA_PACKETS, RCV_CLOSE_CONNECTION
<1>3. SentInv(0)
  BY <1>1, <1>2 DEF SentInv, Upto
<1>4. ConfirmInv /\ FreshInv
  BY <1>1 DEF ConfirmInv, FreshInv, settled, answered
<1>5. CopyInv(0)
  BY <1>1, <1>2 DEF CopyInv, AtEnd
<1>6. LostInv(0)
  <2>1. Cardinality(Skipped(0, 0)) = 0
    <3>1. Skipped(0, 0) = {}
      BY DEF Skipped
    <3> QED BY <3>1, FS_EmptySet
  <2>2. CountInv(0, 0, 0)
    BY <1>1, <1>2, <2>1 DEF CountInv
  <2>3. 0 \in 0..snd.sequence_number /\ 0 \in 0..Len(sent)
    BY <1>1
  <2> QED BY <2>2, <2>3 DEF LostInv
<1>7. 0 \in 0..submitted
  BY <1>1
<1> QED BY <1>3, <1>4, <1>5, <1>6, <1>7 DEF TransferInv

\* Each step of either program keeps it.
LEMMA TransferStep ==
  ASSUME AllInv, AllInv', TransferInv, [Next]_vars
  PROVE  TransferInv'
<1>1. PICK b \in 0..submitted : SentInv(b) /\ CopyInv(b) /\ LostInv(b)
  BY DEF TransferInv
<1>2. ConfirmInv /\ FreshInv
  BY DEF TransferInv
<1>3. ASSUME Next
      PROVE  /\ ConfirmInv' /\ FreshInv'
             /\ Lockstep' /\ (rcv.trouble => rcv'.trouble) => Lockstep
  <2>1. /\ ConfirmInv'
        /\ AllConfirmed' => AllConfirmed
        /\ AllConfirmed' /\ Len(delivered') = settled' + answered' =>
             Len(delivered) = settled + answered
    BY <1>2, <1>3, ConfirmStep
  <2>2. FreshInv'
    BY <1>2, <1>3, FreshStep
  <2> QED BY <2>1, <2>2 DEF Lockstep
<1>4. CASE Transmitter
  <2>1. PICK c \in 0..submitted' : SentInv(c)' /\ Moves(b, c)
    BY <1>1, <1>4, TransmitterMoves
  <2>2. Lockstep' => Lockstep
    BY <1>3, <1>4, <2>1 DEF Next, Moves
  <2>3. CopyInv(c)'
    BY <1>1, <1>2, <2>1, <2>2, TransmitterCopies
  <2>4. at_most_once' = at_most_once
    BY <1>4 DEF Transmitter, llopen, send_start, send_end, send_control_packet,
       send_data_packets, write_confirmed, write_failed, send_llclose, linkvars,
       Link!Submit, Link!Confirm, Link!Fail
  <2>5. LostInv(c)'
    BY <1>1, <2>1, <2>4, TransmitterCounts
  <2> QED BY <1>3, <1>4, <2>1, <2>3, <2>5 DEF Next, TransferInv
<1>5. CASE Receiver
  <2>1. Listened /\ (rcv.trouble => rcv'.trouble)
    BY <1>5, ReceiverParses
  <2>2. Lockstep' => Lockstep
    BY <1>3, <1>5, <2>1 DEF Next
  <2>3. CopyInv(b)'
    BY <1>1, <1>2, <1>5, <2>2, CopyKept
  <2>4. LostInv(b)'
    BY <1>1, <1>2, <1>5, CountKept
  <2>5. SentInv(b)' /\ b \in 0..submitted'
    BY <1>1, <2>1, SentUntouched DEF Listened
  <2> QED BY <1>3, <1>5, <2>3, <2>4, <2>5 DEF Next, TransferInv
<1>6. CASE UNCHANGED vars
  <2>1. UNCHANGED <<setup, snd, rcv, sent, written, at_most_once, submitted, outstanding,
                    delivered, confirmed, ahead>>
    BY <1>6 DEF vars, linkvars
  <2>2. ConfirmInv' /\ FreshInv' /\ SentInv(b)' /\ b \in 0..submitted'
    BY <1>1, <1>2, <2>1 DEF ConfirmInv, FreshInv, AllConfirmed, settled, answered, SentInv, Upto
  <2>3. CopyInv(b)'
    BY <1>1, <2>1 DEF CopyInv, Lockstep, AllConfirmed, settled, answered, AtEnd, Upto, file
  <2>4. LostInv(b)'
    BY <1>1, <2>1 DEF LostInv, CountInv, Skipped
  <2> QED BY <2>2, <2>3, <2>4 DEF TransferInv
<1> QED BY <1>4, <1>5, <1>6 DEF Next

\* What the receiver has is tied to what was sent, confirmed and delivered.
THEOREM TransferCorrect == Spec => []TransferInv
<1>1. AllInv /\ TransferInv /\ AllInv' /\ [Next]_vars => TransferInv'
  BY TransferStep
<1>2. Init => TransferInv
  BY TransferInit
<1>3. Spec => []AllInv
  BY FileCorrect DEF AllInv
<1> QED BY <1>1, <1>2, <1>3, PTL DEF Spec

\* The file is whole, for any size of it and of the packets and any attempts, in either
\* build, when every write succeeded and each packet was delivered once and parsed:
\* also when the numbers have come round.
THEOREM WholeFile == Spec => []Whole
<1>1. AllInv /\ TransferInv => Whole
  <2> SUFFICES ASSUME AllInv, TransferInv,
                      snd.ret = 0 \/ rcv.state = RCV_CLOSE_CONNECTION,
                      confirmed = 1..submitted, Len(delivered) = submitted,
                      ~rcv.trouble, rcv.received_file
               PROVE  written = file
    BY DEF Whole
  <2>1. /\ submitted \in Nat /\ outstanding \in BOOLEAN
        /\ outstanding => submitted > 0
        /\ settled \in Nat /\ answered \in {0, 1}
    BY ServiceNumbers
  <2>2. ConfirmInv /\ FreshInv
    BY DEF TransferInv
  <2>3. PICK b \in 0..submitted : SentInv(b) /\ CopyInv(b)
    BY DEF TransferInv
  <2>4. ~outstanding
    <3>1. outstanding => submitted \in confirmed
      BY <2>1
    <3> QED BY <2>2, <3>1 DEF ConfirmInv
  <2>5. settled = submitted /\ AllConfirmed
    BY <2>4 DEF settled, AllConfirmed
  <2>6. answered = 0
    <3>1. Len(delivered) >= settled + answered
      BY <2>2, <2>5 DEF ConfirmInv
    <3> QED BY <2>1, <2>5, <3>1
  <2>7. Lockstep
    BY <2>1, <2>5, <2>6 DEF Lockstep
  <2>8. AtEnd
    <3>1. CASE rcv.state = RCV_CLOSE_CONNECTION
      BY <3>1 DEF AtEnd
    <3>2. CASE snd.ret = 0
      <4>1. PICK k \in confirmed : sent[k].field = control_field_end
        BY <3>2 DEF AllInv, FileInv, EndInv, PortInv
      <4>2. k \in 1..submitted /\ k > b + snd.sequence_number
        BY <2>3, <4>1, Placed
      <4>3. rcv.state \notin RCV_OPEN_CONNECTION..RCV_START_CONTROL_PACKET
        <5>1. delivered # <<>>
          BY <2>1, <4>2
        <5> QED BY <2>2, <5>1 DEF FreshInv
      <4>4. ~(rcv.state = RCV_DATA_PACKETS /\ rcv.ret = Running)
        <5>1. b = 1 /\ snd.sequence_number \in Nat /\ rcv.sequence_number \in Nat
          BY <2>1, <2>3, <2>7, <4>2, Numbers DEF CopyInv
        <5>2. rcv.state = RCV_DATA_PACKETS /\ rcv.ret = Running =>
                rcv.sequence_number + 1 = submitted /\ rcv.sequence_number <= snd.sequence_number
          BY <2>3, <2>7 DEF CopyInv
        <5> QED BY <2>1, <4>2, <5>1, <5>2
      <4>5. rcv.state \in RCV_OPEN_CONNECTION..RCV_CLOSE_CONNECTION
        BY Numbers DEF Receivers
      <4> QED BY <4>3, <4>4, <4>5 DEF AtEnd, RCV_OPEN_CONNECTION, RCV_START_CONTROL_PACKET,
             RCV_DATA_PACKETS, RCV_CLOSE_CONNECTION
    <3> QED BY <3>1, <3>2
  <2> QED BY <2>3, <2>7, <2>8 DEF CopyInv
<1>2. Spec => []AllInv
  BY FileCorrect DEF AllInv
<1> QED BY <1>1, <1>2, TransferCorrect, PTL

\* A receiver that answers everything and has had no trouble counts no packet as lost
\* that was delivered, however often the numbers have come round.
THEOREM LossesAreReal == Spec => []LostReal
<1>1. AllInv /\ TransferInv => LostReal
  <2> SUFFICES ASSUME AllInv, TransferInv, at_most_once, ~rcv.trouble
               PROVE  rcv.lost_packets <= Cardinality(Missing)
    BY DEF LostReal
  <2>1. PICK b \in 0..submitted : SentInv(b) /\ LostInv(b)
    BY DEF TransferInv
  <2>2. /\ submitted \in Nat /\ b \in Nat /\ snd.sequence_number \in Nat
        /\ Len(sent) \in Nat
    BY Numbers
  <2>3. rcv.lost_packets \in Nat
    BY Types DEF AllInv, TypeOK
  <2>4. PICK s \in 0..snd.sequence_number, lag \in 0..Len(sent) : CountInv(b, s, lag)
    BY <2>1 DEF LostInv
  <2>5. rcv.lost_packets + lag <= Cardinality(Skipped(b, s))
    BY <2>4 DEF CountInv
  <2>6. Skipped(b, s) \in SUBSET Missing
    <3>1. b + snd.sequence_number <= submitted
      BY <2>1 DEF SentInv
    <3>2. ASSUME NEW k \in (b + 1)..(b + s)
          PROVE  k \in DataPackets
      <4>1. k \in 1..submitted /\ ~(k <= b) /\ k <= b + snd.sequence_number
        BY <2>2, <3>1
      <4> QED BY <2>1, <4>1 DEF SentInv, DataPackets
    <3> QED BY <3>2 DEF Skipped, Missing
  <2>7. IsFiniteSet(Missing)
    <3>1. IsFiniteSet(1..submitted)
      BY <2>2, FS_Interval
    <3>2. Missing \in SUBSET (1..submitted)
      BY DEF Missing, DataPackets
    <3> QED BY <3>1, <3>2, FS_Subset
  <2>8. Cardinality(Skipped(b, s)) <= Cardinality(Missing) /\ Cardinality(Missing) \in Nat
    BY <2>6, <2>7, FS_Subset, FS_CardinalityType
  <2>9. s \in Nat /\ Cardinality(Skipped(b, s)) \in Nat
    <3>1. s \in Nat
      BY <2>2
    <3> QED BY <2>2, <3>1, UnseenFinite, SkippedUnseen
  <2> QED BY <2>2, <2>3, <2>5, <2>8, <2>9
<1>2. Spec => []AllInv
  BY FileCorrect DEF AllInv
<1> QED BY <1>1, <1>2, TransferCorrect, PTL
=============================================================================
