---------------------------- MODULE EarlierCodec ----------------------------
(* The frames of another earlier version, working/daniel: its               *)
(* data_link_io.c leaves the check byte of the data as it is, and its       *)
(* parser looks one byte ahead for the flag behind it.                      *)
EXTENDS Integers, Sequences, SequencesExt, Bitwise

CONSTANTS LL_MAX_FRAME_SZ, max_data_size

FLAG   == 126
A      == 3
BS_ESC == 125
BS_OCT == 32

LL_MAX_PAYLOAD == (LL_MAX_FRAME_SZ - 2 - 3 - 1) \div 2

xor(bytes) == FoldLeft(LAMBDA bcc, c : bcc ^^ c, 0, bytes)

\* The stuffed bytes, and the check byte of the bare ones.
copy_and_stuff_bytes(data) ==
  [dest |-> FlattenSeq([i \in DOMAIN data |->
              IF data[i] \in {FLAG, BS_ESC} THEN <<BS_ESC, BS_OCT ^^ data[i]>>
              ELSE <<data[i]>>]),
   data_bcc |-> xor(data)]

\* What f_send_frame writes.
Written(frame) ==
  LET stuffed == copy_and_stuff_bytes(frame.data)
  IN <<FLAG, A, frame.control, A ^^ frame.control>>
       \o (IF frame.data = <<>> THEN <<>> ELSE Append(stuffed.dest, stuffed.data_bcc))
       \o <<FLAG>>

Refused == [ok |-> FALSE, data |-> <<>>]
Read(data) == [ok |-> TRUE, data |-> data]

\* Mutant: an escape is taken for a byte of data.
Verbatim(a, n) == [c |-> a[4 + n], next |-> n + 1]

\* The byte at place n of the data field, and the place of the one after it.
Byte(a, n) ==
  IF a[4 + n] = BS_ESC THEN [c |-> BS_OCT ^^ a[5 + n], next |-> n + 2]
  ELSE [c |-> a[4 + n], next |-> n + 1]

RECURSIVE Field(_, _, _)
\* The data field from place n on, behind data. It ends where a flag follows the
\* next byte, which is the check byte unless it was escaped.
Field(a, n, data) ==
  IF n > LL_MAX_PAYLOAD \/ Len(data) > max_data_size THEN Refused
  ELSE IF a[5 + n] # FLAG THEN Field(a, Byte(a, n).next, Append(data, Byte(a, n).c))
  ELSE IF a[3 + n] = BS_ESC \/ a[4 + n] # xor(data) THEN Refused
  ELSE Read(data)

\* a is the buffer from the byte after the opening flag on.
parse_frame_from_array(a) ==
  IF FLAG \in {a[1], a[2], a[3]} \/ a[3] # a[1] ^^ a[2] THEN Refused
  ELSE IF a[4] = FLAG THEN Read(<<>>)
  ELSE IF a[5] = FLAG THEN Refused
  ELSE Field(a, 0, <<>>)
=============================================================================
