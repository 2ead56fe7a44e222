---------------------------- MODULE MCFrameCodec ----------------------------
(***************************************************************************)
(* Instances of FrameCodec for TLC. The payload bytes are the ones the     *)
(* code treats apart and their neighbours: a flag, an escape, the escaped  *)
(* forms of both, bytes one bit away from a flag or an escape, the octet   *)
(* that escaping flips, and zero.                                          *)
(***************************************************************************)
EXTENDS FrameCodec

Special == {FLAG, BS_ESC, Xor(BS_OCT, FLAG), Xor(BS_OCT, BS_ESC)}
Near    == {Xor(FLAG, 2), BS_OCT, 0}

Upto(k, S) == UNION {[1..j -> S] : j \in 0..k}
Data(S) == [control : {data_control_byte(1)}, data : S]
SetFrame == [control |-> C_SET, data |-> <<>>]

\* The largest payload, every byte of it stuffed or looking like it.
Largest == [1..4 -> {FLAG, BS_ESC, Xor(BS_OCT, FLAG)}]

\* A frame under test and one that follows it.
Pairs == << Data(Upto(3, Special \cup Near) \cup Largest) \cup {SetFrame},
            Data({<<FLAG>>, <<BS_ESC, 0, 0>>, <<Xor(FLAG, 2)>>}) \cup {SetFrame} >>

\* A frame, and a shorter one that leaves the end of it in the buffer.
ShortAfterLong ==
  << {[control |-> data_control_byte(0), data |-> <<34, 0, 0>>]},
     {[control |-> data_control_byte(1), data |-> <<Xor(FLAG, 2)>>]} >>

\* Two flips are combined where both leave that byte, which a flag becomes: two frames
\* without the flags between them are more than the buffer holds.
MCHits == {Xor(FLAG, 2)}

Earlier == INSTANCE EarlierFraming
Draft   == INSTANCE EarlierCodec

\* The receiver's buffer, without its first byte, when a frame has been read into
\* it for the first time: up to the first flag.
BufferOf(bytes) ==
  LET closing == SelectInSeq(Tail(bytes), LAMBDA c : c = FLAG)
  IN [i \in 1..LL_MAX_FRAME_SZ |-> IF i <= closing THEN bytes[i + 1] ELSE 0]

\* The framing of the earlier version, which stuffs and destuffs whole arrays,
\* agrees with the one that does so on the way to and from the port: the same
\* header, check byte and stuffed bytes, as many as stuff_bytes says, from which
\* destuff_bytes gets the data back. (It is looked at once per frame.)
EarlierAgrees ==
  sent # <<>> /\ flipped = <<>> /\ ~reading =>
    LET f == Last(sent)
        stuffed == Earlier!stuff_bytes(Append(f.data, Bcc(f.data)))
    IN IF f.data = <<>> THEN Built(f) = Earlier!Supervision(f.control)
       ELSE /\ Bcc(f.data) = Earlier!compute_bcc(f.data)
            /\ stuffed.data = copy_and_stuff_bytes(f.data)
            /\ stuffed.size = Len(stuffed.data)
            /\ Earlier!destuff_bytes(stuffed.data) =
                 [ret |-> Len(f.data) + 1, data |-> Append(f.data, Bcc(f.data))]

\* The draft that leaves the check byte bare reads back what it wrote, where the
\* caller has room, unless the check byte looks like a flag: then no frame with
\* that data ever arrives, which is what the program stuffs its check byte for.
DraftNeedsNoFlag ==
  sent # <<>> /\ flipped = <<>> /\ ~reading =>
    LET f == Last(sent)
        read == Draft!parse_frame_from_array(BufferOf(Draft!Written(f)))
    IN read = IF Len(f.data) <= max_data_size /\ Bcc(f.data) # FLAG
                THEN Draft!Read(f.data) ELSE Draft!Refused
=============================================================================
