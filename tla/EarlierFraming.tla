--------------------------- MODULE EarlierFraming ---------------------------
(* The framing of an earlier version of the program: byte_stuffing.c and   *)
(* the headers of serial_port.c in working/filipe. It stuffs a copy of the *)
(* data and takes the stuffing out in place.                               *)
EXTENDS Integers, Sequences, FiniteSets, SequencesExt, Bitwise

FLAG_C == 126
ESC_C  == 125
OCT_C  == 32
A_C    == 3

\* The three bytes of a header; a supervision frame is one between flags.
build_header(control_field) == <<A_C, control_field, A_C ^^ control_field>>
Supervision(control_field) == <<FLAG_C>> \o build_header(control_field) \o <<FLAG_C>>

compute_bcc(msg) == FoldLeft(LAMBDA bcc, c : bcc ^^ c, Head(msg), Tail(msg))

count_escapes(data) == Cardinality({i \in DOMAIN data : data[i] \in {FLAG_C, ESC_C}})

\* Mutant: only the flag is escaped.
FlagsOnly(data) ==
  FlattenSeq([i \in DOMAIN data |->
    IF data[i] = FLAG_C THEN <<ESC_C, OCT_C ^^ FLAG_C>> ELSE <<data[i]>>])

insert_escapes(data) ==
  FlattenSeq([i \in DOMAIN data |->
    IF data[i] \in {FLAG_C, ESC_C} THEN <<ESC_C, OCT_C ^^ data[i]>> ELSE <<data[i]>>])

\* The bytes, and how many of them the caller is told of.
stuff_bytes(data) ==
  [data |-> insert_escapes(data), size |-> Len(data) + count_escapes(data)]

\* The byte after an escape is changed, whatever it is; data that ends in an
\* escape is refused.
destuff_bytes(data) ==
  LET Step(s, c) ==
        CASE s.escaped               -> [out |-> Append(s.out, c ^^ OCT_C), escaped |-> FALSE]
          [] ~s.escaped /\ c = ESC_C -> [s EXCEPT !.escaped = TRUE]
          [] OTHER                   -> [s EXCEPT !.out = Append(@, c)]
      walked == FoldLeft(Step, [out |-> <<>>, escaped |-> FALSE], data)
  IN IF Last(data) = ESC_C THEN [ret |-> -1, data |-> data]
     ELSE [ret |-> Len(walked.out), data |-> walked.out]
=============================================================================
