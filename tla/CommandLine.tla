---------------------------- MODULE CommandLine -----------------------------
(***************************************************************************)
(* The program of netlink.c from its command line to the call of send_file *)
(* or receive_file, with the files of file.c. A word of the command line   *)
(* is a string that stands for itself; what matters of it is whether it is *)
(* a flag, a port, a baudrate or a file, and what atoi makes of it.        *)
(***************************************************************************)
EXTENDS Integers, Sequences, FiniteSets, SequencesExt

CONSTANTS
  Lines,      \* bound: the command lines, argv[0] included
  Dashed,     \* the words that begin with a dash
  Ports,      \* the serial ports the program knows
  Baudrates,  \* and its baudrates
  Files,      \* the paths of files that can be read
  basename,   \* the last part of a path
  atoi,       \* the value of a word
  INT_MAX,
  FRAME_SIZE

Flags == {"-t", "-i", "-b", "-p", "-r"}
None == "none"

ASSUME WordsAssumption ==
  /\ Lines \subseteq Seq(STRING) /\ <<>> \notin Lines
  /\ Flags \subseteq Dashed
  /\ Ports \cap Dashed = {} /\ Baudrates \cap Dashed = {}
  /\ "B19200" \in Baudrates
  /\ Files \subseteq STRING /\ \A f \in Files : basename[f] # None
ASSUME NumbersAssumption ==
  /\ INT_MAX \in Nat /\ INT_MAX > 4  \* C has it at 32767 or more
  /\ FRAME_SIZE \in 1..INT_MAX
  /\ \A argv \in Lines : \A i \in DOMAIN argv : atoi[argv[i]] \in -(INT_MAX + 1)..INT_MAX

VARIABLES
  argv,
  memory,        \* whether there is enough for the file: it never changes
  at,            \* where parse_args is, "send_file", "receive_file" or "failed"
  index,         \* t_index to r_index
  is_transmitter,
  file_to_send,  \* the file, by its name
  serial_port_baudrate,
  max_data_transfer,
  max_retries,
  port

vars == <<argv, memory, at, index, is_transmitter, file_to_send, serial_port_baudrate,
          max_data_transfer, max_retries, port>>

argc == Len(argv)
arg(i) == argv[i + 1]

\* What is set when main begins.
Defaults == [is_transmitter |-> FALSE, file |-> None, baudrate |-> "B19200",
             size |-> FRAME_SIZE, retries |-> 3]

Init ==
  /\ argv \in Lines
  /\ memory \in BOOLEAN
  /\ at = "parse_args"
  /\ index = [f \in Flags |-> -1]
  /\ is_transmitter = Defaults.is_transmitter
  /\ file_to_send = Defaults.file
  /\ serial_port_baudrate = Defaults.baudrate
  /\ max_data_transfer = Defaults.size
  /\ max_retries = Defaults.retries
  /\ port = None

-----------------------------------------------------------------------------
(* The steps of parse_args and what they call.                             *)

\* One leads on to the next, or out of the program.
Step(from, to) == at = from /\ at' = to

\* Mutant: the first flag of a kind counts.
FirstIndex(f) ==
  LET S == {i \in 0..argc - 2 : arg(i) = f}
  IN IF S = {} THEN -1 ELSE CHOOSE i \in S : \A j \in S : i <= j

\* The last of its kind; the last word of the line is not looked at.
LastIndex(f) ==
  LET S == {i \in 0..argc - 2 : arg(i) = f}
  IN IF S = {} THEN -1 ELSE CHOOSE i \in S : \A j \in S : j <= i

\* Mutant: a value is taken for a flag.
UnknownWord == \E i \in 1..argc - 2 : arg(i) \notin Flags

BadFlag == \E i \in 0..argc - 2 : arg(i) \in Dashed \ Flags

parse_args ==
  /\ \/ argc < 2 /\ Step("parse_args", "failed")
     \/ argc = 2 /\ Step("parse_args", "port")
     \/ argc > 2 /\ Step("parse_args", "flags")
  /\ UNCHANGED <<argv, memory, index, is_transmitter, file_to_send, serial_port_baudrate,
                 max_data_transfer, max_retries, port>>

parse_flags ==
  /\ \/ /\ BadFlag
        /\ Step("flags", "failed")
        /\ UNCHANGED index
     \/ /\ ~BadFlag
        /\ Step("flags", "file")
        /\ index' = [f \in Flags |-> LastIndex(f)]
  /\ UNCHANGED <<argv, memory, is_transmitter, file_to_send, serial_port_baudrate,
                 max_data_transfer, max_retries, port>>

Given(f) == index[f] > 0 /\ index[f] < argc - 1
Value(f) == arg(index[f] + 1)

FromDisk == Given("-t")

\* read_file_from_disk or read_file_from_stdin. The file goes out under the last part
\* of its path.
read_file ==
  /\ \/ /\ ~FromDisk /\ ~Given("-i")
        /\ Step("file", "baudrate")
        /\ UNCHANGED <<is_transmitter, file_to_send>>
     \/ /\ FromDisk /\ Value("-t") \notin Files
        /\ Step("file", "failed")
        /\ UNCHANGED <<is_transmitter, file_to_send>>
     \/ /\ FromDisk \/ Given("-i")
        /\ ~memory
        /\ Step("file", "failed")
        /\ UNCHANGED <<is_transmitter, file_to_send>>
     \/ /\ FromDisk /\ Value("-t") \in Files /\ memory
        /\ Step("file", "baudrate")
        /\ file_to_send' = basename[Value("-t")]
        /\ is_transmitter' = TRUE
     \/ /\ ~FromDisk /\ Given("-i") /\ memory
        /\ Step("file", "baudrate")
        /\ file_to_send' = "output"
        /\ is_transmitter' = TRUE
  /\ UNCHANGED <<argv, memory, index, serial_port_baudrate, max_data_transfer, max_retries,
                 port>>

parse_baudrate_arg ==
  /\ \/ /\ ~Given("-b")
        /\ Step("baudrate", "size")
        /\ UNCHANGED serial_port_baudrate
     \/ /\ Given("-b") /\ Value("-b") \notin Baudrates
        /\ Step("baudrate", "failed")
        /\ UNCHANGED serial_port_baudrate
     \/ /\ Given("-b") /\ Value("-b") \in Baudrates
        /\ Step("baudrate", "size")
        /\ serial_port_baudrate' = Value("-b")
  /\ UNCHANGED <<argv, memory, index, is_transmitter, file_to_send, max_data_transfer,
                 max_retries, port>>

\* Mutant: the bound is not applied.
AnySize(val) == val

\* What is out of range stands for the largest size.
SizeOf(val) == IF val > FRAME_SIZE \/ val < 0 THEN FRAME_SIZE ELSE val

parse_max_packet_size ==
  /\ Step("size", "retries")
  /\ max_data_transfer' = IF Given("-p") THEN SizeOf(atoi[Value("-p")]) ELSE max_data_transfer
  /\ UNCHANGED <<argv, memory, index, is_transmitter, file_to_send, serial_port_baudrate,
                 max_retries, port>>

\* Mutant: zero is not replaced.
NoFloor(val) == val

\* One attempt more than the retries asked for, in the arithmetic of int.
AttemptsFor(val) == IF val <= 0 THEN 4 ELSE IF val = INT_MAX THEN -(INT_MAX + 1) ELSE 1 + val

parse_max_retries ==
  /\ Step("retries", "port")
  /\ max_retries' = IF Given("-r") THEN AttemptsFor(atoi[Value("-r")]) ELSE max_retries
  /\ UNCHANGED <<argv, memory, index, is_transmitter, file_to_send, serial_port_baudrate,
                 max_data_transfer, port>>

parse_serial_port_arg ==
  LET last == arg(argc - 1)
  IN /\ \/ /\ last \in Ports
           /\ Step("port", IF is_transmitter THEN "send_file" ELSE "receive_file")
           /\ port' = last
        \/ /\ last \notin Ports
           /\ Step("port", "failed")
           /\ UNCHANGED port
     /\ UNCHANGED <<argv, memory, index, is_transmitter, file_to_send, serial_port_baudrate,
                    max_data_transfer, max_retries>>

Next == parse_args \/ parse_flags \/ read_file \/ parse_baudrate_arg
          \/ parse_max_packet_size \/ parse_max_retries \/ parse_serial_port_arg

Spec == Init /\ [][Next]_vars

-----------------------------------------------------------------------------
(* Properties.                                                             *)

Started == at \in {"send_file", "receive_file"}

TypeOK ==
  /\ argv \in Seq(STRING) /\ argv # <<>>
  /\ memory \in BOOLEAN
  /\ at \in {"parse_args", "flags", "file", "baudrate", "size", "retries", "port",
             "send_file", "receive_file", "failed"}
  /\ index \in [Flags -> -1..argc - 2]
  /\ is_transmitter \in BOOLEAN
  /\ file_to_send \in {basename[f] : f \in Files} \cup {None, "output"}
  /\ serial_port_baudrate \in Baudrates
  /\ max_data_transfer \in 0..FRAME_SIZE
  /\ max_retries \in -(INT_MAX + 1)..INT_MAX
  /\ port \in Ports \cup {None}

\* The usage that help() prints: options, each with the word it takes, then the port.
Takes == Flags \ {"-i"}
Options(line) == 2..Len(line) - 1
Usage(line) ==
  /\ Len(line) > 1 /\ line[1] \notin Dashed /\ line[Len(line)] \in Ports
  /\ \A i \in Options(line) :
       /\ line[i] \in Flags \/ (line[i] \notin Dashed /\ line[i - 1] \in Takes)
       /\ line[i] \in Takes => i + 1 \in Options(line) /\ line[i + 1] \notin Dashed

\* Is option f there, and what is it given the last time?
Has(line, f) == \E i \in Options(line) : line[i] = f
IsGiven(line, f, word) ==
  \E i \in Options(line) :
    /\ line[i] = f /\ line[i + 1] = word
    /\ \A j \in Options(line) : line[j] = f => j <= i

\* A command line that follows the usage means what the usage says, wherever the
\* options stand and however often they are given: the last of a kind counts, a
\* file goes before the standard input, and what is not given keeps its default.
AsUsed ==
  Started /\ Usage(argv) =>
    /\ port = argv[argc]
    /\ is_transmitter <=> Has(argv, "-t") \/ Has(argv, "-i")
    /\ IF Has(argv, "-t")
       THEN \E w \in Files : IsGiven(argv, "-t", w) /\ file_to_send = basename[w]
       ELSE file_to_send = IF Has(argv, "-i") THEN "output" ELSE Defaults.file
    /\ IF Has(argv, "-b") THEN IsGiven(argv, "-b", serial_port_baudrate)
       ELSE serial_port_baudrate = Defaults.baudrate
    /\ ~Has(argv, "-p") => max_data_transfer = Defaults.size
    /\ ~Has(argv, "-r") => max_retries = Defaults.retries
    /\ \A w \in Range(argv) :
         /\ IsGiven(argv, "-p", w) /\ atoi[w] \in 1..FRAME_SIZE => max_data_transfer = atoi[w]
         /\ IsGiven(argv, "-r", w) /\ atoi[w] \in 1..INT_MAX - 1 => max_retries = atoi[w] + 1

\* A line that follows the usage is refused for one of three reasons only: it asks for
\* a file to be sent and there is no memory for one, the file cannot be read, or there
\* is no such baudrate.
UsageAccepted ==
  at = "failed" /\ Usage(argv) =>
    \/ ~memory /\ (Has(argv, "-t") \/ Has(argv, "-i"))
    \/ \E w \in Range(argv) \ Files : IsGiven(argv, "-t", w)
    \/ \E w \in Range(argv) \ Baudrates : IsGiven(argv, "-b", w)

\* What the transfer is started with, whatever the line: a port that the program
\* knows, a size of data that fits, a file in a transmitter only; and at least the one
\* attempt that the file transfer assumes in every case but one: as many retries are
\* asked for as an int can count, and one more is a negative number.
ReadyToTransfer ==
  Started =>
    /\ port \in Ports
    /\ max_retries >= 1 <=> ~(Given("-r") /\ atoi[Value("-r")] = INT_MAX)
    /\ max_data_transfer \in 0..FRAME_SIZE
    /\ is_transmitter <=> file_to_send # None
=============================================================================
