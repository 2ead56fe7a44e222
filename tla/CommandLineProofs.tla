------------------------- MODULE CommandLineProofs --------------------------
(***************************************************************************)
(* The invariants of CommandLine hold for every set of command lines. What *)
(* the program has made of its line at each step is a function of the      *)
(* line: Meaning says which, and the usage text follows from it.           *)
(***************************************************************************)
EXTENDS CommandLine, WellFoundedInduction, TLAPS

\* The steps from each of these on.
AfterPort    == {"send_file", "receive_file"}
AfterRetries == AfterPort \cup {"port"}
AfterSize    == AfterRetries \cup {"retries"}
AfterRate    == AfterSize \cup {"size"}
AfterFile    == AfterRate \cup {"baudrate"}
AfterFlags   == AfterFile \cup {"file"}

\* Where the flags stand.
Indices ==
  \/ /\ index = [f \in Flags |-> -1]
     /\ \/ at = "parse_args" \/ at = "failed" \/ (at = "flags" /\ argc > 2)
        \/ (at \in AfterRetries /\ argc = 2)
  \/ /\ argc > 2 /\ ~BadFlag
     /\ index = [f \in Flags |-> LastIndex(f)]
     /\ at \in AfterFlags \cup {"failed"}

\* What a step leaves in its variables, and what is in them before it.
Meaning ==
  /\ IF at \in AfterFile
     THEN /\ is_transmitter <=> Given("-t") \/ Given("-i")
          /\ file_to_send = IF Given("-t") THEN basename[Value("-t")]
                            ELSE IF Given("-i") THEN "output" ELSE None
          /\ Given("-t") => Value("-t") \in Files
     ELSE at # "failed" => is_transmitter = FALSE /\ file_to_send = None
  /\ at # "failed" =>
       /\ serial_port_baudrate =
            IF at \in AfterRate /\ Given("-b") THEN Value("-b") ELSE "B19200"
       /\ max_data_transfer =
            IF at \in AfterSize /\ Given("-p") THEN SizeOf(atoi[Value("-p")]) ELSE FRAME_SIZE
       /\ max_retries =
            IF at \in AfterRetries /\ Given("-r") THEN AttemptsFor(atoi[Value("-r")]) ELSE 3
  /\ at \in AfterPort => port = argv[argc] /\ argv[argc] \in Ports

IInv == TypeOK /\ argv \in Lines /\ Indices /\ Meaning /\ UsageAccepted

-----------------------------------------------------------------------------
(* The greatest of some numbers.                                           *)

\* Natural numbers have no endless descent.
LEMMA Less == IsWellFoundedOn({r \in Nat \X Nat : r[1] < r[2]}, Nat)
BY NatLessThanWellFounded DEF OpToRel

\* A set of natural numbers has a least one.
LEMMA Least ==
  ASSUME NEW S \in SUBSET Nat, S # {}
  PROVE  \E m \in S : \A k \in S : m <= k
<1> DEFINE R == {r \in Nat \X Nat : r[1] < r[2]}
<1>1. IsWellFoundedOn(R, Nat) BY Less
<1> HIDE DEF R
<1>2. PICK m \in S : \A y \in S : ~ (<<y, m>> \in R) BY <1>1, WFMin
<1>3. \A y \in S : ~ (y < m) BY <1>2 DEF R
<1> QED BY <1>3

\* One of natural numbers up to n has a greatest one.
LEMMA Greatest ==
  ASSUME NEW n \in Nat, NEW S \in SUBSET (0..n), S # {}
  PROVE  \E m \in S : \A k \in S : k <= m
<1> DEFINE D == {n - i : i \in S}
<1>1. D \in SUBSET Nat /\ D # {}
  <2>1. \A i \in S : n - i \in Nat OBVIOUS
  <2>2. PICK i \in S : TRUE OBVIOUS
  <2>3. n - i \in D OBVIOUS
  <2> QED BY <2>1, <2>3
<1>2. PICK d \in D : \A k \in D : d <= k
  <2> HIDE DEF D
  <2> QED BY <1>1, Least
<1>3. PICK m \in S : d = n - m OBVIOUS
<1>4. \A k \in S : n - m <= n - k BY <1>2, <1>3
<1>5. \A k \in S : k <= m BY <1>4
<1> QED BY <1>5

\* LastIndex is what its name says.
LEMMA LastIndexIsLast ==
  ASSUME argv \in Seq(STRING), argc > 2, NEW f \in Flags
  PROVE  /\ LastIndex(f) \in -1..argc - 2
         /\ LastIndex(f) = -1 => \A j \in 0..argc - 2 : arg(j) # f
         /\ LastIndex(f) # -1 => /\ arg(LastIndex(f)) = f
                                 /\ \A j \in 0..argc - 2 : arg(j) = f => j <= LastIndex(f)
<1> DEFINE S == {i \in 0..argc - 2 : arg(i) = f}
<1>1. argc \in Nat /\ argc - 2 \in Nat BY DEF argc
<1>2. CASE S = {}
  <2>1. LastIndex(f) = -1 BY <1>2 DEF LastIndex
  <2> QED BY <1>1, <1>2, <2>1
<1>3. CASE S # {}
  <2>1. \E m \in S : \A k \in S : k <= m
    <3>1. S \in SUBSET (0..argc - 2) OBVIOUS
    <3> HIDE DEF S
    <3> QED BY <1>1, <1>3, <3>1, Greatest
  <2>2. LastIndex(f) = CHOOSE i \in S : \A j \in S : j <= i BY <1>3 DEF LastIndex
  <2>3. LastIndex(f) \in S /\ \A j \in S : j <= LastIndex(f)
    <3> HIDE DEF S
    <3> QED BY <2>1, <2>2
  <2> QED BY <1>1, <2>3
<1> QED BY <1>2, <1>3

-----------------------------------------------------------------------------
(* What the flags of a line say of it.                                     *)

\* A flag that is given has its word on the line.
LEMMA GivenWord ==
  ASSUME IInv, NEW f \in Flags, Given(f)
  PROVE  /\ index[f] \in 1..argc - 2
         /\ argv[index[f] + 1] = f
         /\ Value(f) = argv[index[f] + 2] /\ index[f] + 2 \in DOMAIN argv
         /\ argc > 2 /\ index[f] = LastIndex(f)
<1>1. argc \in Nat /\ argv \in Seq(STRING) BY DEF IInv, TypeOK, argc
<1>2. index \in [Flags -> -1..argc - 2] BY DEF IInv, TypeOK
<1>3. index[f] \in 1..argc - 2 BY <1>1, <1>2 DEF Given
<1>4. argc > 2 /\ index[f] = LastIndex(f) BY <1>3 DEF IInv, Indices
<1>5. LastIndex(f) # -1 BY <1>1, <1>3, <1>4
<1>6. arg(LastIndex(f)) = f BY <1>1, <1>4, <1>5, LastIndexIsLast
<1>7. argv[index[f] + 1] = f BY <1>4, <1>6 DEF arg
<1>8. Value(f) = argv[index[f] + 2]
  <2>1. (index[f] + 1) + 1 = index[f] + 2 BY <1>3
  <2> QED BY <2>1 DEF Value, arg
<1>9. index[f] + 2 \in DOMAIN argv BY <1>1, <1>3 DEF argc
<1> QED BY <1>3, <1>4, <1>7, <1>8, <1>9

\* atoi of it is an int.
LEMMA GivenNumber ==
  ASSUME IInv, NEW f \in Flags, Given(f)
  PROVE  atoi[Value(f)] \in -(INT_MAX + 1)..INT_MAX
BY GivenWord, NumbersAssumption DEF IInv

\* On a line that follows the usage, an option is given when it is there, by the
\* word after the last of it.
LEMMA GivenIsHas ==
  ASSUME IInv, at \in AfterFile \cup {"file"}, Usage(argv), NEW f \in Flags
  PROVE  /\ Given(f) <=> Has(argv, f)
         /\ Given(f) => IsGiven(argv, f, Value(f))
         /\ Given(f) => \A w \in STRING : IsGiven(argv, f, w) => w = Value(f)
<1>1. argc \in Nat /\ argv \in Seq(STRING) BY DEF IInv, TypeOK, argc
<1>2. argc > 1 /\ argv[1] # f BY WordsAssumption DEF Usage, argc
<1>3. CASE argc = 2
  <2>1. index[f] = -1 BY <1>3 DEF IInv, Indices
  <2>2. ~Given(f) BY <2>1 DEF Given
  <2>3. Options(argv) = {} BY <1>3 DEF Options, argc
  <2> QED BY <2>2, <2>3 DEF Has
<1>4. CASE argc > 2
  <2>1. index[f] = LastIndex(f)
    BY <1>4 DEF IInv, Indices, AfterRetries, AfterFile, AfterRate, AfterSize, AfterPort
  <2>2. /\ LastIndex(f) \in -1..argc - 2
        /\ LastIndex(f) = -1 => \A j \in 0..argc - 2 : arg(j) # f
        /\ LastIndex(f) # -1 => /\ arg(LastIndex(f)) = f
                                /\ \A j \in 0..argc - 2 : arg(j) = f => j <= LastIndex(f)
    BY <1>1, <1>4, LastIndexIsLast
  <2>3. LastIndex(f) # 0 BY <1>2, <2>2 DEF arg
  <2>4. \A j \in Options(argv) : j - 1 \in 0..argc - 2 /\ arg(j - 1) = argv[j]
    BY <1>1 DEF Options, arg, argc
  <2>5. Has(argv, f) => Given(f)
    <3>1. SUFFICES ASSUME NEW j \in Options(argv), argv[j] = f PROVE Given(f) BY DEF Has
    <3>2. LastIndex(f) # -1 BY <2>2, <2>4, <3>1
    <3> QED BY <1>1, <2>1, <2>2, <2>3, <3>2 DEF Given
  <2>6. ASSUME Given(f)
        PROVE  /\ Has(argv, f) /\ IsGiven(argv, f, Value(f))
               /\ \A w \in STRING : IsGiven(argv, f, w) => w = Value(f)
    <3> DEFINE n == index[f] + 1
    <3>1. index[f] \in 1..argc - 2 /\ argv[n] = f /\ Value(f) = argv[index[f] + 2]
      BY <2>6, GivenWord
    <3>2. n \in Options(argv) /\ Value(f) = argv[n + 1] BY <1>1, <3>1 DEF Options, argc
    <3>3. \A j \in Options(argv) : argv[j] = f => j <= n
      <4>1. LastIndex(f) # -1 BY <2>1, <3>1
      <4>2. \A j \in Options(argv) : argv[j] = f => j - 1 <= index[f] BY <2>1, <2>2, <2>4, <4>1
      <4> QED BY <1>1, <3>1, <4>2 DEF Options
    <3>4. n \in Int /\ Options(argv) \subseteq Int BY <3>1 DEF Options
    <3> HIDE DEF n
    <3>5. Has(argv, f) /\ IsGiven(argv, f, Value(f)) BY <3>1, <3>2, <3>3 DEF Has, IsGiven
    <3>6. ASSUME NEW w \in STRING, IsGiven(argv, f, w) PROVE w = Value(f)
      <4>1. PICK i \in Options(argv) : /\ argv[i] = f /\ argv[i + 1] = w
                                       /\ \A j \in Options(argv) : argv[j] = f => j <= i
        BY <3>6 DEF IsGiven
      <4>2. i <= n /\ n <= i BY <3>1, <3>2, <3>3, <4>1
      <4>3. i = n BY <3>4, <4>2
      <4> QED BY <3>2, <4>1, <4>3
    <3> QED BY <3>5, <3>6
  <2> QED BY <2>5, <2>6
<1> QED BY <1>1, <1>2, <1>3, <1>4

-----------------------------------------------------------------------------
(* The invariant.                                                          *)

LEMMA InitIInv == Init => IInv
<1> SUFFICES ASSUME Init PROVE IInv OBVIOUS
<1>1. argv \in Lines /\ argv \in Seq(STRING) /\ argv # <<>> BY WordsAssumption DEF Init
<1>2. argc \in Nat /\ argc >= 1 BY <1>1 DEF argc
<1>3. index \in [Flags -> -1..argc - 2]
  <2>1. -1 \in -1..argc - 2 BY <1>2
  <2> QED BY <2>1 DEF Init
<1>4. TypeOK
  BY <1>1, <1>3, WordsAssumption, NumbersAssumption DEF Init, TypeOK, Defaults
<1>5. Indices BY DEF Init, Indices
<1>6. Meaning
  BY DEF Init, Meaning, Defaults, AfterFile, AfterRate, AfterSize, AfterRetries, AfterPort
<1>7. UsageAccepted BY DEF Init, UsageAccepted
<1> QED BY <1>1, <1>4, <1>5, <1>6, <1>7 DEF IInv

\* What a step that keeps the line and the indices keeps.
LEMMA SameLine ==
  ASSUME UNCHANGED argv
  PROVE  /\ argc' = argc /\ BadFlag' = BadFlag
         /\ \A i : arg(i)' = arg(i)
         /\ \A f \in Flags : LastIndex(f)' = LastIndex(f)
         /\ UNCHANGED index =>
              \A f \in Flags : Given(f)' = Given(f) /\ Value(f)' = Value(f)
BY DEF argc, BadFlag, arg, LastIndex, Given, Value

LEMMA StepParse == ASSUME IInv, parse_args PROVE IInv'
<1> USE DEF parse_args, Step
<1>1. argc \in Nat BY DEF IInv, TypeOK, argc
<1>2. /\ argc' = argc /\ BadFlag' = BadFlag BY SameLine
<1>3. at = "parse_args" /\ at' \in {"failed", "port", "flags"} OBVIOUS
<1>4. TypeOK' BY <1>2, <1>3 DEF IInv, TypeOK
<1>5. Indices'
  <2>1. index' = [f \in Flags |-> -1]
    BY <1>3 DEF IInv, Indices, AfterFlags, AfterFile, AfterRate, AfterSize, AfterRetries, AfterPort
  <2> QED BY <1>1, <1>2, <2>1 DEF Indices, AfterRetries
<1>6. Meaning'
  <2>1. \A f \in Flags : ~Given(f)'
    <3>1. index = [f \in Flags |-> -1]
      BY <1>3 DEF IInv, Indices, AfterFlags, AfterFile, AfterRate, AfterSize, AfterRetries, AfterPort
    <3> QED BY <3>1 DEF Given
  <2>2. {"-t", "-i", "-b", "-p", "-r"} = Flags BY DEF Flags
  <2>3. /\ is_transmitter = FALSE /\ file_to_send = None
        /\ serial_port_baudrate = "B19200"
        /\ max_data_transfer = FRAME_SIZE /\ max_retries = 3
    BY <1>3 DEF IInv, Meaning, AfterFile, AfterRate, AfterSize, AfterRetries, AfterPort
  <2> QED BY <1>3, <2>1, <2>2, <2>3 DEF Meaning, AfterPort
<1>7. UsageAccepted'
  <2>1. at' = "failed" => ~Usage(argv') BY <1>1 DEF Usage, argc
  <2> QED BY <2>1 DEF UsageAccepted
<1>8. argv' \in Lines BY DEF IInv
<1> QED BY <1>4, <1>5, <1>6, <1>7, <1>8 DEF IInv

LEMMA StepFlags == ASSUME IInv, parse_flags PROVE IInv'
<1> USE DEF parse_flags, Step
<1>1. argc \in Nat /\ argv \in Seq(STRING) BY DEF IInv, TypeOK, argc
<1>2. argc' = argc /\ BadFlag' = BadFlag /\ \A f \in Flags : LastIndex(f)' = LastIndex(f)
  BY SameLine
<1>3. argc > 2 /\ index = [f \in Flags |-> -1]
  BY DEF IInv, Indices, AfterFlags, AfterFile, AfterRate, AfterSize, AfterRetries, AfterPort
<1>4. TypeOK'
  <2>1. index' \in [Flags -> -1..argc - 2]
    <3>1. \A f \in Flags : LastIndex(f) \in -1..argc - 2 BY <1>1, <1>3, LastIndexIsLast
    <3>2. CASE BadFlag BY <3>2 DEF IInv, TypeOK
    <3>3. CASE ~BadFlag BY <3>1, <3>3
    <3> QED BY <3>2, <3>3
  <2> QED BY <1>2, <2>1 DEF IInv, TypeOK
<1>5. Indices' BY <1>2, <1>3 DEF Indices, AfterFlags
<1>6. Meaning'
  <2>1. /\ is_transmitter = FALSE /\ file_to_send = None
        /\ serial_port_baudrate = "B19200"
        /\ max_data_transfer = FRAME_SIZE /\ max_retries = 3
    BY DEF IInv, Meaning, AfterFile, AfterRate, AfterSize, AfterRetries, AfterPort
  <2> QED BY <2>1 DEF Meaning, AfterFile, AfterRate, AfterSize, AfterRetries, AfterPort
<1>7. UsageAccepted'
  <2>1. SUFFICES ASSUME BadFlag, Usage(argv) PROVE FALSE BY DEF UsageAccepted
  <2>2. PICK i \in 0..argc - 2 : argv[i + 1] \in Dashed \ Flags BY <2>1 DEF BadFlag, arg
  <2>3. CASE i = 0 BY <2>1, <2>2, <2>3 DEF Usage
  <2>4. CASE i # 0
    <3>1. i + 1 \in Options(argv) BY <1>1, <2>4 DEF Options, argc
    <3> QED BY <2>1, <2>2, <3>1 DEF Usage
  <2> QED BY <2>3, <2>4
<1>8. argv' \in Lines BY DEF IInv
<1> QED BY <1>4, <1>5, <1>6, <1>7, <1>8 DEF IInv

\* The indices are as they were, until the program fails.
LEMMA KeepIndices ==
  ASSUME IInv, UNCHANGED <<argv, index>>, at \in AfterFlags, at' \in AfterFlags \cup {"failed"},
         at \in AfterRetries => at' \in AfterRetries \cup {"failed"}
  PROVE  Indices'
<1>1. argc' = argc /\ BadFlag' = BadFlag /\ \A f \in Flags : LastIndex(f)' = LastIndex(f)
  BY SameLine
<1>2. CASE index = [f \in Flags |-> -1] /\ at \in AfterRetries /\ argc = 2
  BY <1>1, <1>2 DEF Indices
<1>3. CASE argc > 2 /\ ~BadFlag /\ index = [f \in Flags |-> LastIndex(f)]
  <2>1. index' = [f \in Flags |-> LastIndex(f)'] BY <1>1, <1>3
  <2> QED BY <1>1, <1>3, <2>1 DEF Indices
<1> QED BY <1>2, <1>3 DEF IInv, Indices, AfterFlags, AfterFile, AfterRate, AfterSize, AfterRetries, AfterPort

LEMMA StepFile == ASSUME IInv, read_file PROVE IInv'
<1> USE DEF read_file, Step
<1>1. argc' = argc /\ argc \in Nat BY SameLine DEF IInv, TypeOK, argc
<1>2. \A f \in Flags : Given(f)' = Given(f) /\ Value(f)' = Value(f) BY SameLine
<1>3. {"-t", "-i", "-b", "-p", "-r"} = Flags BY DEF Flags
<1>4. TypeOK' BY <1>1 DEF IInv, TypeOK
<1>5. Indices' BY KeepIndices DEF AfterFlags, AfterFile, AfterRate, AfterSize, AfterRetries, AfterPort
<1>6. Meaning'
  <2>1. /\ is_transmitter = FALSE /\ file_to_send = None
        /\ serial_port_baudrate = "B19200"
        /\ max_data_transfer = FRAME_SIZE /\ max_retries = 3
    BY DEF IInv, Meaning, AfterFlags, AfterFile, AfterRate, AfterSize, AfterRetries, AfterPort
  <2>2. CASE at' = "failed" BY <2>2 DEF Meaning, AfterFlags, AfterFile, AfterRate, AfterSize, AfterRetries, AfterPort
  <2>3. CASE at' = "baudrate"
    <3>1. at' \in AfterFile /\ at' \notin AfterRate /\ at' # "failed"
      BY <2>3 DEF AfterFlags, AfterFile, AfterRate, AfterSize, AfterRetries, AfterPort
    <3>2. is_transmitter' <=> Given("-t") \/ Given("-i") BY <2>1, <2>3 DEF FromDisk
    <3>3. file_to_send' = IF Given("-t") THEN basename[Value("-t")]
                          ELSE IF Given("-i") THEN "output" ELSE None
      BY <2>1, <2>3 DEF FromDisk
    <3>4. Given("-t") => Value("-t") \in Files BY <2>3 DEF FromDisk
    <3>5. at' \notin AfterSize /\ at' \notin AfterRetries /\ at' \notin AfterPort BY <2>3 DEF AfterFlags, AfterFile, AfterRate, AfterSize, AfterRetries, AfterPort
    <3> QED BY <1>2, <1>3, <2>1, <3>1, <3>2, <3>3, <3>4, <3>5 DEF Meaning
  <2> QED BY <2>2, <2>3
<1>7. UsageAccepted'
  <2>1. SUFFICES ASSUME at' = "failed", Usage(argv)
                 PROVE  \/ ~memory /\ (Has(argv, "-t") \/ Has(argv, "-i"))
                        \/ \E w \in Range(argv) \ Files : IsGiven(argv, "-t", w)
    BY DEF UsageAccepted
  <2>2. CASE Given("-t") /\ Value("-t") \notin Files
    <3>1. IsGiven(argv, "-t", Value("-t")) BY <1>3, <2>1, <2>2, GivenIsHas
    <3>2. Value("-t") \in Range(argv) BY <1>3, <2>2, GivenWord DEF Range
    <3> QED BY <2>2, <3>1, <3>2
  <2>3. CASE ~memory /\ (Given("-t") \/ Given("-i")) BY <1>3, <2>1, <2>3, GivenIsHas
  <2> QED BY <2>1, <2>2, <2>3 DEF FromDisk
<1>8. argv' \in Lines BY DEF IInv
<1> QED BY <1>4, <1>5, <1>6, <1>7, <1>8 DEF IInv

LEMMA StepBaudrate == ASSUME IInv, parse_baudrate_arg PROVE IInv'
<1> USE DEF parse_baudrate_arg, Step
<1>1. argc' = argc /\ argc \in Nat BY SameLine DEF IInv, TypeOK, argc
<1>2. \A f \in Flags : Given(f)' = Given(f) /\ Value(f)' = Value(f) BY SameLine
<1>3. {"-t", "-i", "-b", "-p", "-r"} = Flags BY DEF Flags
<1>4. TypeOK' BY <1>1 DEF IInv, TypeOK
<1>5. Indices' BY KeepIndices DEF AfterFlags, AfterFile, AfterRate, AfterSize, AfterRetries, AfterPort
<1>6. Meaning'
  <2>1. CASE at' = "failed" BY <2>1 DEF Meaning, AfterFlags, AfterFile, AfterRate, AfterSize, AfterRetries, AfterPort
  <2>2. CASE at' = "size"
    <3>1. at \in AfterFile /\ at' \in AfterFile /\ at' \in AfterRate /\ at' \notin AfterSize
      BY <2>2 DEF AfterFlags, AfterFile, AfterRate, AfterSize, AfterRetries, AfterPort
    <3>2. at \notin AfterRate /\ at \notin AfterSize BY DEF AfterFlags, AfterFile, AfterRate, AfterSize, AfterRetries, AfterPort
    <3>3. at' \notin AfterRetries /\ at' \notin AfterPort /\ at \notin AfterRetries
      BY <2>2 DEF AfterFlags, AfterFile, AfterRate, AfterSize, AfterRetries, AfterPort
    <3> QED BY <1>2, <1>3, <2>2, <3>1, <3>2, <3>3 DEF IInv, Meaning
  <2> QED BY <2>1, <2>2
<1>7. UsageAccepted'
  <2>1. SUFFICES ASSUME at' = "failed", Usage(argv)
                 PROVE  \E w \in Range(argv) \ Baudrates : IsGiven(argv, "-b", w)
    BY DEF UsageAccepted
  <2>2. Given("-b") /\ Value("-b") \notin Baudrates BY <2>1
  <2>3. IsGiven(argv, "-b", Value("-b")) BY <1>3, <2>1, <2>2, GivenIsHas DEF AfterFlags, AfterFile, AfterRate, AfterSize, AfterRetries, AfterPort
  <2>4. Value("-b") \in Range(argv) BY <1>3, <2>2, GivenWord DEF Range
  <2> QED BY <2>2, <2>3, <2>4
<1>8. argv' \in Lines BY DEF IInv
<1> QED BY <1>4, <1>5, <1>6, <1>7, <1>8 DEF IInv

LEMMA StepSize == ASSUME IInv, parse_max_packet_size PROVE IInv'
<1> USE DEF parse_max_packet_size, Step
<1>1. argc' = argc /\ argc \in Nat BY SameLine DEF IInv, TypeOK, argc
<1>2. \A f \in Flags : Given(f)' = Given(f) /\ Value(f)' = Value(f) BY SameLine
<1>3. {"-t", "-i", "-b", "-p", "-r"} = Flags BY DEF Flags
<1>4. TypeOK'
  <2>1. max_data_transfer' \in 0..FRAME_SIZE
    <3>1. CASE Given("-p")
      <4>1. atoi[Value("-p")] \in -(INT_MAX + 1)..INT_MAX BY <1>3, <3>1, GivenNumber
      <4> QED BY <3>1, <4>1, NumbersAssumption DEF SizeOf
    <3>2. CASE ~Given("-p") BY <3>2 DEF IInv, TypeOK
    <3> QED BY <3>1, <3>2
  <2> QED BY <1>1, <2>1 DEF IInv, TypeOK
<1>5. Indices' BY KeepIndices DEF AfterFlags, AfterFile, AfterRate, AfterSize, AfterRetries, AfterPort
<1>6. Meaning'
  <2>1. /\ at \in AfterFile /\ at' \in AfterFile /\ at \in AfterRate /\ at' \in AfterRate
        /\ at \notin AfterSize /\ at' \in AfterSize BY DEF AfterFlags, AfterFile, AfterRate, AfterSize, AfterRetries, AfterPort
  <2>2. at' \notin AfterRetries /\ at' \notin AfterPort /\ at \notin AfterRetries BY DEF AfterFlags, AfterFile, AfterRate, AfterSize, AfterRetries, AfterPort
  <2> QED BY <1>2, <1>3, <2>1, <2>2 DEF IInv, Meaning
<1>7. UsageAccepted' BY DEF UsageAccepted
<1>8. argv' \in Lines BY DEF IInv
<1> QED BY <1>4, <1>5, <1>6, <1>7, <1>8 DEF IInv

LEMMA StepRetries == ASSUME IInv, parse_max_retries PROVE IInv'
<1> USE DEF parse_max_retries, Step
<1>1. argc' = argc /\ argc \in Nat BY SameLine DEF IInv, TypeOK, argc
<1>2. \A f \in Flags : Given(f)' = Given(f) /\ Value(f)' = Value(f) BY SameLine
<1>3. {"-t", "-i", "-b", "-p", "-r"} = Flags BY DEF Flags
<1>4. TypeOK'
  <2>1. max_retries' \in -(INT_MAX + 1)..INT_MAX
    <3>1. CASE Given("-r")
      <4>1. atoi[Value("-r")] \in -(INT_MAX + 1)..INT_MAX BY <1>3, <3>1, GivenNumber
      <4> QED BY <3>1, <4>1, NumbersAssumption DEF AttemptsFor
    <3>2. CASE ~Given("-r") BY <3>2 DEF IInv, TypeOK
    <3> QED BY <3>1, <3>2
  <2> QED BY <1>1, <2>1 DEF IInv, TypeOK
<1>5. Indices' BY KeepIndices DEF AfterFlags, AfterFile, AfterRate, AfterSize, AfterRetries, AfterPort
<1>6. Meaning'
  <2>1. /\ at \in AfterFile /\ at' \in AfterFile /\ at \in AfterRate /\ at' \in AfterRate
        /\ at \in AfterSize /\ at' \in AfterSize BY DEF AfterFlags, AfterFile, AfterRate, AfterSize, AfterRetries, AfterPort
  <2>2. at' \in AfterRetries /\ at' \notin AfterPort /\ at \notin AfterRetries BY DEF AfterFlags, AfterFile, AfterRate, AfterSize, AfterRetries, AfterPort
  <2> QED BY <1>2, <1>3, <2>1, <2>2 DEF IInv, Meaning
<1>7. UsageAccepted' BY DEF UsageAccepted
<1>8. argv' \in Lines BY DEF IInv
<1> QED BY <1>4, <1>5, <1>6, <1>7, <1>8 DEF IInv

LEMMA StepPort == ASSUME IInv, parse_serial_port_arg PROVE IInv'
<1> USE DEF parse_serial_port_arg, Step
<1>1. argc' = argc /\ argc \in Nat BY SameLine DEF IInv, TypeOK, argc
<1>2. \A f \in Flags : Given(f)' = Given(f) /\ Value(f)' = Value(f) BY SameLine
<1>3. {"-t", "-i", "-b", "-p", "-r"} = Flags BY DEF Flags
<1>4. arg(argc - 1) = argv[argc]
  <2>1. (argc - 1) + 1 = argc BY <1>1
  <2> QED BY <2>1 DEF arg
<1>5. at' \in AfterPort \/ at' = "failed" BY DEF AfterFlags, AfterFile, AfterRate, AfterSize, AfterRetries, AfterPort
<1>6. TypeOK' BY <1>1, <1>4 DEF IInv, TypeOK
<1>7. Indices' BY KeepIndices DEF AfterFlags, AfterFile, AfterRate, AfterSize, AfterRetries, AfterPort
<1>8. Meaning'
  <2>1. CASE at' = "failed" BY <2>1 DEF Meaning, AfterFlags, AfterFile, AfterRate, AfterSize, AfterRetries, AfterPort
  <2>2. CASE at' \in AfterPort
    <3>1. /\ at \in AfterFile /\ at' \in AfterFile /\ at \in AfterRate /\ at' \in AfterRate
          /\ at \in AfterSize /\ at' \in AfterSize BY <2>2 DEF AfterFlags, AfterFile, AfterRate, AfterSize, AfterRetries, AfterPort
    <3>2. at \in AfterRetries /\ at' \in AfterRetries /\ at' # "failed" BY <2>2 DEF AfterFlags, AfterFile, AfterRate, AfterSize, AfterRetries, AfterPort
    <3>3. port' = argv[argc] /\ argv[argc] \in Ports BY <1>4, <2>2, <3>2
    <3> QED BY <1>1, <1>2, <1>3, <2>2, <3>1, <3>2, <3>3 DEF IInv, Meaning
  <2> QED BY <1>5, <2>1, <2>2
<1>9. UsageAccepted'
  <2>1. SUFFICES ASSUME at' = "failed", Usage(argv) PROVE FALSE BY DEF UsageAccepted
  <2>2. argv[argc] \notin Ports BY <1>4, <2>1
  <2> QED BY <2>1, <2>2 DEF Usage, argc
<1>10. argv' \in Lines BY DEF IInv
<1> QED BY <1>6, <1>7, <1>8, <1>9, <1>10 DEF IInv

LEMMA StepIInv == IInv /\ [Next]_vars => IInv'
<1> SUFFICES ASSUME IInv, [Next]_vars PROVE IInv' OBVIOUS
<1>1. CASE UNCHANGED vars
  <2> USE <1>1 DEF vars
  <2>1. /\ argc' = argc /\ BadFlag' = BadFlag
        /\ \A f \in Flags : LastIndex(f)' = LastIndex(f)
        /\ \A f \in Flags : Given(f)' = Given(f) /\ Value(f)' = Value(f) BY SameLine
  <2>2. {"-t", "-i", "-b", "-p", "-r"} = Flags BY DEF Flags
  <2>3. TypeOK' BY <2>1 DEF IInv, TypeOK
  <2>4. Indices'
    <3>1. [f \in Flags |-> LastIndex(f)'] = [f \in Flags |-> LastIndex(f)] BY <2>1
    <3> QED BY <2>1, <3>1 DEF IInv, Indices
  <2>5. Meaning' BY <2>1, <2>2 DEF IInv, Meaning
  <2>6. UsageAccepted' BY DEF IInv, UsageAccepted
  <2> QED BY <2>3, <2>4, <2>5, <2>6 DEF IInv
<1> QED BY <1>1, StepParse, StepFlags, StepFile, StepBaudrate, StepSize, StepRetries,
           StepPort DEF Next

-----------------------------------------------------------------------------
(* What follows.                                                           *)

LEMMA AlwaysIInv == Spec => []IInv
<1>1. Init => IInv BY InitIInv
<1>2. IInv /\ [Next]_vars => IInv' BY StepIInv
<1> QED BY <1>1, <1>2, PTL DEF Spec

\* The type invariant of the command line's program.
THEOREM CommandLineTypes == Spec => []TypeOK
<1>1. IInv => TypeOK BY DEF IInv
<1> QED BY <1>1, AlwaysIInv, PTL

\* A command line that follows the usage of help() is refused only for want of memory
\* for a file it asks to send, or over a file that cannot be read or a baudrate that
\* does not exist, for every set of lines.
THEOREM UsageIsAccepted == Spec => []UsageAccepted
<1>1. IInv => UsageAccepted BY DEF IInv
<1> QED BY <1>1, AlwaysIInv, PTL

LEMMA IInvAsUsed == IInv => AsUsed
<1> SUFFICES ASSUME IInv, Started, Usage(argv) PROVE AsUsed BY DEF AsUsed
<1>1. {"-t", "-i", "-b", "-p", "-r"} = Flags BY DEF Flags
<1>2. \A f \in Flags : /\ Given(f) <=> Has(argv, f)
                       /\ Given(f) => IsGiven(argv, f, Value(f))
                       /\ Given(f) => \A w \in STRING : IsGiven(argv, f, w) => w = Value(f)
  BY GivenIsHas DEF Started, AfterFlags, AfterFile, AfterRate, AfterSize, AfterRetries, AfterPort
<1>3. /\ at \in AfterFile /\ at \in AfterRate /\ at \in AfterSize /\ at \in AfterRetries
      /\ at \in AfterPort /\ at # "failed" BY DEF Started, AfterFlags, AfterFile, AfterRate, AfterSize, AfterRetries, AfterPort
<1>4. port = argv[argc] BY <1>3 DEF IInv, Meaning
<1>5. is_transmitter <=> Has(argv, "-t") \/ Has(argv, "-i")
  BY <1>1, <1>2, <1>3 DEF IInv, Meaning
<1>6. IF Has(argv, "-t")
      THEN \E w \in Files : IsGiven(argv, "-t", w) /\ file_to_send = basename[w]
      ELSE file_to_send = IF Has(argv, "-i") THEN "output" ELSE Defaults.file
  <2>1. /\ file_to_send = IF Given("-t") THEN basename[Value("-t")]
                          ELSE IF Given("-i") THEN "output" ELSE None
        /\ Given("-t") => Value("-t") \in Files
    BY <1>3 DEF IInv, Meaning
  <2> QED BY <1>1, <1>2, <2>1 DEF Defaults
<1>7. IF Has(argv, "-b") THEN IsGiven(argv, "-b", serial_port_baudrate)
      ELSE serial_port_baudrate = Defaults.baudrate
  <2>1. serial_port_baudrate = IF Given("-b") THEN Value("-b") ELSE "B19200"
    BY <1>3 DEF IInv, Meaning
  <2> QED BY <1>1, <1>2, <2>1 DEF Defaults
<1>8. max_data_transfer = IF Given("-p") THEN SizeOf(atoi[Value("-p")]) ELSE FRAME_SIZE
  BY <1>3 DEF IInv, Meaning
<1>9. max_retries = IF Given("-r") THEN AttemptsFor(atoi[Value("-r")]) ELSE 3
  BY <1>3 DEF IInv, Meaning
<1>10. ~Has(argv, "-p") => max_data_transfer = Defaults.size
  BY <1>1, <1>2, <1>8 DEF Defaults
<1>11. ~Has(argv, "-r") => max_retries = Defaults.retries
  BY <1>1, <1>2, <1>9 DEF Defaults
<1>12. ASSUME NEW w \in Range(argv)
       PROVE /\ IsGiven(argv, "-p", w) /\ atoi[w] \in 1..FRAME_SIZE => max_data_transfer = atoi[w]
             /\ IsGiven(argv, "-r", w) /\ atoi[w] \in 1..INT_MAX - 1 => max_retries = atoi[w] + 1
  <2>1. w \in STRING BY <1>12 DEF IInv, TypeOK, Range
  <2>2. \A f \in Flags : IsGiven(argv, f, w) => Given(f) /\ w = Value(f)
    BY <1>2, <2>1 DEF IsGiven, Has
  <2>3. ASSUME IsGiven(argv, "-p", w), atoi[w] \in 1..FRAME_SIZE PROVE max_data_transfer = atoi[w]
    <3>1. max_data_transfer = SizeOf(atoi[w]) BY <1>1, <1>8, <2>2, <2>3
    <3> QED BY <2>3, <3>1, NumbersAssumption DEF SizeOf
  <2>4. ASSUME IsGiven(argv, "-r", w), atoi[w] \in 1..INT_MAX - 1 PROVE max_retries = atoi[w] + 1
    <3>1. max_retries = AttemptsFor(atoi[w]) BY <1>1, <1>9, <2>2, <2>4
    <3> QED BY <2>4, <3>1, NumbersAssumption DEF AttemptsFor
  <2> QED BY <2>3, <2>4
<1> QED BY <1>4, <1>5, <1>6, <1>7, <1>10, <1>11, <1>12 DEF AsUsed

\* A command line that follows the usage means what the usage says, for every set
\* of lines, words and numbers.
THEOREM UsageIsMeaning == Spec => []AsUsed
BY AlwaysIInv, IInvAsUsed, PTL

LEMMA IInvReady == IInv => ReadyToTransfer
<1> SUFFICES ASSUME IInv, Started PROVE ReadyToTransfer BY DEF ReadyToTransfer
<1>1. {"-t", "-i", "-b", "-p", "-r"} = Flags BY DEF Flags
<1>2. at \in AfterFile /\ at \in AfterRetries /\ at # "failed" BY DEF Started, AfterFlags, AfterFile, AfterRate, AfterSize, AfterRetries, AfterPort
<1>3. max_retries >= 1 <=> ~(Given("-r") /\ atoi[Value("-r")] = INT_MAX)
  <2>1. max_retries = IF Given("-r") THEN AttemptsFor(atoi[Value("-r")]) ELSE 3
    BY <1>2 DEF IInv, Meaning
  <2>2. CASE Given("-r")
    <3>1. atoi[Value("-r")] \in -(INT_MAX + 1)..INT_MAX BY <1>1, <2>2, GivenNumber
    <3> QED BY <2>1, <2>2, <3>1, NumbersAssumption DEF AttemptsFor
  <2> QED BY <2>1, <2>2
<1>4. max_data_transfer \in 0..FRAME_SIZE BY DEF IInv, TypeOK
<1>5. is_transmitter <=> file_to_send # None
  BY <1>2, WordsAssumption DEF IInv, Meaning, None
<1>6. port \in Ports BY DEF Started, IInv, Meaning, AfterPort
<1> QED BY <1>3, <1>4, <1>5, <1>6 DEF ReadyToTransfer

\* send_file and receive_file are called with one of the ports, with a size that fits
\* and a file in the transmitter only, and with fewer than one attempt exactly when the
\* retries asked for are as many as an int can count: for every set of lines.
THEOREM TransferIsReady == Spec => []ReadyToTransfer
BY AlwaysIInv, IInvReady, PTL
=============================================================================
