-------------------------- MODULE FrameCodecProofs --------------------------
(***************************************************************************)
(* Theorems about FrameCodec, for frames of any number, length and         *)
(* content, and any buffer: first exclusive or, then what the recursive    *)
(* functions compute (stuffing, the check byte, the rounds of the parser), *)
(* then what the parser makes of a frame that came as it was sent and of   *)
(* one with a flipped bit, and last the reader's way along the line.       *)
(***************************************************************************)
EXTENDS FrameCodec, WellFoundedInduction, TLAPS

-----------------------------------------------------------------------------
(* Exclusive or.                                                           *)

LEMMA SumBits ==
  ASSUME NEW a \in 0..1, NEW b \in 0..1, NEW c \in 0..1, NEW d \in 0..1,
         NEW e \in 0..1, NEW f \in 0..1, NEW g \in 0..1, NEW h \in 0..1
  PROVE  LET s == a + 2 * b + 4 * c + 8 * d + 16 * e + 32 * f + 64 * g + 128 * h IN
         /\ s \in Byte
         /\ Bit(s, 1) = a /\ Bit(s, 2) = b /\ Bit(s, 4) = c /\ Bit(s, 8) = d
         /\ Bit(s, 16) = e /\ Bit(s, 32) = f /\ Bit(s, 64) = g /\ Bit(s, 128) = h
<1> DEFINE s == a + 2 * b + 4 * c + 8 * d + 16 * e + 32 * f + 64 * g + 128 * h
<1>1. s \in Byte BY DEF Byte
<1>2. Bit(s, 1) = a /\ Bit(s, 2) = b BY DEF Bit
<1>3. Bit(s, 4) = c /\ Bit(s, 8) = d BY DEF Bit
<1>4. Bit(s, 16) = e /\ Bit(s, 32) = f BY DEF Bit
<1>5. Bit(s, 64) = g /\ Bit(s, 128) = h BY DEF Bit
<1> QED BY <1>1, <1>2, <1>3, <1>4, <1>5

\* A byte is its bits.
LEMMA ByteBits ==
  ASSUME NEW x \in Byte
  PROVE  x = Bit(x, 1) + 2 * Bit(x, 2) + 4 * Bit(x, 4) + 8 * Bit(x, 8)
               + 16 * Bit(x, 16) + 32 * Bit(x, 32) + 64 * Bit(x, 64) + 128 * Bit(x, 128)
BY DEF Bit, Byte

LEMMA BitIsBit ==
  ASSUME NEW x \in Byte, NEW b \in Bits
  PROVE  Bit(x, b) \in 0..1
BY DEF Bit, Byte, Bits

LEMMA SameBits ==
  ASSUME NEW x \in Byte, NEW y \in Byte, \A b \in Bits : Bit(x, b) = Bit(y, b)
  PROVE  x = y
BY ByteBits DEF Bits

\* The bits of an exclusive or.
LEMMA XorBits ==
  ASSUME NEW x \in Byte, NEW y \in Byte
  PROVE  /\ Xor(x, y) \in Byte
         /\ \A b \in Bits : Bit(Xor(x, y), b) = (Bit(x, b) + Bit(y, b)) % 2
<1> DEFINE o(b) == (Bit(x, b) + Bit(y, b)) % 2
<1>1. \A b \in Bits : o(b) \in 0..1 BY BitIsBit
<1>2. Xor(x, y) = o(1) + 2 * o(2) + 4 * o(4) + 8 * o(8) + 16 * o(16) + 32 * o(32)
                    + 64 * o(64) + 128 * o(128)
  <2>1. 1 * o(1) = o(1) BY <1>1 DEF Bits
  <2> QED BY <2>1 DEF Xor
<1> HIDE DEF o
<1> DEFINE s == Xor(x, y)
<1>3. /\ s \in Byte
      /\ Bit(s, 1) = o(1) /\ Bit(s, 2) = o(2) /\ Bit(s, 4) = o(4) /\ Bit(s, 8) = o(8)
      /\ Bit(s, 16) = o(16) /\ Bit(s, 32) = o(32) /\ Bit(s, 64) = o(64) /\ Bit(s, 128) = o(128)
  <2> HIDE DEF s
  <2>1. /\ o(1) \in 0..1 /\ o(2) \in 0..1 /\ o(4) \in 0..1 /\ o(8) \in 0..1
        /\ o(16) \in 0..1 /\ o(32) \in 0..1 /\ o(64) \in 0..1 /\ o(128) \in 0..1
    BY <1>1 DEF Bits
  <2> QED BY <1>2, <2>1, SumBits DEF s
<1> QED BY <1>3 DEF Bits, o

LEMMA XorByte == \A x, y \in Byte : Xor(x, y) \in Byte
BY XorBits

LEMMA XorCommutes ==
  ASSUME NEW x \in Byte, NEW y \in Byte
  PROVE  Xor(x, y) = Xor(y, x)
<1>1. \A b \in Bits : Bit(x, b) + Bit(y, b) = Bit(y, b) + Bit(x, b) BY BitIsBit
<1> QED BY <1>1, XorBits, SameBits

LEMMA XorAssociates ==
  ASSUME NEW x \in Byte, NEW y \in Byte, NEW z \in Byte
  PROVE  Xor(Xor(x, y), z) = Xor(x, Xor(y, z))
<1>1. Xor(x, y) \in Byte /\ Xor(y, z) \in Byte BY XorByte
<1>2. ASSUME NEW b \in Bits
      PROVE  Bit(Xor(Xor(x, y), z), b) = Bit(Xor(x, Xor(y, z)), b)
  <2> DEFINE u == Bit(Xor(x, y), b)
             v == Bit(Xor(y, z), b)
  <2>1. u = (Bit(x, b) + Bit(y, b)) % 2 /\ v = (Bit(y, b) + Bit(z, b)) % 2 BY XorBits
  <2>2. /\ Bit(Xor(Xor(x, y), z), b) = (u + Bit(z, b)) % 2
        /\ Bit(Xor(x, Xor(y, z)), b) = (Bit(x, b) + v) % 2
    BY <1>1, XorBits
  <2>3. Bit(x, b) \in 0..1 /\ Bit(y, b) \in 0..1 /\ Bit(z, b) \in 0..1 BY BitIsBit
  <2> HIDE DEF u, v
  <2> QED BY <2>1, <2>2, <2>3
<1> QED BY <1>1, <1>2, XorByte, SameBits

LEMMA XorZero ==
  ASSUME NEW x \in Byte
  PROVE  Xor(x, 0) = x /\ Xor(0, x) = x /\ Xor(x, x) = 0
<1>1. 0 \in Byte /\ \A b \in Bits : Bit(0, b) = 0 BY DEF Byte, Bit, Bits
<1>2. \A b \in Bits : (Bit(x, b) + 0) % 2 = Bit(x, b) /\ (Bit(x, b) + Bit(x, b)) % 2 = 0
  BY BitIsBit
<1>3. Xor(x, 0) \in Byte /\ \A b \in Bits : Bit(Xor(x, 0), b) = Bit(x, b)
  BY <1>1, <1>2, XorBits
<1>4. Xor(x, x) \in Byte /\ \A b \in Bits : Bit(Xor(x, x), b) = Bit(0, b)
  BY <1>1, <1>2, XorBits
<1>5. Xor(x, 0) = x BY <1>3, SameBits
<1>6. Xor(x, x) = 0 BY <1>1, <1>4, SameBits
<1> QED BY <1>1, <1>5, <1>6, XorCommutes

\* What undoes an exclusive or.
LEMMA XorTwice ==
  ASSUME NEW x \in Byte, NEW y \in Byte
  PROVE  /\ Xor(Xor(x, y), y) = x /\ Xor(x, Xor(x, y)) = y
         /\ Xor(x, y) = 0 <=> x = y
<1>1. Xor(Xor(x, y), y) = x /\ Xor(x, Xor(x, y)) = y
  BY XorAssociates, XorZero, XorByte
<1>2. Xor(x, y) = 0 => x = y
  BY <1>1, XorZero
<1> QED BY <1>1, <1>2, XorZero

LEMMA XorInjective ==
  ASSUME NEW x \in Byte, NEW y \in Byte, NEW z \in Byte, Xor(x, z) = Xor(y, z) \/ Xor(z, x) = Xor(z, y)
  PROVE  x = y
BY XorTwice, XorCommutes

\* The bytes that the code treats apart.
LEMMA Codes ==
  /\ FLAG \in Byte /\ BS_ESC \in Byte /\ BS_OCT \in Byte /\ A \in Byte /\ 0 \in Byte
  /\ FLAG # BS_ESC /\ Xor(BS_OCT, FLAG) = 94 /\ Xor(BS_OCT, BS_ESC) = 93
  /\ Bits \subseteq Byte /\ 0 \notin Bits
  /\ Xor(FLAG, BS_ESC) = 3 /\ 3 \notin Bits /\ 93 \notin Bits /\ 93 \in Byte
  /\ FLAG \notin Bits /\ Xor(FLAG, 93) = 35 /\ 35 \notin Bits
BY DEF FLAG, BS_ESC, BS_OCT, A, Byte, Bits, Xor, Bit
-----------------------------------------------------------------------------
(* Loops.                                                                  *)

LEMMA Least ==
  ASSUME NEW S, S \subseteq Nat, S # {}
  PROVE  \E m \in S : \A k \in S : m <= k
<1>1. PICK m \in S : \A k \in S : ~(<<k, m>> \in OpToRel(<, Nat))
  BY NatLessThanWellFounded, WFMin
<1>2. ASSUME NEW k \in S PROVE m <= k
  <2>1. ~(k < m) BY <1>1 DEF OpToRel
  <2> QED BY <2>1
<1> QED BY <1>2

\* Induction, for a set of numbers.
LEMMA Induct ==
  ASSUME NEW N \in Nat, NEW S, 0 \in S, \A i \in 1..N : i - 1 \in S => i \in S
  PROVE  \A i \in 0..N : i \in S
<1> DEFINE T == {i \in 0..N : i \notin S}
<1>1. SUFFICES ASSUME T # {} PROVE FALSE OBVIOUS
<1>2. T \subseteq Nat OBVIOUS
<1>3. PICK m \in T : \A k \in T : m <= k
  <2> HIDE DEF T
  <2> QED BY <1>1, <1>2, Least
<1>4. m # 0 /\ m \in 1..N /\ m - 1 \in 0..N /\ ~(m <= m - 1) OBVIOUS
<1>5. m - 1 \in S BY <1>3, <1>4
<1> QED BY <1>4, <1>5

\* The results of a loop of N rounds after each of them.
Runs(S, s0, F, N) ==
  {f \in [0..N -> S] : f[0] = s0 /\ \A i \in 1..N : f[i] = F[i][f[i - 1]]}

\* A loop whose rounds have a result in S has one after each of them.
LEMMA Recursion ==
  ASSUME NEW S, NEW s0 \in S, NEW N \in Nat, NEW F \in [1..N -> [S -> S]]
  PROVE  Runs(S, s0, F, N) # {}
<1> DEFINE T == {n \in 0..N : Runs(S, s0, F, n) # {}}
<1>1. 0 \in T
  <2>1. [i \in 0..0 |-> s0] \in Runs(S, s0, F, 0) BY DEF Runs
  <2> QED BY <2>1
<1>2. ASSUME NEW n \in 1..N, n - 1 \in T PROVE n \in T
  <2>1. PICK f : f \in Runs(S, s0, F, n - 1) BY <1>2
  <2> DEFINE g == [i \in 0..n |-> IF i = n THEN F[n][f[n - 1]] ELSE f[i]]
  <2>2. f \in [0..n - 1 -> S] /\ f[0] = s0 /\ \A i \in 1..n - 1 : f[i] = F[i][f[i - 1]]
    BY <2>1 DEF Runs
  <2>3. F[n][f[n - 1]] \in S BY <2>2
  <2>4. g \in [0..n -> S] BY <2>2, <2>3
  <2>5. g[0] = s0 BY <2>2
  <2>6. ASSUME NEW i \in 1..n PROVE g[i] = F[i][g[i - 1]]
    <3>1. g[i - 1] = f[i - 1] OBVIOUS
    <3>2. CASE i = n BY <3>1, <3>2
    <3>3. CASE i # n
      <4>1. i \in 1..n - 1 BY <3>3
      <4> QED BY <2>2, <3>1, <3>3, <4>1
    <3> QED BY <3>2, <3>3
  <2> HIDE DEF g
  <2>7. g \in Runs(S, s0, F, n) BY <2>4, <2>5, <2>6 DEF Runs
  <2> QED BY <2>7
<1>3. \A n \in 0..N : n \in T
  <2> HIDE DEF T
  <2> QED BY <1>1, <1>2, Induct
<1> QED BY <1>3

-----------------------------------------------------------------------------
(* The check byte.                                                         *)

\* The check byte of the first i bytes, for each i.
Checks(e, B) ==
  /\ B \in [0..Len(e) -> Byte]
  /\ B[0] = 0
  /\ \A i \in 1..Len(e) : B[i] = Xor(B[i - 1], e[i])

LEMMA BccChecks ==
  ASSUME NEW e \in Seq(Byte)
  PROVE  \E B : Checks(e, B) /\ Bcc(e) = B[Len(e)]
<1> DEFINE N == Len(e)
           F == [i \in 1..N |-> [x \in Byte |-> Xor(x, e[i])]]
           Is(B) == B = [i \in 0..N |-> IF i = 0 THEN 0 ELSE Xor(B[i - 1], e[i])]
           bcc == CHOOSE B : Is(B)
<1>1. N \in Nat /\ 0 \in Byte /\ \A i \in 1..N : e[i] \in Byte BY Codes
<1>2. F \in [1..N -> [Byte -> Byte]] BY <1>1, XorByte
<1>3. PICK B \in [0..N -> Byte] : B[0] = 0 /\ \A i \in 1..N : B[i] = F[i][B[i - 1]]
  <2>1. Runs(Byte, 0, F, N) # {}
    <3> HIDE DEF F, N
    <3> QED BY <1>1, <1>2, Recursion
  <2> HIDE DEF F, N
  <2> QED BY <2>1 DEF Runs
<1>4. \A i \in 1..N : B[i] = Xor(B[i - 1], e[i])
  <2>1. ASSUME NEW i \in 1..N PROVE B[i] = Xor(B[i - 1], e[i])
    <3>1. B[i - 1] \in Byte BY <1>3
    <3>2. F[i][B[i - 1]] = Xor(B[i - 1], e[i]) BY <3>1
    <3> QED BY <1>3, <3>2
  <2> QED BY <2>1
<1>5. Is(B) BY <1>3, <1>4
<1>6. bcc = [i \in 0..N |-> IF i = 0 THEN 0 ELSE Xor(bcc[i - 1], e[i])] BY <1>5
<1>7. Bcc(e) = bcc[N] BY DEF Bcc
<1> HIDE DEF bcc
<1>8. \A i \in 0..N : bcc[i] = IF i = 0 THEN 0 ELSE Xor(bcc[i - 1], e[i]) BY <1>6, Zenon
<1>9. bcc[0] = 0 /\ \A i \in 1..N : bcc[i] = Xor(bcc[i - 1], e[i]) BY <1>1, <1>8
<1>10. \A i \in 0..N : bcc[i] \in Byte
  <2> DEFINE T == {i \in 0..N : bcc[i] \in Byte}
  <2>1. 0 \in T BY <1>1, <1>9
  <2>2. ASSUME NEW i \in 1..N, i - 1 \in T PROVE i \in T
    BY <1>1, <1>9, <2>2, XorByte
  <2>3. \A i \in 0..N : i \in T
    <3> HIDE DEF T
    <3> QED BY <1>1, <2>1, <2>2, Induct
  <2> QED BY <2>3
<1>11. bcc \in [0..N -> Byte]
  <2>1. bcc = [i \in 0..N |-> bcc[i]] BY <1>6, <1>8
  <2> QED BY <1>10, <2>1
<1> QED BY <1>7, <1>9, <1>11 DEF Checks

\* There is one such function.
LEMMA BccIs ==
  ASSUME NEW e \in Seq(Byte), NEW B, Checks(e, B)
  PROVE  Bcc(e) = B[Len(e)]
<1>1. PICK C : Checks(e, C) /\ Bcc(e) = C[Len(e)] BY BccChecks
<1> DEFINE T == {i \in 0..Len(e) : B[i] = C[i]}
<1>2. 0 \in T BY <1>1 DEF Checks
<1>3. ASSUME NEW i \in 1..Len(e), i - 1 \in T PROVE i \in T
  BY <1>1, <1>3 DEF Checks
<1>4. \A i \in 0..Len(e) : i \in T
  <2> HIDE DEF T
  <2>1. Len(e) \in Nat OBVIOUS
  <2> QED BY <1>2, <1>3, <2>1, Induct
<1>5. Len(e) \in 0..Len(e) OBVIOUS
<1> QED BY <1>1, <1>4, <1>5

\* The bytes that are stuffed, with their check byte: the exclusive or of all but the
\* last is the last.
LEMMA ChecksOfFrame ==
  ASSUME NEW d \in Seq(Byte)
  PROVE  LET e == Append(d, Bcc(d)) IN
         /\ Bcc(d) \in Byte /\ e \in Seq(Byte) /\ Len(e) = Len(d) + 1
         /\ \E B : Checks(e, B) /\ B[Len(d)] = e[Len(e)]
<1> DEFINE e == Append(d, Bcc(d))
<1>1. Bcc(d) \in Byte
  <2>1. PICK B : Checks(d, B) /\ Bcc(d) = B[Len(d)] BY BccChecks
  <2> QED BY <2>1 DEF Checks
<1>2. /\ e \in Seq(Byte) /\ Len(e) = Len(d) + 1 /\ e[Len(e)] = Bcc(d)
      /\ \A i \in 1..Len(d) : e[i] = d[i]
  BY <1>1
<1> HIDE DEF e
<1>3. PICK B : Checks(e, B) BY <1>2, BccChecks
<1> DEFINE C == [i \in 0..Len(d) |-> B[i]]
<1>4. Checks(d, C) BY <1>2, <1>3 DEF Checks
<1>5. Bcc(d) = C[Len(d)]
  <2> HIDE DEF C
  <2> QED BY <1>4, BccIs
<1>6. B[Len(d)] = e[Len(e)] BY <1>2, <1>5
<1> QED BY <1>1, <1>2, <1>3, <1>6 DEF e

-----------------------------------------------------------------------------
(* Stuffing.                                                               *)

LEMMA StuffedByte ==
  ASSUME NEW c \in Byte
  PROVE  Stuffed(c) \in Seq(Byte) /\ Len(Stuffed(c)) \in 1..2
<1>1. Xor(BS_OCT, c) \in Byte BY XorByte, Codes
<1> QED BY <1>1, Codes DEF Stuffed

\* What has been written after each byte.
Dests(e, D) ==
  /\ D \in [0..Len(e) -> Seq(Byte)]
  /\ D[0] = <<>>
  /\ \A i \in 1..Len(e) : D[i] = D[i - 1] \o Stuffed(e[i])

LEMMA StuffingDests ==
  ASSUME NEW e \in Seq(Byte)
  PROVE  \E D : Dests(e, D) /\ StuffedBytes(e) = D[Len(e)]
<1> DEFINE N == Len(e)
           F == [i \in 1..N |-> [x \in Seq(Byte) |-> x \o Stuffed(e[i])]]
           Is(D) == D = [i \in 0..N |-> IF i = 0 THEN <<>> ELSE D[i - 1] \o Stuffed(e[i])]
           dest == CHOOSE D : Is(D)
<1>1. N \in Nat /\ \A i \in 1..N : e[i] \in Byte OBVIOUS
<1>2. \A i \in 1..N : \A x \in Seq(Byte) : x \o Stuffed(e[i]) \in Seq(Byte)
  BY <1>1, StuffedByte
<1>3. PICK D \in [0..N -> Seq(Byte)] : D[0] = <<>> /\ \A i \in 1..N : D[i] = F[i][D[i - 1]]
  <2>1. F \in [1..N -> [Seq(Byte) -> Seq(Byte)]] BY <1>2
  <2>2. Runs(Seq(Byte), <<>>, F, N) # {}
    <3>1. <<>> \in Seq(Byte) OBVIOUS
    <3> HIDE DEF F, N
    <3> QED BY <1>1, <2>1, <3>1, Recursion
  <2> HIDE DEF F, N
  <2> QED BY <2>2 DEF Runs
<1>4. \A i \in 1..N : D[i] = D[i - 1] \o Stuffed(e[i])
  <2>1. ASSUME NEW i \in 1..N PROVE D[i] = D[i - 1] \o Stuffed(e[i])
    <3>1. D[i - 1] \in Seq(Byte) BY <1>3
    <3>2. F[i][D[i - 1]] = D[i - 1] \o Stuffed(e[i]) BY <3>1
    <3> QED BY <1>3, <3>2
  <2> QED BY <2>1
<1>5. Is(D)
  <2> DEFINE g == [i \in 0..N |-> IF i = 0 THEN <<>> ELSE D[i - 1] \o Stuffed(e[i])]
  <2>1. ASSUME NEW i \in 0..N PROVE D[i] = g[i]
    <3>1. CASE i = 0 BY <1>3, <3>1
    <3>2. CASE i # 0
      <4>1. i \in 1..N BY <3>2
      <4>2. g[i] = D[i - 1] \o Stuffed(e[i]) BY <3>2, Zenon
      <4> QED BY <1>4, <4>1, <4>2
    <3> QED BY <3>1, <3>2
  <2>2. DOMAIN g = 0..N BY Zenon
  <2>3. D = [i \in 0..N |-> D[i]] /\ g = [i \in 0..N |-> g[i]] BY <1>3
  <2> HIDE DEF g
  <2>4. D = g BY <2>1, <2>3, Zenon
  <2> QED BY <2>4 DEF g
<1>6. dest = [i \in 0..N |-> IF i = 0 THEN <<>> ELSE dest[i - 1] \o Stuffed(e[i])] BY <1>5
<1>7. StuffedBytes(e) = dest[N] BY DEF StuffedBytes
<1> HIDE DEF dest
<1>8. \A i \in 0..N : dest[i] = IF i = 0 THEN <<>> ELSE dest[i - 1] \o Stuffed(e[i])
  BY <1>6, Zenon
<1>9. dest[0] = <<>> /\ \A i \in 1..N : dest[i] = dest[i - 1] \o Stuffed(e[i])
  <2>1. 0 \in 0..N /\ \A i \in 1..N : i \in 0..N /\ i # 0 OBVIOUS
  <2> HIDE DEF N
  <2> QED BY <1>8, <2>1, Zenon
<1>10. \A i \in 0..N : dest[i] \in Seq(Byte)
  <2> DEFINE T == {i \in 0..N : dest[i] \in Seq(Byte)}
  <2>1. 0 \in T
    <3>1. <<>> \in Seq(Byte) /\ 0 \in 0..N OBVIOUS
    <3> QED BY <1>9, <3>1, Zenon
  <2>2. ASSUME NEW i \in 1..N, i - 1 \in T PROVE i \in T
    <3>1. dest[i - 1] \in Seq(Byte) BY <2>2
    <3>2. dest[i] \in Seq(Byte) BY <1>2, <1>9, <3>1, Zenon
    <3>3. i \in 0..N OBVIOUS
    <3> QED BY <3>2, <3>3
  <2>3. \A i \in 0..N : i \in T
    <3> HIDE DEF T
    <3> QED BY <1>1, <2>1, <2>2, Induct
  <2> QED BY <2>3
<1>11. dest \in [0..N -> Seq(Byte)]
  <2>1. dest = [i \in 0..N |-> dest[i]] BY <1>6, <1>8
  <2> QED BY <1>10, <2>1
<1> QED BY <1>7, <1>9, <1>11 DEF Dests

\* Byte i of e stands in t from place ln[i - 1] + 1 to ln[i].
Unit(e, t, ln, i) ==
  IF e[i] \in {FLAG, BS_ESC}
  THEN ln[i] = ln[i - 1] + 2 /\ t[ln[i - 1] + 1] = BS_ESC /\ t[ln[i - 1] + 2] = Xor(BS_OCT, e[i])
  ELSE ln[i] = ln[i - 1] + 1 /\ t[ln[i - 1] + 1] = e[i]

Units(e, t, ln) ==
  /\ t \in Seq(Byte) /\ ln \in [0..Len(e) -> Nat]
  /\ ln[0] = 0 /\ Len(t) = ln[Len(e)]
  /\ \A i \in 1..Len(e) : Unit(e, t, ln, i)

Joined(t, s, u) ==
  /\ t \in Seq(Byte) /\ Len(t) = Len(s) + Len(u)
  /\ \A q \in 1..Len(s) : t[q] = s[q]
  /\ \A q \in 1..Len(u) : t[Len(s) + q] = u[q]

LEMMA Concatenated ==
  ASSUME NEW s \in Seq(Byte), NEW u \in Seq(Byte)
  PROVE  Joined(s \o u, s, u)
BY DEF Joined

LEMMA StuffedUnits ==
  ASSUME NEW e \in Seq(Byte)
  PROVE  \E ln : Units(e, StuffedBytes(e), ln)
<1>1. PICK D : Dests(e, D) /\ StuffedBytes(e) = D[Len(e)] BY StuffingDests
<1> DEFINE N == Len(e)
           ln == [i \in 0..N |-> Len(D[i])]
           T == {k \in 0..N : /\ \A i \in 0..k : ln[i] <= ln[k]
                              /\ \A i \in 1..k : Unit(e, D[k], ln, i)}
<1>2. N \in Nat /\ \A i \in 1..N : e[i] \in Byte OBVIOUS
<1>3. /\ D[0] = <<>> /\ \A i \in 1..N : D[i] = D[i - 1] \o Stuffed(e[i])
      /\ \A i \in 0..N : D[i] \in Seq(Byte)
  BY <1>1 DEF Dests
<1>4. /\ \A i \in 0..N : ln[i] = Len(D[i]) /\ ln[i] \in Nat
      /\ ln[0] = 0 /\ ln \in [0..N -> Nat]
  BY <1>2, <1>3
<1> HIDE DEF ln
<1>5. 0 \in T BY <1>2, <1>4
<1>6. ASSUME NEW k \in 1..N, k - 1 \in T PROVE k \in T
  <2> DEFINE s == D[k - 1]
             u == Stuffed(e[k])
             m == ln[k - 1]
  <2>1. /\ k - 1 \in 0..N /\ k \in 0..N
        /\ s \in Seq(Byte) /\ Len(s) = m /\ D[k] = s \o u /\ ln[k] = Len(D[k])
    <3>1. k - 1 \in 0..N /\ k \in 0..N OBVIOUS
    <3> HIDE DEF N
    <3> QED BY <1>3, <1>4, <3>1, Zenon
  <2>2. u \in Seq(Byte) /\ Len(u) \in 1..2 BY <1>2, StuffedByte
  <2>3. /\ ln[k] = m + Len(u)
        /\ \A q \in 1..m : D[k][q] = s[q]
        /\ \A q \in 1..Len(u) : D[k][m + q] = u[q]
    <3> HIDE DEF s, u, m
    <3>1. Joined(s \o u, s, u) BY <2>1, <2>2, Concatenated, Zenon
    <3> QED BY <2>1, <3>1, Zenon DEF Joined
  <2>4. Unit(e, D[k], ln, k)
    <3>1. CASE e[k] \in {FLAG, BS_ESC}
      <4>1. u = <<BS_ESC, Xor(BS_OCT, e[k])>> BY <3>1 DEF Stuffed
      <4>2. Len(u) = 2 /\ u[1] = BS_ESC /\ u[2] = Xor(BS_OCT, e[k]) BY <4>1
      <4>3. 1 \in 1..Len(u) /\ 2 \in 1..Len(u) BY <4>2
      <4> HIDE DEF u
      <4> QED BY <2>3, <3>1, <4>2, <4>3 DEF Unit
    <3>2. CASE e[k] \notin {FLAG, BS_ESC}
      <4>1. u = <<e[k]>> BY <3>2 DEF Stuffed
      <4>2. Len(u) = 1 /\ u[1] = e[k] /\ 1 \in 1..Len(u) BY <4>1
      <4> HIDE DEF u
      <4> QED BY <2>3, <3>2, <4>2 DEF Unit
    <3> QED BY <3>1, <3>2
  <2>5. \A i \in 0..k - 1 : ln[i] <= m /\ ln[i] \in Nat BY <1>4, <1>6
  <2>6. m \in Nat /\ \A i \in 0..k : ln[i] <= ln[k]
    <3> HIDE DEF u
    <3> QED BY <1>4, <2>1, <2>2, <2>3, <2>5
  <2>7. ASSUME NEW i \in 1..k - 1 PROVE Unit(e, D[k], ln, i)
    <3>1. Unit(e, s, ln, i) BY <1>6
    <3>2. ln[i - 1] \in Nat /\ ln[i] <= m /\ ln[i] \in Nat BY <2>5
    <3> HIDE DEF s, m
    <3> DEFINE a == ln[i - 1]
               z == ln[i]
    <3>3. a \in Nat /\ z \in Nat /\ z <= m BY <3>2
    <3>4. CASE e[i] \in {FLAG, BS_ESC}
      <4>1. z = a + 2 /\ s[a + 1] = BS_ESC /\ s[a + 2] = Xor(BS_OCT, e[i])
        BY <3>1, <3>4 DEF Unit
      <4>2. a + 1 \in 1..m /\ a + 2 \in 1..m
        <5> HIDE DEF a, z
        <5> QED BY <2>6, <3>3, <4>1
      <4> QED BY <2>3, <3>4, <4>1, <4>2 DEF Unit
    <3>5. CASE e[i] \notin {FLAG, BS_ESC}
      <4>1. z = a + 1 /\ s[a + 1] = e[i] BY <3>1, <3>5 DEF Unit
      <4>2. a + 1 \in 1..m
        <5> HIDE DEF a, z
        <5> QED BY <2>6, <3>3, <4>1
      <4> QED BY <2>3, <3>5, <4>1, <4>2 DEF Unit
    <3> QED BY <3>4, <3>5
  <2>8. \A i \in 1..k : i \in 1..k - 1 \/ i = k OBVIOUS
  <2> QED BY <2>1, <2>4, <2>6, <2>7, <2>8
<1>7. \A k \in 0..N : k \in T
  <2> HIDE DEF T
  <2> QED BY <1>2, <1>5, <1>6, Induct
<1>8. N \in 0..N BY <1>2
<1>9. \A i \in 1..N : Unit(e, D[N], ln, i) BY <1>7, <1>8
<1>10. Len(D[N]) = ln[N] /\ D[N] \in Seq(Byte) BY <1>3, <1>4, <1>8
<1> QED BY <1>1, <1>4, <1>9, <1>10 DEF Units

\* A byte is written as one or two.
LEMMA UnitLengths ==
  ASSUME NEW e \in Seq(Byte), NEW t, NEW ln, Units(e, t, ln)
  PROVE  /\ \A i \in 1..Len(e) : ln[i] \in ln[i - 1] + 1..ln[i - 1] + 2
         /\ \A i \in 0..Len(e) : ln[i] \in i..2 * i /\ ln[i] <= Len(t)
<1> DEFINE N == Len(e)
           T == {i \in 0..N : ln[i] \in i..2 * i}
           U == {i \in 0..N : ln[N - i] <= Len(t)}
<1>1. N \in Nat /\ ln \in [0..N -> Nat] /\ ln[0] = 0 /\ Len(t) = ln[N] BY DEF Units
<1>2. ASSUME NEW i \in 1..N PROVE ln[i] \in ln[i - 1] + 1..ln[i - 1] + 2
  BY <1>1 DEF Units, Unit
<1>3. 0 \in T BY <1>1
<1>4. ASSUME NEW i \in 1..N, i - 1 \in T PROVE i \in T
  BY <1>1, <1>2, <1>4
<1>5. 0 \in U BY <1>1
<1>6. ASSUME NEW i \in 1..N, i - 1 \in U PROVE i \in U
  <2>1. N - i + 1 \in 1..N /\ (N - i + 1) - 1 = N - i /\ N - (i - 1) = N - i + 1 OBVIOUS
  <2>2. ln[N - i + 1] >= ln[N - i] + 1 /\ ln[N - i] \in Nat /\ ln[N - i + 1] \in Nat
    BY <1>1, <1>2, <2>1
  <2>3. ln[N - i + 1] <= Len(t) BY <1>6, <2>1
  <2> QED BY <1>1, <2>2, <2>3
<1>7. (\A i \in 0..N : i \in T) /\ (\A i \in 0..N : i \in U)
  <2> HIDE DEF T, U
  <2> QED BY <1>1, <1>3, <1>4, <1>5, <1>6, Induct
<1>8. ASSUME NEW i \in 0..N PROVE ln[i] <= Len(t)
  <2>1. N - i \in 0..N /\ N - (N - i) = i OBVIOUS
  <2> QED BY <1>7, <2>1
<1> QED BY <1>2, <1>7, <1>8

\* Every byte of the stuffed data belongs to one of the data.
LEMMA UnitOf ==
  ASSUME NEW e \in Seq(Byte), NEW t, NEW ln, Units(e, t, ln), NEW q \in 1..Len(t)
  PROVE  \E i \in 1..Len(e) : q \in ln[i - 1] + 1..ln[i]
<1> DEFINE S == {i \in 0..Len(e) : q <= ln[i]}
<1>1. /\ Len(e) \in Nat /\ ln \in [0..Len(e) -> Nat] /\ ln[0] = 0 /\ Len(t) = ln[Len(e)]
      /\ Len(t) \in Nat
  BY DEF Units
<1>2. Len(e) \in S BY <1>1
<1>3. PICK m \in S : \A k \in S : m <= k
  <2>1. S \subseteq Nat OBVIOUS
  <2> HIDE DEF S
  <2> QED BY <1>2, <2>1, Least
<1>4. m # 0 /\ m \in 1..Len(e) /\ m - 1 \in 0..Len(e) /\ ~(m <= m - 1) BY <1>1
<1>5. ~(q <= ln[m - 1]) BY <1>3, <1>4
<1> QED BY <1>1, <1>3, <1>4, <1>5

\* There is no flag among the stuffed bytes.
LEMMA NoFlagStuffed ==
  ASSUME NEW e \in Seq(Byte), NEW t, NEW ln, Units(e, t, ln), NEW q \in 1..Len(t)
  PROVE  t[q] \in Byte \ {FLAG}
<1>1. PICK i \in 1..Len(e) : q \in ln[i - 1] + 1..ln[i] BY UnitOf
<1>2. Unit(e, t, ln, i) /\ t[q] \in Byte /\ ln[i - 1] \in Nat BY DEF Units
<1>3. CASE e[i] \in {FLAG, BS_ESC}
  <2>1. q = ln[i - 1] + 1 \/ q = ln[i - 1] + 2 BY <1>1, <1>2, <1>3 DEF Unit
  <2>2. Xor(BS_OCT, e[i]) # FLAG BY <1>3, Codes DEF FLAG
  <2> QED BY <1>2, <1>3, <2>1, <2>2, Codes DEF Unit
<1>4. CASE e[i] \notin {FLAG, BS_ESC}
  <2>1. q = ln[i - 1] + 1 BY <1>1, <1>2, <1>4 DEF Unit
  <2> QED BY <1>2, <1>4, <2>1 DEF Unit
<1> QED BY <1>3, <1>4

-----------------------------------------------------------------------------
(* Parsing.                                                                *)

LEMMA Sizes ==
  /\ LL_MAX_FRAME_SZ \in Nat /\ LL_MAX_FRAME_SZ > 6 /\ max_data_size \in Nat
  /\ LL_MAX_PAYLOAD_STUFFED \in Nat /\ LL_MAX_PAYLOAD_UNSTUFFED \in Nat
  /\ LL_MAX_PAYLOAD_STUFFED + 6 <= LL_MAX_FRAME_SZ - 1
  /\ 2 * LL_MAX_PAYLOAD_UNSTUFFED <= LL_MAX_PAYLOAD_STUFFED
  /\ MaxRounds \in Nat /\ MaxRounds = LL_MAX_PAYLOAD_STUFFED + 2
BY CodecAssumption DEF LL_MAX_PAYLOAD_STUFFED, LL_MAX_PAYLOAD_UNSTUFFED, MaxRounds

\* The buffer after its first byte.
Behind == {a \in Seq(Byte) : Len(a) = LL_MAX_FRAME_SZ - 1}

\* How far the loop over the data field is.
Loop == [n : Nat, data : Seq(Byte), bcc : Byte, at : {"loop", "good", "bad"}]

Start == [n |-> 0, data |-> <<>>, bcc |-> 0, at |-> "loop"]

\* A round that reads: the byte it appends, and how far it gets.
Escaped(a, s) == a[4 + s.n] = BS_ESC
Unescaped(a, s) == IF Escaped(a, s) THEN Xor(BS_OCT, a[5 + s.n]) ELSE a[4 + s.n]
After(a, s) == IF Escaped(a, s) THEN s.n + 2 ELSE s.n + 1

LEMMA RoundReads ==
  ASSUME NEW a \in Behind, NEW s \in Loop, s.at = "loop", ~TooLarge(s.n, s.data)
  PROVE  /\ Unescaped(a, s) \in Byte /\ After(a, s) \in s.n + 1..s.n + 2
         /\ s.n <= LL_MAX_PAYLOAD_STUFFED /\ Len(s.data) <= max_data_size
         /\ a[4 + After(a, s)] # FLAG =>
              Round(a, s) = [n |-> After(a, s), data |-> Append(s.data, Unescaped(a, s)),
                             bcc |-> Xor(s.bcc, Unescaped(a, s)), at |-> "loop"]
         /\ a[4 + After(a, s)] = FLAG =>
              Round(a, s) = [n |-> After(a, s), data |-> Append(s.data, Unescaped(a, s)),
                             bcc |-> s.bcc,
                             at |-> IF Unescaped(a, s) = s.bcc THEN "good" ELSE "bad"]
<1>1. s.n \in Nat /\ Len(s.data) \in Nat BY DEF Loop
<1>2. s.n <= LL_MAX_PAYLOAD_STUFFED /\ Len(s.data) <= max_data_size
  BY <1>1, Sizes DEF TooLarge
<1>3. a[4 + s.n] \in Byte /\ a[5 + s.n] \in Byte
  <2>1. 4 + s.n \in 1..Len(a) /\ 5 + s.n \in 1..Len(a) BY <1>1, <1>2, Sizes DEF Behind
  <2> QED BY <2>1 DEF Behind
<1>4. Unescaped(a, s) \in Byte BY <1>3, XorByte, Codes DEF Unescaped
<1>5. After(a, s) \in s.n + 1..s.n + 2 BY <1>1 DEF After
<1>6. Round(a, s) =
        IF a[4 + After(a, s)] # FLAG
          THEN [n |-> After(a, s), data |-> Append(s.data, Unescaped(a, s)),
                bcc |-> Xor(s.bcc, Unescaped(a, s)), at |-> "loop"]
        ELSE [n |-> After(a, s), data |-> Append(s.data, Unescaped(a, s)), bcc |-> s.bcc,
              at |-> IF Unescaped(a, s) = s.bcc THEN "good" ELSE "bad"]
  BY Zenon DEF Round, After, Unescaped, Escaped
<1> QED BY <1>2, <1>4, <1>5, <1>6

LEMMA RoundStops ==
  ASSUME NEW a \in Behind, NEW s \in Loop
  PROVE  /\ s.at # "loop" => Round(a, s) = s
         /\ s.at = "loop" /\ TooLarge(s.n, s.data) => Round(a, s) = [s EXCEPT !.at = "bad"]
BY Zenon DEF Round

LEMMA RoundLoop ==
  ASSUME NEW a \in Behind, NEW s \in Loop
  PROVE  Round(a, s) \in Loop
<1>1. CASE s.at # "loop" BY <1>1, RoundStops
<1>2. CASE s.at = "loop" /\ TooLarge(s.n, s.data)
  <2>1. [s EXCEPT !.at = "bad"] \in Loop BY DEF Loop
  <2> QED BY <1>2, <2>1, RoundStops
<1>3. CASE s.at = "loop" /\ ~TooLarge(s.n, s.data)
  <2>1. s.n \in Nat /\ s.data \in Seq(Byte) /\ s.bcc \in Byte BY DEF Loop
  <2> DEFINE c == Unescaped(a, s)
             m == After(a, s)
  <2>2. c \in Byte /\ m \in s.n + 1..s.n + 2 BY <1>3, RoundReads, Zenon
  <2> HIDE DEF c, m
  <2>3. m \in Nat /\ Append(s.data, c) \in Seq(Byte) /\ Xor(s.bcc, c) \in Byte
    BY <2>1, <2>2, XorByte
  <2>4. CASE a[4 + m] # FLAG
    <3>1. Round(a, s) = [n |-> m, data |-> Append(s.data, c), bcc |-> Xor(s.bcc, c), at |-> "loop"]
      BY <1>3, <2>4, RoundReads, Zenon DEF c, m
    <3> QED BY <2>3, <3>1 DEF Loop
  <2>5. CASE a[4 + m] = FLAG
    <3>1. Round(a, s) = [n |-> m, data |-> Append(s.data, c), bcc |-> s.bcc,
                         at |-> IF c = s.bcc THEN "good" ELSE "bad"]
      BY <1>3, <2>5, RoundReads, Zenon DEF c, m
    <3> QED BY <2>1, <2>3, <3>1 DEF Loop
  <2> QED BY <2>4, <2>5
<1> QED BY <1>1, <1>2, <1>3

\* The loop before its first round and after each.
Results(a, R) ==
  /\ R \in [0..MaxRounds -> Loop] /\ R[0] = Start
  /\ \A k \in 1..MaxRounds : R[k] = Round(a, R[k - 1])

LEMMA RoundsResults ==
  ASSUME NEW a \in Behind
  PROVE  Results(a, Rounds(a))
<1> DEFINE N == MaxRounds
           F == [i \in 1..N |-> [s \in Loop |-> Round(a, s)]]
           Is(R) == R = [k \in 0..N |-> IF k = 0 THEN Start ELSE Round(a, R[k - 1])]
           round == CHOOSE R : Is(R)
<1>1. N \in Nat /\ Start \in Loop BY Sizes, Codes DEF Start, Loop
<1>2. \A s \in Loop : Round(a, s) \in Loop BY RoundLoop
<1>3. PICK R \in [0..N -> Loop] : R[0] = Start /\ \A i \in 1..N : R[i] = F[i][R[i - 1]]
  <2>1. F \in [1..N -> [Loop -> Loop]] BY <1>2
  <2>2. Runs(Loop, Start, F, N) # {}
    <3> HIDE DEF F, N
    <3> QED BY <1>1, <2>1, Recursion
  <2> HIDE DEF F, N
  <2> QED BY <2>2 DEF Runs
<1> HIDE DEF N
<1>4. \A i \in 1..N : R[i] = Round(a, R[i - 1])
  <2>1. ASSUME NEW i \in 1..N PROVE R[i] = Round(a, R[i - 1])
    <3>1. R[i - 1] \in Loop BY <1>1, <1>3
    <3>2. F[i][R[i - 1]] = Round(a, R[i - 1]) BY <3>1, Zenon
    <3> QED BY <1>3, <3>2
  <2> QED BY <2>1
<1>5. Is(R)
  <2> DEFINE g == [k \in 0..N |-> IF k = 0 THEN Start ELSE Round(a, R[k - 1])]
  <2>1. ASSUME NEW k \in 0..N PROVE R[k] = g[k]
    <3>1. CASE k = 0
      <4>1. g[k] = Start BY <3>1, Zenon
      <4> QED BY <1>3, <3>1, <4>1
    <3>2. CASE k # 0
      <4>1. k \in 1..N BY <1>1, <3>2
      <4>2. g[k] = Round(a, R[k - 1]) BY <3>2, Zenon
      <4> QED BY <1>4, <4>1, <4>2
    <3> QED BY <3>1, <3>2
  <2>2. R = [k \in 0..N |-> R[k]] /\ g = [k \in 0..N |-> g[k]]
    <3>1. R = [k \in 0..N |-> R[k]] BY <1>3
    <3>2. g = [k \in 0..N |-> g[k]] BY Zenon
    <3> QED BY <3>1, <3>2
  <2> HIDE DEF g
  <2>3. R = g BY <2>1, <2>2, Zenon
  <2> QED BY <2>3 DEF g
<1>6. round = [k \in 0..N |-> IF k = 0 THEN Start ELSE Round(a, round[k - 1])]
  <2> HIDE DEF Is
  <2>1. Is(round) BY <1>5
  <2> QED BY <2>1 DEF Is
<1>7. Rounds(a) = round BY Zenon DEF Rounds, N, Start
<1> HIDE DEF round
<1>8. \A k \in 0..N : round[k] = IF k = 0 THEN Start ELSE Round(a, round[k - 1])
  BY <1>6, Zenon
<1>9. round[0] = Start /\ \A k \in 1..N : round[k] = Round(a, round[k - 1])
  <2>1. 0 \in 0..N /\ \A i \in 1..N : i \in 0..N /\ i # 0 BY <1>1
  <2> QED BY <1>8, <2>1, Zenon
<1>10. \A k \in 0..N : round[k] \in Loop
  <2> DEFINE T == {k \in 0..N : round[k] \in Loop}
  <2>1. 0 \in T BY <1>1, <1>9
  <2>2. ASSUME NEW i \in 1..N, i - 1 \in T PROVE i \in T
    <3>1. i \in 0..N /\ round[i - 1] \in Loop /\ round[i] = Round(a, round[i - 1])
      BY <1>1, <1>9, <2>2
    <3> QED BY <1>2, <3>1
  <2>3. \A i \in 0..N : i \in T
    <3> HIDE DEF T
    <3> QED BY <1>1, <2>1, <2>2, Induct
  <2> QED BY <2>3
<1>11. round \in [0..N -> Loop]
  <2>1. round = [k \in 0..N |-> round[k]] BY <1>6, <1>8, Zenon
  <2> QED BY <1>10, <2>1
<1> QED BY <1>7, <1>9, <1>11 DEF Results, N

\* How the loop got to one of its states.
LEMMA RoundsStep ==
  ASSUME NEW a \in Behind, NEW k \in 1..MaxRounds
  PROVE  LET s == Rounds(a)[k - 1] IN
         /\ s \in Loop /\ Rounds(a)[k] \in Loop
         /\ Rounds(a)[k] = Round(a, s)
         /\ Rounds(a)[k].at = "loop" => s.at = "loop" /\ ~TooLarge(s.n, s.data)
<1> DEFINE R == Rounds(a)
           s == R[k - 1]
<1>1. k - 1 \in 0..MaxRounds /\ k \in 0..MaxRounds BY Sizes
<1>2. s \in Loop /\ R[k] \in Loop /\ R[k] = Round(a, s) BY <1>1, RoundsResults DEF Results
<1>3. CASE s.at # "loop" BY <1>2, <1>3, RoundStops
<1>4. CASE s.at = "loop" /\ TooLarge(s.n, s.data)
  <2>1. R[k] = [s EXCEPT !.at = "bad"] BY <1>2, <1>4, RoundStops
  <2>2. R[k].at = "bad" BY <1>2, <2>1 DEF Loop
  <2> QED BY <1>2, <2>2
<1> QED BY <1>2, <1>3, <1>4

\* A loop that has ended stays as it is.
LEMMA RoundsStay ==
  ASSUME NEW a \in Behind, NEW k \in 0..MaxRounds, Rounds(a)[k].at # "loop"
  PROVE  Rounds(a)[MaxRounds] = Rounds(a)[k]
<1> DEFINE R == Rounds(a)
           T == {i \in 0..MaxRounds - k : R[k + i] = R[k]}
<1>1. k \in Nat /\ MaxRounds - k \in Nat /\ MaxRounds \in Nat BY Sizes
<1>2. 0 \in T BY <1>1
<1>3. ASSUME NEW i \in 1..MaxRounds - k, i - 1 \in T PROVE i \in T
  <2>1. k + i \in 1..MaxRounds /\ k + (i - 1) = (k + i) - 1 BY <1>1
  <2> DEFINE s == R[(k + i) - 1]
  <2>2. s = R[k] BY <1>3, <2>1
  <2>3. s \in Loop /\ R[k + i] = Round(a, s) BY <2>1, RoundsStep, Zenon
  <2>4. R[k + i] = s BY <2>2, <2>3, RoundStops
  <2> QED BY <1>1, <2>2, <2>4
<1>4. \A i \in 0..MaxRounds - k : i \in T
  <2> HIDE DEF T
  <2> QED BY <1>1, <1>2, <1>3, Induct
<1>5. MaxRounds - k \in 0..MaxRounds - k /\ k + (MaxRounds - k) = MaxRounds BY <1>1
<1> QED BY <1>4, <1>5

\* MaxRounds are enough, and no more data are kept than the limit and one byte.
LEMMA RoundsEnd ==
  ASSUME NEW a \in Behind
  PROVE  /\ Rounds(a)[MaxRounds] \in Loop
         /\ Rounds(a)[MaxRounds].at # "loop"
         /\ Len(Rounds(a)[MaxRounds].data) <= max_data_size + 1
<1> DEFINE R == Rounds(a)
           T == {k \in 0..MaxRounds : /\ R[k].at = "loop" => k <= R[k].n
                                      /\ Len(R[k].data) <= max_data_size + 1}
<1>1. R[0] = Start /\ \A k \in 0..MaxRounds : R[k] \in Loop
  BY RoundsResults DEF Results
<1>2. 0 \in T BY <1>1, Sizes DEF Start
<1>3. ASSUME NEW k \in 1..MaxRounds, k - 1 \in T PROVE k \in T
  <2> DEFINE s == R[k - 1]
  <2>1. /\ s \in Loop /\ R[k] \in Loop /\ R[k] = Round(a, s)
        /\ R[k].at = "loop" => s.at = "loop" /\ ~TooLarge(s.n, s.data)
    BY RoundsStep, Zenon
  <2>2. (s.at = "loop" => k - 1 <= s.n) /\ Len(s.data) <= max_data_size + 1 BY <1>3
  <2>3. k \in 0..MaxRounds OBVIOUS
  <2> HIDE DEF s
  <2>4. CASE s.at # "loop" BY <2>1, <2>2, <2>3, <2>4, RoundStops
  <2>5. CASE s.at = "loop" /\ TooLarge(s.n, s.data)
    <3>1. R[k] = [s EXCEPT !.at = "bad"] BY <2>1, <2>5, RoundStops
    <3>2. R[k].at = "bad" /\ R[k].data = s.data BY <2>1, <3>1 DEF Loop
    <3> QED BY <2>2, <2>3, <3>2
  <2>6. CASE s.at = "loop" /\ ~TooLarge(s.n, s.data)
    <3> DEFINE c == Unescaped(a, s)
               m == After(a, s)
    <3>1. c \in Byte /\ m \in s.n + 1..s.n + 2 /\ Len(s.data) <= max_data_size
      BY <2>1, <2>6, RoundReads, Zenon
    <3>2. R[k].n = m /\ R[k].data = Append(s.data, c)
      BY <2>1, <2>6, RoundReads
    <3> HIDE DEF c, m
    <3>3. s.n \in Nat /\ s.data \in Seq(Byte) BY <2>1 DEF Loop
    <3>4. Len(R[k].data) = Len(s.data) + 1 BY <3>1, <3>2, <3>3
    <3>5. k <= R[k].n BY <2>2, <2>6, <3>1, <3>2, <3>3
    <3>6. Len(R[k].data) <= max_data_size + 1 BY <3>1, <3>3, <3>4, Sizes
    <3> QED BY <2>3, <3>5, <3>6
  <2> QED BY <2>4, <2>5, <2>6
<1>4. \A k \in 0..MaxRounds : k \in T
  <2> HIDE DEF T
  <2> QED BY <1>2, <1>3, Sizes, Induct
<1>5. MaxRounds \in 0..MaxRounds /\ MaxRounds \in 1..MaxRounds BY Sizes
<1>6. R[MaxRounds].at # "loop"
  <2> SUFFICES ASSUME R[MaxRounds].at = "loop" PROVE FALSE OBVIOUS
  <2> DEFINE s == R[MaxRounds - 1]
  <2>1. s \in Loop /\ s.at = "loop" /\ ~TooLarge(s.n, s.data)
    BY <1>5, RoundsStep, Zenon
  <2>2. s.n <= LL_MAX_PAYLOAD_STUFFED BY <2>1, RoundReads, Zenon
  <2>3. MaxRounds - 1 \in T BY <1>4, <1>5, Sizes
  <2>4. MaxRounds - 1 <= s.n BY <2>1, <2>3
  <2> HIDE DEF s
  <2> QED BY <2>1, <2>2, <2>4, Sizes DEF Loop
<1> QED BY <1>1, <1>4, <1>5, <1>6

\* What the parser returns.
Returned == [ret : {SUCCESS_CODE, BADFRAME_CODE}, control : Byte \cup {-1}, data : Seq(Byte)]

LEMMA ParsedFrame ==
  ASSUME NEW a \in Behind
  PROVE  /\ parse_frame_from_array(a) \in Returned
         /\ Len(parse_frame_from_array(a).data) <= max_data_size + 1
<1> DEFINE end == Rounds(a)[MaxRounds]
<1>1. end.data \in Seq(Byte) /\ Len(end.data) <= max_data_size + 1
  BY RoundsEnd DEF Loop
<1>2. a[2] \in Byte
  <2>1. 2 \in 1..Len(a) BY Sizes DEF Behind
  <2> QED BY <2>1 DEF Behind
<1> HIDE DEF end
<1>3. \A c \in Byte \cup {-1} : Bad(c) \in Returned /\ Len(Bad(c).data) <= max_data_size + 1
  BY Sizes DEF Bad, Returned
<1>4. Good(a[2], <<>>) \in Returned /\ Len(Good(a[2], <<>>).data) <= max_data_size + 1
  BY <1>2, Sizes DEF Good, Returned
<1>5. Good(a[2], end.data) \in Returned /\ Len(Good(a[2], end.data).data) <= max_data_size + 1
  BY <1>1, <1>2 DEF Good, Returned
<1>6. Unstuff(a) \in {Good(a[2], end.data), Bad(a[2])} BY Zenon DEF Unstuff, end
<1>7. parse_frame_from_array(a) \in {Bad(-1), Bad(a[2]), Good(a[2], <<>>), Unstuff(a)}
  BY Zenon DEF parse_frame_from_array
<1> QED BY <1>2, <1>3, <1>4, <1>5, <1>6, <1>7

\* The data field t, and the flag that ends it, in the buffer.
Carries(a, t) == (\A q \in 1..Len(t) : a[3 + q] = t[q]) /\ a[4 + Len(t)] = FLAG

\* The loop when i bytes of e have been read.
At(e, ln, B, i) == [n |-> ln[i], data |-> SubSeq(e, 1, i), bcc |-> B[i], at |-> "loop"]

LEMMA AtLoop ==
  ASSUME NEW e \in Seq(Byte), NEW t, NEW ln, Units(e, t, ln), NEW B, Checks(e, B),
         NEW i \in 0..Len(e)
  PROVE  At(e, ln, B, i) \in Loop /\ Len(SubSeq(e, 1, i)) = i
<1>1. ln[i] \in Nat /\ B[i] \in Byte BY DEF Units, Checks
<1>2. SubSeq(e, 1, i) \in Seq(Byte) /\ Len(SubSeq(e, 1, i)) = i OBVIOUS
<1> QED BY <1>1, <1>2 DEF At, Loop

\* A round reads one unit, and gets back the byte it stands for.
LEMMA RoundUnit ==
  ASSUME NEW e \in Seq(Byte), NEW t, NEW ln, Units(e, t, ln), NEW B, Checks(e, B),
         NEW a \in Behind, Carries(a, t), NEW i \in 1..Len(e)
  PROVE  LET s == At(e, ln, B, i - 1) IN
         /\ Unescaped(a, s) = e[i] /\ After(a, s) = ln[i]
         /\ Append(SubSeq(e, 1, i - 1), e[i]) = SubSeq(e, 1, i)
<1> DEFINE s == At(e, ln, B, i - 1)
           m == ln[i - 1]
<1>1. /\ m \in Nat /\ ln[i] \in Nat /\ ln[i] <= Len(t) /\ Unit(e, t, ln, i) /\ s.n = m
      /\ e[i] \in Byte
  <2>1. i - 1 \in 0..Len(e) /\ i \in 0..Len(e) /\ e[i] \in Byte OBVIOUS
  <2>2. m \in Nat /\ ln[i] \in Nat /\ Unit(e, t, ln, i) BY <2>1 DEF Units
  <2>3. ln[i] <= Len(t) BY <2>1, UnitLengths
  <2>4. s.n = m BY DEF At
  <2> QED BY <2>1, <2>2, <2>3, <2>4
<1>2. Append(SubSeq(e, 1, i - 1), e[i]) = SubSeq(e, 1, i) OBVIOUS
<1> HIDE DEF s, m
<1>3. CASE e[i] \in {FLAG, BS_ESC}
  <2>1. ln[i] = m + 2 /\ t[m + 1] = BS_ESC /\ t[m + 2] = Xor(BS_OCT, e[i])
    BY <1>1, <1>3 DEF Unit, m
  <2>2. m + 1 \in 1..Len(t) /\ m + 2 \in 1..Len(t) /\ 3 + (m + 1) = 4 + m /\ 3 + (m + 2) = 5 + m
    BY <1>1, <2>1 DEF Units
  <2>3. a[4 + m] = BS_ESC /\ a[5 + m] = Xor(BS_OCT, e[i])
    BY <2>1, <2>2 DEF Carries
  <2>4. Xor(BS_OCT, Xor(BS_OCT, e[i])) = e[i] BY <1>1, XorTwice, Codes
  <2>5. Escaped(a, s) BY <1>1, <2>3 DEF Escaped
  <2> QED BY <1>1, <1>2, <2>1, <2>3, <2>4, <2>5 DEF Unescaped, After, s
<1>4. CASE e[i] \notin {FLAG, BS_ESC}
  <2>1. ln[i] = m + 1 /\ t[m + 1] = e[i] BY <1>1, <1>4 DEF Unit, m
  <2>2. m + 1 \in 1..Len(t) /\ 3 + (m + 1) = 4 + m BY <1>1, <2>1 DEF Units
  <2>3. a[4 + m] = e[i] BY <2>1, <2>2 DEF Carries
  <2>4. ~Escaped(a, s) BY <1>1, <1>4, <2>3 DEF Escaped
  <2> QED BY <1>1, <1>2, <2>1, <2>3, <2>4 DEF Unescaped, After, s
<1> QED BY <1>3, <1>4

\* The loop goes from unit to unit as long as nothing is too large.
LEMMA RunsIntact ==
  ASSUME NEW e \in Seq(Byte), NEW t, NEW ln, Units(e, t, ln), NEW B, Checks(e, B),
         NEW a \in Behind, Carries(a, t), NEW M \in 0..Len(e) - 1,
         \A i \in 0..M - 1 : i <= max_data_size /\ ln[i] <= LL_MAX_PAYLOAD_STUFFED
  PROVE  M < MaxRounds /\ Rounds(a)[M] = At(e, ln, B, M)
<1> DEFINE T == {i \in 0..M : Rounds(a)[i] = At(e, ln, B, i)}
<1>1. M \in Nat /\ Len(e) \in Nat OBVIOUS
<1>2. M < MaxRounds
  <2>1. CASE M = 0 BY <2>1, Sizes
  <2>2. CASE M # 0
    <3>1. M - 1 \in 0..M - 1 /\ M - 1 \in 0..Len(e) BY <2>2
    <3>2. ln[M - 1] <= LL_MAX_PAYLOAD_STUFFED /\ ln[M - 1] \in M - 1..2 * (M - 1)
      BY <3>1, UnitLengths
    <3> QED BY <1>1, <3>1, <3>2, Sizes
  <2> QED BY <2>1, <2>2
<1>3. 0 \in T
  <2>1. ln[0] = 0 /\ B[0] = 0 BY DEF Units, Checks
  <2>2. SubSeq(e, 1, 0) = <<>> OBVIOUS
  <2>3. At(e, ln, B, 0) = Start BY <2>1, <2>2 DEF At, Start
  <2> QED BY <1>1, <2>3, RoundsResults DEF Results
<1>4. ASSUME NEW i \in 1..M, i - 1 \in T PROVE i \in T
  <2> DEFINE s == At(e, ln, B, i - 1)
  <2>1. /\ i \in 1..Len(e) /\ i - 1 \in 0..Len(e) /\ i - 1 \in 0..M - 1 /\ i \in 1..MaxRounds
        /\ i \in 0..M /\ i \in 0..Len(e)
    BY <1>1, <1>2, Sizes
  <2>2. s \in Loop /\ Len(SubSeq(e, 1, i - 1)) = i - 1 BY <2>1, AtLoop
  <2>3. s.n = ln[i - 1] /\ s.data = SubSeq(e, 1, i - 1) /\ s.bcc = B[i - 1] /\ s.at = "loop"
    BY DEF At
  <2>4. i - 1 <= max_data_size /\ ln[i - 1] <= LL_MAX_PAYLOAD_STUFFED BY <2>1
  <2>5. ln[i - 1] \in Nat /\ ln[i] \in Nat /\ B[i] = Xor(B[i - 1], e[i])
    BY <2>1 DEF Units, Checks
  <2>6. ~TooLarge(s.n, s.data)
    <3> HIDE DEF s
    <3> QED BY <2>2, <2>3, <2>4, <2>5, Sizes DEF TooLarge
  <2>7. /\ Unescaped(a, s) = e[i] /\ After(a, s) = ln[i]
        /\ Append(SubSeq(e, 1, i - 1), e[i]) = SubSeq(e, 1, i)
    BY <2>1, RoundUnit
  <2>8. a[4 + ln[i]] # FLAG
    <3>1. /\ i + 1 \in 1..Len(e) /\ i \in 0..Len(e) /\ (i + 1) - 1 = i BY <1>1
    <3>2. ln[i + 1] \in ln[i] + 1..ln[i] + 2 /\ ln[i + 1] <= Len(t) /\ ln[i + 1] \in Nat
      <4>1. i + 1 \in 0..Len(e) BY <3>1
      <4> QED BY <3>1, <4>1, UnitLengths DEF Units
    <3>3. ln[i] + 1 \in 1..Len(t) /\ 3 + (ln[i] + 1) = 4 + ln[i]
      BY <2>5, <3>2 DEF Units
    <3>4. t[ln[i] + 1] # FLAG BY <3>3, NoFlagStuffed
    <3> QED BY <3>3, <3>4 DEF Carries
  <2>9. Round(a, s) = [n |-> ln[i], data |-> SubSeq(e, 1, i), bcc |-> B[i], at |-> "loop"]
    <3> HIDE DEF s
    <3> QED BY <2>2, <2>3, <2>5, <2>6, <2>7, <2>8, RoundReads
  <2>10. Rounds(a)[i - 1] = s BY <1>4
  <2>11. Rounds(a)[i] = Round(a, s) BY <2>1, <2>10, RoundsStep
  <2> QED BY <2>1, <2>9, <2>11 DEF At
<1>5. \A i \in 0..M : i \in T
  <2> HIDE DEF T
  <2> QED BY <1>1, <1>3, <1>4, Induct
<1>6. M \in 0..M BY <1>1
<1> QED BY <1>2, <1>5, <1>6

\* The data field of a frame that was not damaged, whatever lies behind it in the
\* buffer.
LEMMA UnstuffsIntact ==
  ASSUME NEW d \in Seq(Byte), Len(d) \in 1..LL_MAX_PAYLOAD_UNSTUFFED,
         NEW a \in Behind, Carries(a, copy_and_stuff_bytes(d))
  PROVE  Unstuff(a) = IF Len(d) <= max_data_size THEN Good(a[2], Append(d, Bcc(d)))
                      ELSE Bad(a[2])
<1> DEFINE e == Append(d, Bcc(d))
           t == copy_and_stuff_bytes(d)
           N == Len(e)
           R == Rounds(a)
<1>1. e \in Seq(Byte) /\ N = Len(d) + 1 BY ChecksOfFrame, Zenon
<1>2. PICK B : Checks(e, B) /\ B[Len(d)] = e[N] BY ChecksOfFrame, Zenon
<1>3. PICK ln : Units(e, t, ln)
  <2> HIDE DEF e
  <2> QED BY <1>1, StuffedUnits DEF copy_and_stuff_bytes, e
<1>4. Len(d) \in Nat OBVIOUS
<1> HIDE DEF e, t
<1>5. ASSUME NEW i \in 0..Len(d) PROVE ln[i] <= LL_MAX_PAYLOAD_STUFFED /\ ln[i] \in Nat
  <2>1. i \in 0..N BY <1>1, <1>4
  <2>2. ln[i] \in i..2 * i BY <1>1, <1>3, <2>1, UnitLengths
  <2> QED BY <1>4, <2>2, Sizes
<1>6. CASE Len(d) <= max_data_size
  <2> DEFINE s == At(e, ln, B, Len(d))
  <2>1. Len(d) \in 0..N - 1 /\ N \in 1..N /\ N - 1 = Len(d) /\ Len(d) \in 0..N BY <1>1, <1>4
  <2>2. Len(d) < MaxRounds /\ R[Len(d)] = s
    <3>1. \A i \in 0..Len(d) - 1 : i <= max_data_size /\ ln[i] <= LL_MAX_PAYLOAD_STUFFED
      BY <1>4, <1>5, <1>6, Sizes
    <3> QED BY <1>1, <1>2, <1>3, <2>1, <3>1, RunsIntact DEF t
  <2>3. s \in Loop /\ Len(SubSeq(e, 1, Len(d))) = Len(d)
    BY <1>1, <1>2, <1>3, <2>1, AtLoop
  <2>4. /\ s.n = ln[Len(d)] /\ s.data = SubSeq(e, 1, Len(d)) /\ s.bcc = B[Len(d)]
        /\ s.at = "loop"
    BY DEF At
  <2>5. /\ Unescaped(a, s) = e[N] /\ After(a, s) = ln[N]
        /\ Append(SubSeq(e, 1, Len(d)), e[N]) = SubSeq(e, 1, N)
    BY <1>1, <1>2, <1>3, <2>1, RoundUnit DEF t
  <2>6. SubSeq(e, 1, N) = e BY <1>1
  <2>7. a[4 + ln[N]] = FLAG BY <1>3 DEF Carries, Units, t
  <2> HIDE DEF s
  <2>8. ~TooLarge(s.n, s.data)
    <3>1. Len(d) \in 0..Len(d) BY <1>4
    <3> QED BY <1>4, <1>5, <1>6, <2>3, <2>4, <3>1, Sizes DEF TooLarge
  <2>9. Round(a, s) = [n |-> ln[N], data |-> e, bcc |-> e[N], at |-> "good"]
    BY <1>2, <2>3, <2>4, <2>5, <2>6, <2>7, <2>8, RoundReads
  <2>10. N \in 1..MaxRounds /\ N \in 0..MaxRounds BY <1>1, <1>4, <2>2, Sizes
  <2>11. R[N] = Round(a, s) BY <2>1, <2>2, <2>10, RoundsStep
  <2>12. R[N].at = "good" /\ R[N].data = e BY <2>9, <2>11
  <2>13. R[MaxRounds] = R[N] BY <2>10, <2>12, RoundsStay
  <2> QED BY <1>6, <2>12, <2>13 DEF Unstuff, e
<1>7. CASE Len(d) > max_data_size
  <2> DEFINE M == max_data_size + 1
             s == At(e, ln, B, M)
  <2>1. M \in 0..N - 1 /\ M \in 0..N BY <1>1, <1>4, <1>7, Sizes
  <2>2. M < MaxRounds /\ R[M] = s
    <3>1. \A i \in 0..M - 1 : i <= max_data_size /\ ln[i] <= LL_MAX_PAYLOAD_STUFFED
      BY <1>4, <1>5, <1>7, Sizes
    <3> QED BY <1>1, <1>2, <1>3, <2>1, <3>1, RunsIntact DEF t
  <2>3. s \in Loop /\ Len(SubSeq(e, 1, M)) = M
    BY <1>1, <1>2, <1>3, <2>1, AtLoop
  <2>4. s.data = SubSeq(e, 1, M) /\ s.at = "loop"
    BY DEF At
  <2>5. TooLarge(s.n, s.data) BY <2>3, <2>4, Sizes DEF TooLarge
  <2> HIDE DEF s
  <2>6. Round(a, s) = [s EXCEPT !.at = "bad"] BY <2>3, <2>4, <2>5, RoundStops
  <2>7. M + 1 \in 1..MaxRounds /\ M + 1 \in 0..MaxRounds /\ (M + 1) - 1 = M BY <2>2, Sizes
  <2>8. R[M + 1] = Round(a, s) BY <2>2, <2>7, RoundsStep
  <2>9. R[M + 1].at = "bad" BY <2>3, <2>6, <2>8 DEF Loop
  <2>10. R[MaxRounds] = R[M + 1] BY <2>7, <2>9, RoundsStay
  <2>11. ~(Len(d) <= max_data_size) BY <1>4, <1>7, Sizes
  <2> QED BY <2>9, <2>10, <2>11 DEF Unstuff
<1> QED BY <1>4, <1>6, <1>7, Sizes

-----------------------------------------------------------------------------
(* Frames.                                                                 *)

\* The frames that f_send_frame sends, and the bytes of one between its header and
\* its closing flag.
Fitting == {f \in Sendable : Len(f.data) <= LL_MAX_PAYLOAD_UNSTUFFED}

Field(f) == IF f.data = <<>> THEN <<>> ELSE copy_and_stuff_bytes(f.data)

LEMMA FrameParts ==
  ASSUME NEW f \in Fitting
  PROVE  /\ f.control \in Byte /\ f.control # FLAG
         /\ Xor(A, f.control) \in Byte /\ Xor(A, f.control) # FLAG
         /\ f.data \in Seq(Byte) /\ Len(f.data) \in 0..LL_MAX_PAYLOAD_UNSTUFFED
<1>1. f \in Sendable /\ Len(f.data) <= LL_MAX_PAYLOAD_UNSTUFFED BY DEF Fitting
<1>2. /\ f.control \in Byte /\ f.control # FLAG /\ Xor(A, f.control) # FLAG
      /\ f.data \in Seq(Byte)
  BY <1>1 DEF Sendable
<1> QED BY <1>1, <1>2, XorByte, Codes, Sizes

\* The stuffed bytes are no flags and do not end in an escape.
LEMMA FieldBytes ==
  ASSUME NEW f \in Fitting
  PROVE  /\ Field(f) \in Seq(Byte) /\ Len(Field(f)) <= 2 * Len(f.data) + 2
         /\ \A q \in 1..Len(Field(f)) : Field(f)[q] # FLAG
         /\ f.data = <<>> => Field(f) = <<>>
         /\ f.data # <<>> => Len(Field(f)) > 1 /\ Field(f)[Len(Field(f))] # BS_ESC
<1>1. CASE f.data = <<>>
  <2>1. Field(f) = <<>> BY <1>1 DEF Field
  <2>2. Len(f.data) = 0 BY <1>1
  <2> QED BY <1>1, <2>1, <2>2
<1>2. CASE f.data # <<>>
  <2> DEFINE d == f.data
             e == Append(d, Bcc(d))
             t == Field(f)
             N == Len(e)
  <2>1. d \in Seq(Byte) /\ Len(d) \in Nat /\ Len(d) > 0 BY <1>2, FrameParts
  <2>2. e \in Seq(Byte) /\ N = Len(d) + 1
    <3> HIDE DEF d
    <3> QED BY <2>1, ChecksOfFrame, Zenon
  <2>3. t = StuffedBytes(e) BY <1>2 DEF Field, copy_and_stuff_bytes
  <2> HIDE DEF e
  <2>4. PICK ln : Units(e, t, ln) BY <2>2, <2>3, StuffedUnits
  <2> HIDE DEF d, t
  <2>5. N - 1 \in 0..N /\ N \in 0..N /\ N \in 1..N /\ N > 1 BY <2>1, <2>2
  <2>6. /\ ln[N] \in N..2 * N /\ Len(t) = ln[N] /\ t \in Seq(Byte) /\ ln[N - 1] \in Nat
        /\ Unit(e, t, ln, N) /\ e[N] \in Byte
    BY <2>2, <2>4, <2>5, UnitLengths DEF Units
  <2>7. \A q \in 1..Len(t) : t[q] # FLAG BY <2>2, <2>4, NoFlagStuffed
  <2>8. t[Len(t)] # BS_ESC
    <3>1. CASE e[N] \in {FLAG, BS_ESC}
      <4>1. t[Len(t)] = Xor(BS_OCT, e[N]) BY <2>6, <3>1 DEF Unit
      <4>2. BS_ESC # 94 /\ BS_ESC # 93 BY DEF BS_ESC
      <4> QED BY <3>1, <4>1, <4>2, Codes
    <3>2. CASE e[N] \notin {FLAG, BS_ESC}
      <4>1. t[Len(t)] = e[N] BY <2>6, <3>2 DEF Unit
      <4> QED BY <3>2, <4>1
    <3> QED BY <3>1, <3>2
  <2>9. Len(t) <= 2 * Len(d) + 2 /\ Len(t) > 1 BY <2>1, <2>2, <2>5, <2>6
  <2> QED BY <1>2, <2>6, <2>7, <2>8, <2>9 DEF t, d
<1> QED BY <1>1, <1>2

\* The bytes b of a frame with this control byte and this field.
Framed(b, control, t) ==
  /\ b \in Seq(Byte) /\ Len(b) = 5 + Len(t)
  /\ b[1] = FLAG /\ b[2] = A /\ b[3] = control /\ b[4] = Xor(A, control)
  /\ \A q \in 1..Len(t) : b[4 + q] = t[q]
  /\ b[5 + Len(t)] = FLAG

LEMMA FramedBytes ==
  ASSUME NEW c \in Byte, NEW t \in Seq(Byte)
  PROVE  Framed(<<FLAG, A, c, Xor(A, c)>> \o t \o <<FLAG>>, c, t)
<1> DEFINE h == <<FLAG, A, c, Xor(A, c)>>
           u == <<FLAG>>
           b == (h \o t) \o u
<1>1. /\ h \in Seq(Byte) /\ Len(h) = 4 /\ h[1] = FLAG /\ h[2] = A /\ h[3] = c
      /\ h[4] = Xor(A, c) /\ u \in Seq(Byte) /\ Len(u) = 1 /\ u[1] = FLAG
  BY XorByte, Codes
<1> HIDE DEF h, u
<1>2. Joined(h \o t, h, t) BY <1>1, Concatenated
<1>3. h \o t \in Seq(Byte) BY <1>2 DEF Joined
<1>4. Joined((h \o t) \o u, h \o t, u) BY <1>1, <1>3, Concatenated
<1> DEFINE v == h \o t
<1> HIDE DEF v
<1>5. Joined(v, h, t) /\ Joined(b, v, u) BY <1>2, <1>4 DEF v
<1> HIDE DEF b
<1>6. Len(t) \in Nat OBVIOUS
<1>7. Len(v) = 4 + Len(t) /\ Len(b) = 5 + Len(t) /\ b \in Seq(Byte)
  BY <1>1, <1>5, <1>6 DEF Joined
<1>8. b[1] = FLAG /\ b[2] = A /\ b[3] = c /\ b[4] = Xor(A, c)
  <2>1. \A q \in 1..4 : q \in 1..Len(h) /\ q \in 1..Len(v) BY <1>1, <1>6, <1>7
  <2>2. \A q \in 1..4 : b[q] = h[q] BY <1>5, <2>1, Zenon DEF Joined
  <2>3. b[1] = h[1] /\ b[2] = h[2] /\ b[3] = h[3] /\ b[4] = h[4] BY <2>2
  <2> QED BY <1>1, <2>3
<1>9. ASSUME NEW q \in 1..Len(t) PROVE b[4 + q] = t[q]
  <2>1. 4 + q \in 1..Len(v) BY <1>6, <1>7
  <2>2. v[Len(h) + q] = t[q] /\ b[4 + q] = v[4 + q] BY <1>5, <2>1, Zenon DEF Joined
  <2> QED BY <1>1, <2>2
<1>10. b[5 + Len(t)] = FLAG
  <2>1. 1 \in 1..Len(u) /\ Len(v) + 1 = 5 + Len(t) BY <1>1, <1>6, <1>7
  <2>2. b[Len(v) + 1] = u[1] BY <1>5, <2>1, Zenon DEF Joined
  <2> QED BY <1>1, <2>1, <2>2
<1>11. Framed(b, c, t) BY <1>7, <1>8, <1>9, <1>10 DEF Framed
<1> QED BY <1>11 DEF b, v, h, u

\* Flags only at its ends, and shorter than the buffer.
LEMMA BuiltBytes ==
  ASSUME NEW f \in Fitting
  PROVE  /\ Framed(Built(f), f.control, Field(f))
         /\ Len(Built(f)) \in 5..LL_MAX_FRAME_SZ - 1
         /\ \A q \in 2..Len(Built(f)) - 1 : Built(f)[q] # FLAG
<1> DEFINE b == Built(f)
           t == Field(f)
           c == f.control
<1>1. c \in Byte /\ c # FLAG /\ Xor(A, c) # FLAG BY FrameParts
<1>2. t \in Seq(Byte) /\ Len(t) <= 2 * Len(f.data) + 2 BY FieldBytes
<1>3. Framed(b, c, t)
  <2>1. b = <<FLAG, A, c, Xor(A, c)>> \o t \o <<FLAG>> BY Zenon DEF Built, Field
  <2> HIDE DEF b, c, t
  <2> QED BY <1>1, <1>2, <2>1, FramedBytes
<1>4. Len(b) = 5 + Len(t) /\ Len(t) \in Nat BY <1>2, <1>3 DEF Framed
<1>5. Len(f.data) \in 0..LL_MAX_PAYLOAD_UNSTUFFED BY FrameParts
<1>6. f.data = <<>> => Len(t) = 0
  <2>1. f.data = <<>> => t = <<>> BY FieldBytes
  <2> QED BY <2>1
<1>7. Len(b) \in 5..LL_MAX_FRAME_SZ - 1
  <2>1. CASE f.data = <<>> BY <1>4, <1>6, <2>1, Sizes
  <2>2. CASE f.data # <<>>
    <3>1. Len(f.data) > 0 BY <2>2, FrameParts
    <3>2. /\ LL_MAX_PAYLOAD_STUFFED = (LL_MAX_FRAME_SZ - 6) \div 2
          /\ LL_MAX_PAYLOAD_STUFFED >= 2 /\ Len(t) <= LL_MAX_PAYLOAD_STUFFED + 2
      <4>1. LL_MAX_PAYLOAD_STUFFED = (LL_MAX_FRAME_SZ - 6) \div 2
        BY Sizes DEF LL_MAX_PAYLOAD_STUFFED
      <4> HIDE DEF t
      <4> QED BY <1>2, <1>4, <1>5, <3>1, <4>1, Sizes
    <3> HIDE DEF t, b
    <3> QED BY <1>4, <3>2, Sizes
  <2> QED BY <2>1, <2>2
<1>8. ASSUME NEW q \in 2..Len(b) - 1 PROVE b[q] # FLAG
  <2>1. CASE q > 4
    <3>1. q - 4 \in 1..Len(t) /\ 4 + (q - 4) = q BY <1>4, <2>1
    <3>2. t[q - 4] # FLAG BY <3>1, FieldBytes
    <3> HIDE DEF t, b
    <3> QED BY <1>3, <3>1, <3>2 DEF Framed
  <2>2. CASE q <= 4
    <3>1. q = 2 \/ q = 3 \/ q = 4 BY <1>4, <2>2
    <3>2. A # FLAG BY DEF A, FLAG
    <3> HIDE DEF t, b, c
    <3> QED BY <1>1, <1>3, <3>1, <3>2 DEF Framed
  <2>3. q \in Nat BY <1>4
  <2> QED BY <2>1, <2>2, <2>3
<1> QED BY <1>3, <1>7, <1>8

\* What is made of a frame that was not damaged.
Expected(f) == IF Len(f.data) <= max_data_size THEN AsSent(f) ELSE Bad(f.control)

LEMMA ParsesBuilt ==
  ASSUME NEW f \in Fitting, NEW a \in Behind,
         \A q \in 1..Len(Built(f)) - 1 : a[q] = Built(f)[1 + q]
  PROVE  parse_frame_from_array(a) = Expected(f)
<1> DEFINE b == Built(f)
           t == Field(f)
           c == f.control
<1>1. /\ c \in Byte /\ c # FLAG /\ Xor(A, c) # FLAG /\ f.data \in Seq(Byte)
      /\ Len(f.data) \in 0..LL_MAX_PAYLOAD_UNSTUFFED
  BY FrameParts
<1>2. /\ t \in Seq(Byte) /\ \A q \in 1..Len(t) : t[q] # FLAG
      /\ f.data = <<>> => t = <<>>
      /\ f.data # <<>> => Len(t) > 1
  BY FieldBytes
<1>3. Framed(b, c, t) BY BuiltBytes
<1>4. \A q \in 1..Len(b) - 1 : a[q] = b[1 + q] OBVIOUS
<1>5. A # FLAG BY DEF A, FLAG
<1>6. f.data # <<>> => t = copy_and_stuff_bytes(f.data) BY DEF Field
<1> HIDE DEF b, t, c
<1>7. Len(b) = 5 + Len(t) /\ Len(t) \in Nat BY <1>2, <1>3 DEF Framed
<1>8. a[1] = A /\ a[2] = c /\ a[3] = Xor(A, c)
  <2>1. /\ 1 \in 1..Len(b) - 1 /\ 2 \in 1..Len(b) - 1 /\ 3 \in 1..Len(b) - 1
        /\ 1 + 1 = 2 /\ 1 + 2 = 3 /\ 1 + 3 = 4
    BY <1>7
  <2> QED BY <1>3, <1>4, <2>1 DEF Framed
<1>9. Carries(a, t)
  <2>1. ASSUME NEW q \in 1..Len(t) PROVE a[3 + q] = t[q]
    <3>1. 3 + q \in 1..Len(b) - 1 /\ 1 + (3 + q) = 4 + q BY <1>7
    <3> QED BY <1>3, <1>4, <3>1 DEF Framed
  <2>2. a[4 + Len(t)] = FLAG
    <3>1. 4 + Len(t) \in 1..Len(b) - 1 /\ 1 + (4 + Len(t)) = 5 + Len(t) BY <1>7
    <3> QED BY <1>3, <1>4, <3>1 DEF Framed
  <2> QED BY <2>1, <2>2 DEF Carries
<1>10. FLAG \notin {a[1], a[2], a[3]} /\ HeaderOk(a)
  BY <1>1, <1>5, <1>8 DEF HeaderOk
<1>11. CASE f.data = <<>>
  <2>1. Len(t) = 0 /\ 4 + 0 = 4 BY <1>2, <1>11
  <2>2. a[4] = FLAG BY <1>9, <2>1 DEF Carries
  <2>3. parse_frame_from_array(a) = Good(c, <<>>)
    BY <1>8, <1>10, <2>2, Zenon DEF parse_frame_from_array
  <2>4. AsSent(f) = Good(c, <<>>) BY <1>11, Zenon DEF AsSent, c
  <2>5. Len(f.data) <= max_data_size BY <1>11, Sizes
  <2> QED BY <2>3, <2>4, <2>5 DEF Expected
<1>12. CASE f.data # <<>>
  <2>1. a[4] # FLAG /\ a[5] # FLAG
    <3>1. 1 \in 1..Len(t) /\ 2 \in 1..Len(t) /\ 3 + 1 = 4 /\ 3 + 2 = 5 BY <1>2, <1>7, <1>12
    <3> QED BY <1>2, <1>9, <3>1 DEF Carries
  <2>2. parse_frame_from_array(a) = Unstuff(a)
    BY <1>10, <2>1, Zenon DEF parse_frame_from_array
  <2>3. Len(f.data) \in 1..LL_MAX_PAYLOAD_UNSTUFFED BY <1>1, <1>12
  <2>4. Unstuff(a) = IF Len(f.data) <= max_data_size THEN Good(a[2], Append(f.data, Bcc(f.data)))
                     ELSE Bad(a[2])
    BY <1>1, <1>6, <1>9, <1>12, <2>3, UnstuffsIntact
  <2>5. AsSent(f) = Good(c, Append(f.data, Bcc(f.data))) BY <1>12, Zenon DEF AsSent, c
  <2> QED BY <1>8, <2>2, <2>4, <2>5, Zenon DEF Expected, c
<1> QED BY <1>11, <1>12

-----------------------------------------------------------------------------
(* The check byte of damaged data. An escaped byte and the two that are      *)
(* written for it have exclusive ors that differ by 93, whatever the byte    *)
(* is: so the exclusive or of all that is written, escapes included, tells   *)
(* the check byte's but for that, and no single bit is 93.                   *)

Twins(x) == {x, Xor(93, x)}

LEMMA XorTwins ==
  ASSUME NEW x \in Byte, NEW y \in Byte, NEW u \in Twins(x), NEW v \in Twins(y)
  PROVE  /\ u \in Byte /\ v \in Byte /\ Xor(x, y) \in Byte
         /\ Xor(u, v) \in Twins(Xor(x, y))
         /\ u = v => Xor(x, y) \in {0, 93}
<1>1. 93 \in Byte BY DEF Byte
<1>2. u \in Byte /\ v \in Byte /\ Xor(x, y) \in Byte BY <1>1, XorByte DEF Twins
<1>3. Xor(x, Xor(93, y)) = Xor(93, Xor(x, y))
  <2>1. Xor(x, Xor(93, y)) = Xor(Xor(x, 93), y) BY <1>1, XorAssociates
  <2>2. Xor(x, 93) = Xor(93, x) BY <1>1, XorCommutes
  <2>3. Xor(Xor(93, x), y) = Xor(93, Xor(x, y)) BY <1>1, XorAssociates
  <2> QED BY <2>1, <2>2, <2>3
<1>4. Xor(Xor(93, x), y) = Xor(93, Xor(x, y)) BY <1>1, XorAssociates
<1>5. Xor(Xor(93, x), Xor(93, y)) = Xor(x, y)
  <2>1. Xor(93, y) \in Byte BY <1>1, XorByte
  <2>2. Xor(Xor(93, x), Xor(93, y)) = Xor(93, Xor(x, Xor(93, y)))
    BY <1>1, <2>1, XorAssociates
  <2>3. Xor(93, Xor(93, Xor(x, y))) = Xor(x, y) BY <1>1, <1>2, XorTwice
  <2> QED BY <1>3, <2>2, <2>3
<1>6. Xor(u, v) \in Twins(Xor(x, y)) BY <1>3, <1>4, <1>5 DEF Twins
<1>7. ASSUME u = v PROVE Xor(x, y) \in {0, 93}
  <2>1. Xor(u, v) = 0 BY <1>2, <1>7, XorZero
  <2>2. Xor(x, y) = 0 \/ Xor(93, Xor(x, y)) = 0 BY <1>6, <2>1 DEF Twins
  <2>3. Xor(93, Xor(x, y)) = 0 => 93 = Xor(x, y) BY <1>1, <1>2, XorTwice
  <2> QED BY <2>2, <2>3
<1> QED BY <1>2, <1>6, <1>7

LEMMA BccByte ==
  ASSUME NEW e \in Seq(Byte)
  PROVE  Bcc(e) \in Byte
<1>1. PICK B : Checks(e, B) /\ Bcc(e) = B[Len(e)] BY BccChecks
<1> QED BY <1>1 DEF Checks

LEMMA BccAppend ==
  ASSUME NEW e \in Seq(Byte), NEW x \in Byte
  PROVE  Bcc(Append(e, x)) = Xor(Bcc(e), x)
<1>1. PICK B : Checks(e, B) /\ Bcc(e) = B[Len(e)] BY BccChecks
<1> DEFINE N == Len(e)
           g == Append(e, x)
           C == [i \in 0..N + 1 |-> IF i <= N THEN B[i] ELSE Xor(B[N], x)]
<1>2. N \in Nat /\ g \in Seq(Byte) /\ Len(g) = N + 1 /\ g[N + 1] = x OBVIOUS
<1>3. \A i \in 1..N : g[i] = e[i] OBVIOUS
<1>4. /\ B \in [0..N -> Byte] /\ B[0] = 0 /\ \A i \in 1..N : B[i] = Xor(B[i - 1], e[i])
  BY <1>1 DEF Checks
<1> HIDE DEF g
<1>5. C \in [0..N + 1 -> Byte]
  <2>1. Xor(B[N], x) \in Byte BY <1>2, <1>4, XorByte
  <2> QED BY <1>2, <1>4, <2>1
<1>6. C[0] = 0 /\ C[N + 1] = Xor(B[N], x) /\ \A i \in 0..N : C[i] = B[i] BY <1>2, <1>4
<1> HIDE DEF C
<1>7. \A i \in 1..N + 1 : C[i] = Xor(C[i - 1], g[i])
  <2>1. ASSUME NEW i \in 1..N + 1 PROVE C[i] = Xor(C[i - 1], g[i])
    <3>1. CASE i = N + 1 BY <1>2, <1>6, <3>1
    <3>2. CASE i # N + 1
      <4>1. i \in 1..N /\ i \in 0..N /\ i - 1 \in 0..N BY <1>2, <3>2
      <4> QED BY <1>3, <1>4, <1>6, <4>1
    <3> QED BY <3>1, <3>2
  <2> QED BY <2>1
<1>8. Checks(g, C) BY <1>2, <1>5, <1>6, <1>7 DEF Checks
<1>9. Bcc(g) = C[Len(g)] BY <1>2, <1>8, BccIs
<1> QED BY <1>1, <1>2, <1>6, <1>9 DEF g

LEMMA BccPrepend ==
  ASSUME NEW e \in Seq(Byte), NEW x \in Byte, NEW g \in Seq(Byte),
         Len(g) = Len(e) + 1, g[1] = x, \A i \in 1..Len(e) : g[1 + i] = e[i]
  PROVE  Bcc(g) = Xor(x, Bcc(e))
<1>1. PICK B : Checks(e, B) /\ Bcc(e) = B[Len(e)] BY BccChecks
<1> DEFINE N == Len(e)
           C == [i \in 0..N + 1 |-> IF i = 0 THEN 0 ELSE Xor(x, B[i - 1])]
<1>2. N \in Nat /\ Len(g) = N + 1 OBVIOUS
<1>3. /\ B \in [0..N -> Byte] /\ B[0] = 0 /\ \A i \in 1..N : B[i] = Xor(B[i - 1], e[i])
  BY <1>1 DEF Checks
<1>4. \A i \in 0..N : Xor(x, B[i]) \in Byte BY <1>3, XorByte
<1>5. C \in [0..N + 1 -> Byte] BY <1>2, <1>4, Codes
<1>6. C[0] = 0 /\ \A i \in 1..N + 1 : C[i] = Xor(x, B[i - 1]) BY <1>2
<1> HIDE DEF C
<1>7. \A i \in 1..N + 1 : C[i] = Xor(C[i - 1], g[i])
  <2>1. ASSUME NEW i \in 1..N + 1 PROVE C[i] = Xor(C[i - 1], g[i])
    <3>1. CASE i = 1
      <4>1. C[1] = Xor(x, 0) BY <1>2, <1>3, <1>6, <3>1
      <4> QED BY <1>6, <3>1, <4>1, XorZero
    <3>2. CASE i # 1
      <4> DEFINE j == i - 1
      <4>1. j \in 1..N /\ j \in 1..N + 1 /\ i = 1 + j /\ j - 1 \in 0..N /\ e[j] \in Byte
        BY <1>2, <3>2
      <4> HIDE DEF j
      <4>2. C[i] = Xor(x, B[j]) /\ C[j] = Xor(x, B[j - 1]) /\ g[i] = e[j]
        BY <1>6, <4>1
      <4>3. B[j] = Xor(B[j - 1], e[j]) /\ B[j - 1] \in Byte BY <1>3, <4>1
      <4>4. Xor(Xor(x, B[j - 1]), e[j]) = Xor(x, Xor(B[j - 1], e[j]))
        BY <4>1, <4>3, XorAssociates
      <4> QED BY <4>2, <4>3, <4>4 DEF j
    <3> QED BY <3>1, <3>2
  <2> QED BY <2>1
<1>8. Checks(g, C) BY <1>2, <1>5, <1>6, <1>7 DEF Checks
<1>9. Bcc(g) = C[N + 1] BY <1>2, <1>8, BccIs
<1> QED BY <1>1, <1>2, <1>6, <1>9

LEMMA BccChanged ==
  ASSUME NEW e \in Seq(Byte), NEW x \in Byte, NEW q \in 1..Len(e)
  PROVE  Bcc([e EXCEPT ![q] = Xor(e[q], x)]) = Xor(Bcc(e), x)
<1>1. PICK B : Checks(e, B) /\ Bcc(e) = B[Len(e)] BY BccChecks
<1> DEFINE N == Len(e)
           g == [e EXCEPT ![q] = Xor(e[q], x)]
           C == [i \in 0..N |-> IF i < q THEN B[i] ELSE Xor(B[i], x)]
<1>2. N \in Nat /\ q \in 1..N /\ q \in Nat /\ \A i \in 1..N : e[i] \in Byte OBVIOUS
<1>3. /\ g \in Seq(Byte) /\ Len(g) = N /\ g[q] = Xor(e[q], x)
      /\ \A i \in 1..N : i # q => g[i] = e[i]
  <2>1. Xor(e[q], x) \in Byte BY XorByte
  <2> QED BY <2>1
<1>4. /\ B \in [0..N -> Byte] /\ B[0] = 0 /\ \A i \in 1..N : B[i] = Xor(B[i - 1], e[i])
  BY <1>1 DEF Checks
<1> HIDE DEF g
<1>5. C \in [0..N -> Byte]
  <2>1. \A i \in 0..N : Xor(B[i], x) \in Byte /\ B[i] \in Byte BY <1>4, XorByte
  <2> QED BY <2>1
<1>6. \A i \in 0..N : C[i] = IF i < q THEN B[i] ELSE Xor(B[i], x) OBVIOUS
<1> HIDE DEF C
<1>7. C[0] = 0 BY <1>2, <1>4, <1>6
<1>8. \A i \in 1..N : C[i] = Xor(C[i - 1], g[i])
  <2>1. ASSUME NEW i \in 1..N PROVE C[i] = Xor(C[i - 1], g[i])
    <3>1. /\ i \in 0..N /\ i - 1 \in 0..N /\ i \in Nat /\ e[i] \in Byte
          /\ B[i - 1] \in Byte /\ B[i] = Xor(B[i - 1], e[i])
      BY <1>2, <1>4
    <3>2. CASE i < q BY <1>2, <1>3, <1>6, <3>1, <3>2
    <3>3. CASE i = q
      <4>1. C[i] = Xor(B[i], x) /\ C[i - 1] = B[i - 1] /\ g[i] = Xor(e[i], x)
        BY <1>2, <1>3, <1>6, <3>1, <3>3
      <4>2. Xor(Xor(B[i - 1], e[i]), x) = Xor(B[i - 1], Xor(e[i], x))
        BY <3>1, XorAssociates
      <4> QED BY <3>1, <4>1, <4>2
    <3>4. CASE i > q
      <4>1. C[i] = Xor(B[i], x) /\ C[i - 1] = Xor(B[i - 1], x) /\ g[i] = e[i]
        BY <1>2, <1>3, <1>6, <3>1, <3>4
      <4>2. Xor(Xor(B[i - 1], e[i]), x) = Xor(B[i - 1], Xor(e[i], x))
        BY <3>1, XorAssociates
      <4>3. Xor(e[i], x) = Xor(x, e[i]) BY <3>1, XorCommutes
      <4>4. Xor(B[i - 1], Xor(x, e[i])) = Xor(Xor(B[i - 1], x), e[i])
        BY <3>1, XorAssociates
      <4> QED BY <3>1, <4>1, <4>2, <4>3, <4>4
    <3> QED BY <1>2, <3>1, <3>2, <3>3, <3>4
  <2> QED BY <2>1
<1>9. Checks(g, C) BY <1>3, <1>5, <1>7, <1>8 DEF Checks
<1>10. Bcc(g) = C[N] BY <1>3, <1>9, BccIs
<1>11. N \in 0..N /\ ~(N < q) BY <1>2
<1>12. C[N] = Xor(B[N], x) BY <1>6, <1>11
<1> QED BY <1>1, <1>10, <1>12 DEF g

\* The exclusive or of all stuffed bytes of a frame.
LEMMA FieldCheck ==
  ASSUME NEW f \in Fitting
  PROVE  Bcc(Field(f)) \in {0, 93}
<1>1. CASE f.data = <<>>
  <2>1. Field(f) = <<>> BY <1>1 DEF Field
  <2>2. <<>> \in Seq(Byte) /\ Len(<<>>) = 0 OBVIOUS
  <2>3. PICK B : Checks(<<>>, B) /\ Bcc(<<>>) = B[Len(<<>>)] BY <2>2, BccChecks
  <2> QED BY <2>1, <2>2, <2>3 DEF Checks
<1>2. CASE f.data # <<>>
  <2> DEFINE d == f.data
             e == Append(d, Bcc(d))
             t == Field(f)
             N == Len(e)
  <2>1. d \in Seq(Byte) BY FrameParts
  <2>2. t = StuffedBytes(e) BY <1>2 DEF Field, copy_and_stuff_bytes
  <2> HIDE DEF d
  <2>3. Bcc(d) \in Byte /\ e \in Seq(Byte) /\ N = Len(d) + 1 BY <2>1, ChecksOfFrame, Zenon
  <2>4. PICK B : Checks(e, B) /\ B[Len(d)] = e[N] BY <2>1, ChecksOfFrame, Zenon
  <2> HIDE DEF e
  <2>5. PICK ln : Units(e, t, ln) BY <2>2, <2>3, StuffedUnits
  <2>6. t \in Seq(Byte) /\ Len(t) \in Nat BY <2>5 DEF Units
  <2> HIDE DEF t
  <2>7. PICK C : Checks(t, C) /\ Bcc(t) = C[Len(t)] BY <2>6, BccChecks
  <2> DEFINE T == {i \in 0..N : C[ln[i]] \in Twins(B[i])}
  <2>8. N \in Nat /\ Len(d) \in Nat BY <2>1, <2>3
  <2>9. 0 \in T BY <2>4, <2>5, <2>7, <2>8 DEF Checks, Units, Twins
  <2>10. ASSUME NEW i \in 1..N, i - 1 \in T PROVE i \in T
    <3> DEFINE m == ln[i - 1]
               b == B[i - 1]
    <3>1. i - 1 \in 0..N /\ i \in 0..N /\ e[i] \in Byte BY <2>3, <2>8
    <3>2. m \in Nat /\ ln[i] \in Nat /\ ln[i] <= Len(t) /\ Unit(e, t, ln, i)
      BY <2>3, <2>5, <3>1, UnitLengths DEF Units
    <3>3. b \in Byte /\ B[i] = Xor(b, e[i]) /\ C[m] \in Twins(b)
      BY <2>4, <2>10, <3>1 DEF Checks
    <3>4. e[i] \in Twins(e[i]) /\ Xor(93, e[i]) \in Twins(e[i]) BY DEF Twins
    <3> HIDE DEF m, b
    <3>5. CASE e[i] \in {FLAG, BS_ESC}
      <4>1. ln[i] = m + 2 /\ t[m + 1] = BS_ESC /\ t[m + 2] = Xor(BS_OCT, e[i])
        BY <3>2, <3>5 DEF Unit, m
      <4>2. m + 1 \in 1..Len(t) /\ m + 2 \in 1..Len(t) /\ (m + 1) - 1 = m /\ (m + 2) - 1 = m + 1
        BY <2>6, <3>2, <4>1
      <4>3. C[m + 1] = Xor(C[m], BS_ESC) /\ C[m + 2] = Xor(C[m + 1], Xor(BS_OCT, e[i]))
        BY <2>7, <4>1, <4>2 DEF Checks
      <4>4. C[m] \in Byte BY <3>1, <3>3, <3>4, XorTwins
      <4>5. C[m + 2] = Xor(C[m], Xor(93, e[i]))
        <5>1. Xor(BS_OCT, e[i]) \in Byte BY <3>1, XorByte, Codes
        <5>2. C[m + 2] = Xor(C[m], Xor(BS_ESC, Xor(BS_OCT, e[i])))
          BY <4>3, <4>4, <5>1, XorAssociates, Codes
        <5>3. Xor(BS_ESC, Xor(BS_OCT, e[i])) = Xor(Xor(BS_ESC, BS_OCT), e[i])
          BY <3>1, XorAssociates, Codes
        <5>4. Xor(BS_ESC, BS_OCT) = 93 BY XorCommutes, Codes
        <5> QED BY <5>2, <5>3, <5>4
      <4> QED BY <3>1, <3>3, <3>4, <4>1, <4>5, XorTwins
    <3>6. CASE e[i] \notin {FLAG, BS_ESC}
      <4>1. ln[i] = m + 1 /\ t[m + 1] = e[i] BY <3>2, <3>6 DEF Unit, m
      <4>2. m + 1 \in 1..Len(t) /\ (m + 1) - 1 = m BY <2>6, <3>2, <4>1
      <4>3. C[m + 1] = Xor(C[m], e[i]) BY <2>7, <4>1, <4>2 DEF Checks
      <4> QED BY <3>1, <3>3, <3>4, <4>1, <4>3, XorTwins
    <3> QED BY <3>5, <3>6
  <2>11. \A i \in 0..N : i \in T
    <3> HIDE DEF T
    <3> QED BY <2>8, <2>9, <2>10, Induct
  <2>12. N \in 0..N /\ N \in 1..N /\ N - 1 = Len(d) /\ e[N] \in Byte BY <2>3, <2>8
  <2>13. C[Len(t)] \in Twins(B[N])
    <3>1. ln[N] = Len(t) BY <2>5 DEF Units
    <3> QED BY <2>11, <2>12, <3>1
  <2>14. B[N] = 0
    <3>1. B[N] = Xor(e[N], e[N]) BY <2>4, <2>12 DEF Checks
    <3> QED BY <2>12, <3>1, XorZero
  <2>15. Xor(93, 0) = 93
    <3>1. 93 \in Byte BY DEF Byte
    <3> QED BY <3>1, XorZero
  <2> QED BY <2>7, <2>13, <2>14, <2>15 DEF Twins, t
<1> QED BY <1>1, <1>2

\* A field that the loop reads to its flag is refused when the exclusive or of its
\* bytes is not one that a frame's may have.
LEMMA Rejects ==
  ASSUME NEW a \in Behind, NEW t \in Seq(Byte), t # <<>>, Carries(a, t),
         \A q \in 1..Len(t) : t[q] # FLAG, t[Len(t)] # BS_ESC, Bcc(t) \notin {0, 93}
  PROVE  parse_frame_from_array(a).ret # SUCCESS_CODE
<1> DEFINE L == Len(t)
           R == Rounds(a)
<1>1. L \in Nat /\ L > 0 /\ \A q \in 1..L : t[q] \in Byte OBVIOUS
<1>2. PICK B : Checks(t, B) /\ Bcc(t) = B[L] BY BccChecks
<1>3. /\ B \in [0..L -> Byte] /\ B[0] = 0
      /\ \A i \in 1..L : B[i] = Xor(B[i - 1], t[i])
      /\ B[L] \notin {0, 93}
  BY <1>2 DEF Checks
<1> DEFINE T == {k \in 0..MaxRounds :
                   /\ R[k].at # "good"
                   /\ R[k].at = "loop" => R[k].n < L /\ R[k].bcc \in Twins(B[R[k].n])}
<1>4. 0 \in T
  <2>1. R[0] = Start BY RoundsResults DEF Results
  <2> QED BY <1>1, <1>3, <2>1, Sizes DEF Start, Twins
<1>5. ASSUME NEW k \in 1..MaxRounds, k - 1 \in T PROVE k \in T
  <2> DEFINE s == R[k - 1]
             m == s.n
  <2>1. /\ s \in Loop /\ R[k] \in Loop /\ R[k] = Round(a, s)
        /\ R[k].at = "loop" => s.at = "loop" /\ ~TooLarge(s.n, s.data)
    BY RoundsStep, Zenon
  <2>2. /\ s.at # "good"
        /\ s.at = "loop" => m < L /\ s.bcc \in Twins(B[m])
    BY <1>5
  <2>3. k \in 0..MaxRounds OBVIOUS
  <2> HIDE DEF s
  <2>4. CASE s.at # "loop"
    <3>1. R[k] = s BY <2>1, <2>4, RoundStops
    <3> QED BY <2>2, <2>3, <2>4, <3>1
  <2>5. CASE s.at = "loop" /\ TooLarge(s.n, s.data)
    <3>1. R[k] = [s EXCEPT !.at = "bad"] BY <2>1, <2>5, RoundStops
    <3>2. R[k].at = "bad" BY <2>1, <3>1 DEF Loop
    <3> QED BY <2>3, <3>2
  <2>6. CASE s.at = "loop" /\ ~TooLarge(s.n, s.data)
    <3> DEFINE c == Unescaped(a, s)
               n == After(a, s)
    <3>1. m \in Nat /\ m < L /\ s.bcc \in Twins(B[m]) /\ B[m] \in Byte
      <4>1. m \in Nat /\ m < L BY <2>1, <2>2, <2>6 DEF Loop
      <4>2. m \in 0..L BY <1>1, <4>1
      <4> QED BY <1>3, <2>2, <2>6, <4>1, <4>2
    <3>2. m + 1 \in 1..L /\ 3 + (m + 1) = 4 + m /\ (m + 1) - 1 = m BY <1>1, <3>1
    <3>3. a[4 + m] = t[m + 1] BY <3>2 DEF Carries
    <3>4. n \in m + 1..L /\ \E w \in Byte : B[n] = Xor(B[m], w) /\ c \in Twins(w)
      <4>1. CASE t[m + 1] = BS_ESC
        <5>1. Escaped(a, s) BY <3>3, <4>1 DEF Escaped
        <5>2. m + 1 # L BY <4>1
        <5>3. m + 2 \in 1..L /\ 3 + (m + 2) = 5 + m /\ (m + 2) - 1 = m + 1 BY <1>1, <3>1, <5>2
        <5> DEFINE y == t[m + 2]
                   w == Xor(BS_ESC, y)
        <5>4. y \in Byte /\ w \in Byte BY <1>1, <5>3, XorByte, Codes
        <5>5. n = m + 2 /\ c = Xor(BS_OCT, y)
          <6>1. a[5 + m] = y BY <5>3 DEF Carries
          <6> QED BY <5>1, <6>1 DEF Unescaped, After
        <5>6. B[m + 2] = Xor(B[m], w)
          <6>1. B[m + 2] = Xor(Xor(B[m], BS_ESC), y) BY <1>3, <3>2, <4>1, <5>3
          <6> QED BY <3>1, <5>4, <6>1, XorAssociates, Codes
        <5>7. Xor(BS_OCT, y) = Xor(93, w)
          <6>1. Xor(93, w) = Xor(Xor(93, BS_ESC), y) BY <5>4, XorAssociates, Codes
          <6>2. Xor(93, BS_ESC) = BS_OCT
            <7>1. Xor(Xor(BS_OCT, BS_ESC), BS_ESC) = BS_OCT BY XorTwice, Codes
            <7> QED BY <7>1, Codes
          <6> QED BY <6>1, <6>2
        <5> HIDE DEF w, y, c, n
        <5>8. n \in m + 1..L BY <1>1, <3>1, <5>3, <5>5
        <5>9. B[n] = Xor(B[m], w) /\ c \in Twins(w) BY <5>5, <5>6, <5>7 DEF Twins
        <5> QED BY <5>4, <5>8, <5>9
      <4>2. CASE t[m + 1] # BS_ESC
        <5>1. ~Escaped(a, s) BY <3>3, <4>2 DEF Escaped
        <5>2. n = m + 1 /\ c = t[m + 1] BY <3>3, <5>1 DEF Unescaped, After
        <5>3. B[m + 1] = Xor(B[m], t[m + 1]) /\ t[m + 1] \in Byte BY <1>1, <1>3, <3>2
        <5> HIDE DEF c, n
        <5>4. n \in m + 1..L BY <1>1, <3>1, <5>2
        <5>5. c \in Twins(t[m + 1]) BY <5>2 DEF Twins
        <5> QED BY <5>2, <5>3, <5>4, <5>5
      <4> QED BY <4>1, <4>2
    <3>5. PICK w \in Byte : B[n] = Xor(B[m], w) /\ c \in Twins(w) BY <3>4
    <3>6. Xor(s.bcc, c) \in Twins(B[n]) /\ (s.bcc = c => B[n] \in {0, 93})
      BY <3>1, <3>5, XorTwins
    <3>7. CASE n = L
      <4>1. a[4 + n] = FLAG BY <3>7 DEF Carries
      <4>2. Round(a, s) = [n |-> n, data |-> Append(s.data, c), bcc |-> s.bcc,
                           at |-> IF c = s.bcc THEN "good" ELSE "bad"]
        BY <2>1, <2>6, <4>1, RoundReads, Zenon
      <4>3. c # s.bcc BY <1>3, <3>6, <3>7
      <4>4. R[k].at = "bad" BY <2>1, <4>2, <4>3
      <4> QED BY <2>3, <4>4
    <3>8. CASE n # L
      <4>1. n + 1 \in 1..L /\ 3 + (n + 1) = 4 + n /\ n < L
        <5> HIDE DEF n
        <5> QED BY <1>1, <3>1, <3>4, <3>8
      <4>2. a[4 + n] # FLAG BY <4>1 DEF Carries
      <4>3. Round(a, s) = [n |-> n, data |-> Append(s.data, c), bcc |-> Xor(s.bcc, c),
                           at |-> "loop"]
        BY <2>1, <2>6, <4>2, RoundReads, Zenon
      <4>4. R[k].at = "loop" /\ R[k].n = n /\ R[k].bcc = Xor(s.bcc, c) BY <2>1, <4>3
      <4> HIDE DEF c, n
      <4> QED BY <2>3, <3>6, <4>1, <4>4
    <3> QED BY <3>7, <3>8
  <2> QED BY <2>4, <2>5, <2>6
<1>6. \A k \in 0..MaxRounds : k \in T
  <2> HIDE DEF T
  <2> QED BY <1>4, <1>5, Sizes, Induct
<1>7. R[MaxRounds].at # "good"
  <2>1. MaxRounds \in 0..MaxRounds BY Sizes
  <2> QED BY <1>6, <2>1
<1>8. Unstuff(a) = Bad(a[2]) BY <1>7, Zenon DEF Unstuff
<1>9. a[4] # FLAG
  <2>1. 1 \in 1..L /\ 3 + 1 = 4 BY <1>1
  <2> QED BY <2>1 DEF Carries
<1>10. parse_frame_from_array(a) \in {Bad(-1), Bad(a[2])}
  BY <1>8, <1>9, Zenon DEF parse_frame_from_array
<1>11. \A c : Bad(c).ret # SUCCESS_CODE BY DEF Bad, BADFRAME_CODE, SUCCESS_CODE
<1> QED BY <1>10, <1>11

LEMMA RejectsHeader ==
  ASSUME NEW a, a[3] # Xor(a[1], a[2])
  PROVE  parse_frame_from_array(a).ret # SUCCESS_CODE
<1>1. parse_frame_from_array(a) \in {Bad(-1), Bad(a[2])}
  BY Zenon DEF parse_frame_from_array, HeaderOk
<1>2. \A c : Bad(c).ret # SUCCESS_CODE BY DEF Bad, BADFRAME_CODE, SUCCESS_CODE
<1> QED BY <1>1, <1>2

\* One bit more or less, in a byte of the field or of a flag beside it, makes its
\* exclusive or such a one.
LEMMA OneBit ==
  ASSUME NEW x \in {0, 93}, NEW bit \in Bits
  PROVE  Xor(x, bit) \notin {0, 93} /\ Xor(x, Xor(FLAG, bit)) \notin {0, 93}
<1>1. x \in Byte /\ bit \in Byte /\ 0 \in Byte /\ 93 \in Byte /\ FLAG \in Byte BY Codes
<1>2. ASSUME NEW y \in {0, 93}, Xor(x, bit) = y PROVE FALSE
  <2>1. bit = Xor(x, y) BY <1>1, <1>2, XorTwice
  <2>2. Xor(x, y) \in {0, 93} BY <1>1, XorZero
  <2> QED BY <2>1, <2>2, Codes
<1>3. ASSUME NEW y \in {0, 93}, Xor(x, Xor(FLAG, bit)) = y PROVE FALSE
  <2>1. Xor(FLAG, bit) \in Byte BY <1>1, XorByte
  <2>2. Xor(FLAG, bit) = Xor(x, y) BY <1>1, <1>3, <2>1, XorTwice
  <2>3. Xor(x, y) \in {0, 93} BY <1>1, XorZero
  <2>4. bit = Xor(FLAG, 0) \/ bit = Xor(FLAG, 93) BY <1>1, <2>2, <2>3, XorTwice
  <2> QED BY <1>1, <2>4, XorZero, Codes
<1> QED BY <1>2, <1>3

\* A flag with one bit changed is no escape and not zero.
LEMMA FlagBit ==
  ASSUME NEW bit \in Bits
  PROVE  Xor(FLAG, bit) \in Byte /\ Xor(FLAG, bit) # BS_ESC /\ Xor(FLAG, bit) # FLAG
<1>1. bit \in Byte /\ FLAG \in Byte /\ BS_ESC \in Byte /\ bit # 0 BY Codes
<1>2. Xor(FLAG, bit) = BS_ESC => bit = Xor(FLAG, BS_ESC) BY <1>1, XorTwice
<1>3. Xor(FLAG, bit) = FLAG => bit = Xor(FLAG, FLAG) BY <1>1, XorTwice
<1> QED BY <1>1, <1>2, <1>3, XorByte, XorZero, Codes

\* The frame of which one bit between the flags was flipped.
LEMMA DamagedInside ==
  ASSUME NEW f \in Fitting, NEW a \in Behind, NEW x \in 2..Len(Built(f)) - 1, NEW bit \in Bits,
         Xor(Built(f)[x], bit) # FLAG,
         x = Len(Built(f)) - 1 => Xor(Built(f)[x], bit) # BS_ESC,
         \A q \in 1..Len(Built(f)) - 1 :
           a[q] = IF 1 + q = x THEN Xor(Built(f)[x], bit) ELSE Built(f)[1 + q]
  PROVE  parse_frame_from_array(a).ret # SUCCESS_CODE
<1> DEFINE b == Built(f)
           t == Field(f)
           c == f.control
           N == Len(t)
<1>1. Framed(b, c, t) /\ c \in Byte BY BuiltBytes, FrameParts
<1>2. /\ t \in Seq(Byte) /\ (\A q \in 1..N : t[q] # FLAG)
      /\ N > 0 => t[N] # BS_ESC
  BY FieldBytes
<1>3. Bcc(t) \in {0, 93} BY FieldCheck
<1>4. bit \in Byte /\ bit # 0 BY Codes
<1>5. /\ x \in 2..Len(b) - 1 /\ Xor(b[x], bit) # FLAG /\ (x = Len(b) - 1 => Xor(b[x], bit) # BS_ESC)
      /\ \A q \in 1..Len(b) - 1 : a[q] = IF 1 + q = x THEN Xor(b[x], bit) ELSE b[1 + q]
  OBVIOUS
<1> HIDE DEF b, t, c
<1>6. N \in Nat /\ Len(b) = 5 + N /\ x \in Nat BY <1>1, <1>2, <1>5 DEF Framed
<1>7. b[2] = A /\ b[3] = c /\ b[4] = Xor(A, c) /\ A \in Byte /\ Xor(A, c) \in Byte
  BY <1>1, XorByte, Codes DEF Framed
<1>8. CASE x <= 4
  <2>1. /\ a[1] = IF x = 2 THEN Xor(A, bit) ELSE A
        /\ a[2] = IF x = 3 THEN Xor(c, bit) ELSE c
        /\ a[3] = IF x = 4 THEN Xor(Xor(A, c), bit) ELSE Xor(A, c)
    <3>1. 1 \in 1..Len(b) - 1 /\ 2 \in 1..Len(b) - 1 /\ 3 \in 1..Len(b) - 1 BY <1>6
    <3>2. a[1] = IF 2 = x THEN Xor(b[x], bit) ELSE b[2] BY <1>5, <3>1
    <3>3. a[2] = IF 3 = x THEN Xor(b[x], bit) ELSE b[3] BY <1>5, <3>1
    <3>4. a[3] = IF 4 = x THEN Xor(b[x], bit) ELSE b[4] BY <1>5, <3>1
    <3>5. a[1] = IF x = 2 THEN Xor(A, bit) ELSE A BY <1>7, <3>2
    <3>6. a[2] = IF x = 3 THEN Xor(c, bit) ELSE c BY <1>7, <3>3
    <3>7. a[3] = IF x = 4 THEN Xor(Xor(A, c), bit) ELSE Xor(A, c) BY <1>7, <3>4
    <3> QED BY <3>5, <3>6, <3>7
  <2>2. \A y \in Byte : Xor(y, bit) # y
    <3>1. ASSUME NEW y \in Byte, Xor(y, bit) = y PROVE FALSE
      <4>1. bit = Xor(y, y) BY <1>4, <3>1, XorTwice
      <4> QED BY <1>4, <4>1, XorZero
    <3> QED BY <3>1
  <2>3. x = 2 \/ x = 3 \/ x = 4 BY <1>5, <1>6, <1>8
  <2>4. Xor(A, bit) \in Byte /\ Xor(c, bit) \in Byte BY <1>1, <1>4, XorByte, Codes
  <2>5. a[3] # Xor(a[1], a[2])
    <3>1. CASE x = 2
      <4>1. Xor(A, bit) # A BY <2>2, <1>7
      <4>2. Xor(A, c) # Xor(Xor(A, bit), c) BY <1>1, <1>7, <2>4, <4>1, XorInjective
      <4> QED BY <2>1, <3>1, <4>2
    <3>2. CASE x = 3
      <4>1. Xor(c, bit) # c BY <2>2, <1>1
      <4>2. Xor(A, c) # Xor(A, Xor(c, bit)) BY <1>1, <1>7, <2>4, <4>1, XorInjective
      <4> QED BY <2>1, <3>2, <4>2
    <3>3. CASE x = 4
      <4>1. Xor(Xor(A, c), bit) # Xor(A, c) BY <2>2, <1>7
      <4> QED BY <2>1, <3>3, <4>1
    <3> QED BY <2>3, <3>1, <3>2, <3>3
  <2> QED BY <2>5, RejectsHeader
<1>9. CASE x > 4
  <2> DEFINE k == x - 4
             u == [t EXCEPT ![k] = Xor(t[k], bit)]
  <2>1. k \in 1..N /\ x = 4 + k /\ b[x] = t[k] /\ t[k] \in Byte
    <3>1. k \in 1..N /\ x = 4 + k BY <1>5, <1>6, <1>9
    <3> QED BY <1>1, <1>2, <3>1 DEF Framed
  <2>2. Xor(t[k], bit) \in Byte BY <1>4, <2>1, XorByte
  <2>3. /\ u \in Seq(Byte) /\ Len(u) = N /\ u[k] = Xor(t[k], bit)
        /\ \A q \in 1..N : q # k => u[q] = t[q]
    BY <1>2, <2>1, <2>2
  <2>4. Bcc(u) = Xor(Bcc(t), bit) BY <1>2, <1>4, <2>1, BccChanged
  <2> HIDE DEF u
  <2>5. Bcc(u) \notin {0, 93} BY <1>3, <2>4, OneBit
  <2>6. \A q \in 1..N : u[q] # FLAG BY <1>2, <1>5, <2>1, <2>3
  <2>7. u[N] # BS_ESC
    <3>1. CASE k = N BY <1>5, <1>6, <2>1, <2>3, <3>1
    <3>2. CASE k # N BY <1>2, <1>6, <2>1, <2>3, <3>2
    <3> QED BY <3>1, <3>2
  <2>8. Carries(a, u)
    <3>1. ASSUME NEW q \in 1..N PROVE a[3 + q] = u[q]
      <4>1. 3 + q \in 1..Len(b) - 1 /\ 1 + (3 + q) = 4 + q BY <1>6
      <4>2. b[4 + q] = t[q] BY <1>1 DEF Framed
      <4>3. CASE q = k BY <1>5, <2>1, <2>3, <4>1, <4>3
      <4>4. CASE q # k
        <5>1. 1 + (3 + q) # x BY <2>1, <4>4
        <5>2. a[3 + q] = b[4 + q] BY <1>5, <4>1, <5>1
        <5> QED BY <2>3, <4>2, <4>4, <5>2
      <4> QED BY <4>3, <4>4
    <3>2. a[4 + N] = FLAG
      <4>1. 4 + N \in 1..Len(b) - 1 /\ 1 + (4 + N) = 5 + N /\ 5 + N # x BY <1>5, <1>6
      <4>2. a[4 + N] = b[5 + N] BY <1>5, <4>1
      <4> QED BY <1>1, <4>2 DEF Framed
    <3> QED BY <2>3, <3>1, <3>2 DEF Carries
  <2>9. u # <<>> BY <2>1, <2>3
  <2>10. \A q \in 1..Len(u) : u[q] # FLAG BY <2>3, <2>6
  <2>11. u[Len(u)] # BS_ESC BY <2>3, <2>7
  <2> QED BY <2>3, <2>5, <2>8, <2>9, <2>10, <2>11, Rejects
<1> QED BY <1>6, <1>8, <1>9

\* The frame whose closing flag became another byte: it is read up to the flag that
\* opens the next one.
LEMMA DamagedClosing ==
  ASSUME NEW f \in Fitting, NEW a \in Behind, NEW bit \in Bits,
         \A q \in 1..Len(Built(f)) - 2 : a[q] = Built(f)[1 + q],
         a[Len(Built(f)) - 1] = Xor(FLAG, bit), a[Len(Built(f))] = FLAG
  PROVE  parse_frame_from_array(a).ret # SUCCESS_CODE
<1> DEFINE b == Built(f)
           t == Field(f)
           N == Len(t)
           X == Xor(FLAG, bit)
           u == Append(t, X)
<1>1. Framed(b, f.control, t) BY BuiltBytes
<1>2. t \in Seq(Byte) /\ \A q \in 1..N : t[q] # FLAG BY FieldBytes
<1>3. Bcc(t) \in {0, 93} BY FieldCheck
<1>4. X \in Byte /\ X # BS_ESC /\ X # FLAG BY FlagBit
<1>5. /\ \A q \in 1..Len(b) - 2 : a[q] = b[1 + q]
      /\ a[Len(b) - 1] = X /\ a[Len(b)] = FLAG
  OBVIOUS
<1> HIDE DEF b, t
<1>6. Bcc(u) \notin {0, 93}
  <2>1. Bcc(u) = Xor(Bcc(t), X) BY <1>2, <1>4, BccAppend
  <2> QED BY <1>3, <2>1, OneBit
<1> HIDE DEF X
<1>7. /\ u \in Seq(Byte) /\ Len(u) = N + 1 /\ u[N + 1] = X
      /\ \A q \in 1..N : u[q] = t[q]
  BY <1>2, <1>4
<1> HIDE DEF u
<1>8. N \in Nat /\ Len(b) = 5 + N BY <1>1, <1>2 DEF Framed
<1>9. Carries(a, u)
  <2>1. ASSUME NEW q \in 1..N + 1 PROVE a[3 + q] = u[q]
    <3>1. CASE q = N + 1
      <4>1. 3 + q = Len(b) - 1 BY <1>8, <3>1
      <4> QED BY <1>5, <1>7, <3>1, <4>1
    <3>2. CASE q # N + 1
      <4>1. q \in 1..N /\ 3 + q \in 1..Len(b) - 2 /\ 1 + (3 + q) = 4 + q BY <1>8, <3>2
      <4>2. a[3 + q] = b[4 + q] BY <1>5, <4>1
      <4> QED BY <1>1, <1>7, <4>1, <4>2 DEF Framed
    <3> QED BY <3>1, <3>2
  <2>2. a[4 + (N + 1)] = FLAG
    <3>1. 4 + (N + 1) = Len(b) BY <1>8
    <3> QED BY <1>5, <3>1
  <2> QED BY <1>7, <2>1, <2>2 DEF Carries
<1>10. ASSUME NEW q \in 1..Len(u) PROVE u[q] # FLAG
  <2>1. q = N + 1 \/ q \in 1..N BY <1>7, <1>8
  <2> QED BY <1>2, <1>4, <1>7, <2>1
<1>11. u # <<>> /\ u[Len(u)] # BS_ESC BY <1>4, <1>7, <1>8
<1> QED BY <1>6, <1>7, <1>9, <1>10, <1>11, Rejects

\* The frame whose opening flag became another byte, read from the flag that closes
\* the one before: it would be a header only if its check byte is that byte too.
LEMMA DamagedOpening ==
  ASSUME NEW f \in Fitting, NEW a \in Behind, NEW bit \in Bits,
         a[1] = Xor(FLAG, bit), \A q \in 2..Len(Built(f)) : a[q] = Built(f)[q]
  PROVE  parse_frame_from_array(a).ret # SUCCESS_CODE
<1> DEFINE b == Built(f)
           t == Field(f)
           c == f.control
           N == Len(t)
           X == Xor(FLAG, bit)
           u == [q \in 1..N + 1 |-> IF q = 1 THEN X ELSE t[q - 1]]
<1>1. Framed(b, c, t) /\ c \in Byte /\ A \in Byte BY BuiltBytes, FrameParts, Codes
<1>2. /\ t \in Seq(Byte) /\ (\A q \in 1..N : t[q] # FLAG)
      /\ N > 0 => t[N] # BS_ESC
  BY FieldBytes
<1>3. Bcc(t) \in {0, 93} BY FieldCheck
<1>4. X \in Byte /\ X # BS_ESC /\ X # FLAG BY FlagBit
<1>5. a[1] = X /\ \A q \in 2..Len(b) : a[q] = b[q] OBVIOUS
<1>6. Xor(Bcc(t), X) \notin {0, 93} BY <1>3, OneBit
<1> HIDE DEF b, t, c, X
<1>7. N \in Nat /\ Len(b) = 5 + N BY <1>1, <1>2 DEF Framed
<1>8. a[2] = A /\ a[3] = c /\ a[4] = Xor(A, c)
  <2>1. 2 \in 2..Len(b) /\ 3 \in 2..Len(b) /\ 4 \in 2..Len(b) BY <1>7
  <2> QED BY <1>1, <1>5, <2>1 DEF Framed
<1>9. CASE c # Xor(X, A) BY <1>5, <1>8, <1>9, RejectsHeader
<1>10. CASE c = Xor(X, A)
  <2>1. a[4] = X
    <3>1. Xor(A, X) = c BY <1>1, <1>4, <1>10, XorCommutes
    <3>2. Xor(A, Xor(A, X)) = X BY <1>1, <1>4, XorTwice
    <3> QED BY <1>8, <3>1, <3>2
  <2>2. /\ u \in Seq(Byte) /\ Len(u) = N + 1 /\ u[1] = X
        /\ \A q \in 1..N : u[1 + q] = t[q]
    <3>1. \A q \in 1..N + 1 : u[q] \in Byte BY <1>2, <1>4, <1>7
    <3>2. u \in [1..N + 1 -> Byte] BY <3>1
    <3>3. u \in Seq(Byte) /\ Len(u) = N + 1 BY <1>7, <3>2
    <3> QED BY <1>7, <3>3
  <2> HIDE DEF u
  <2>3. Bcc(u) \notin {0, 93}
    <3>1. Bcc(u) = Xor(X, Bcc(t)) BY <1>2, <1>4, <2>2, BccPrepend
    <3>2. Bcc(t) \in Byte BY <1>2, BccByte
    <3> QED BY <1>4, <1>6, <3>1, <3>2, XorCommutes
  <2>4. ASSUME NEW q \in 1..Len(u), q # 1 PROVE q - 1 \in 1..N /\ u[q] = t[q - 1]
    <3>1. q - 1 \in 1..N /\ 1 + (q - 1) = q BY <1>7, <2>2, <2>4
    <3> QED BY <2>2, <3>1
  <2>5. Carries(a, u)
    <3>1. ASSUME NEW q \in 1..Len(u) PROVE a[3 + q] = u[q]
      <4>1. CASE q = 1 BY <2>1, <2>2, <4>1
      <4>2. CASE q # 1
        <5>1. q - 1 \in 1..N /\ u[q] = t[q - 1] BY <2>4, <4>2
        <5>2. 3 + q \in 2..Len(b) /\ 4 + (q - 1) = 3 + q BY <1>7, <2>2, <5>1
        <5> QED BY <1>1, <1>5, <5>1, <5>2 DEF Framed
      <4> QED BY <4>1, <4>2
    <3>2. a[4 + Len(u)] = FLAG
      <4>1. 4 + Len(u) = 5 + N /\ 5 + N \in 2..Len(b) BY <1>7, <2>2
      <4> QED BY <1>1, <1>5, <4>1 DEF Framed
    <3> QED BY <3>1, <3>2 DEF Carries
  <2>6. ASSUME NEW q \in 1..Len(u) PROVE u[q] # FLAG
    <3>1. CASE q = 1 BY <1>4, <2>2, <3>1
    <3>2. CASE q # 1 BY <1>2, <2>4, <3>2
    <3> QED BY <3>1, <3>2
  <2>7. u # <<>> /\ u[Len(u)] # BS_ESC
    <3>1. Len(u) > 0 /\ Len(u) \in 1..Len(u) BY <1>7, <2>2
    <3>2. CASE N = 0 BY <1>4, <2>2, <3>2
    <3>3. CASE N # 0
      <4>1. Len(u) # 1 /\ Len(u) - 1 = N /\ N > 0 BY <1>7, <2>2, <3>3
      <4> QED BY <1>2, <2>4, <3>1, <4>1
    <3> QED BY <3>1, <3>2, <3>3
  <2> QED BY <2>2, <2>3, <2>5, <2>6, <2>7, Rejects
<1> QED BY <1>9, <1>10

-----------------------------------------------------------------------------
(* The line.                                                               *)

\* Frame k of ss stands in W from place st[k - 1] + 1 to st[k].
Layout(ss, st, W) ==
  /\ W \in Seq(Byte) /\ st \in [0..Len(ss) -> Nat] /\ st[0] = 0 /\ Len(W) = st[Len(ss)]
  /\ \A k \in 1..Len(ss) :
       /\ st[k] = st[k - 1] + Len(Built(ss[k]))
       /\ \A q \in 1..Len(Built(ss[k])) : W[st[k - 1] + q] = Built(ss[k])[q]

LEMMA LayoutEmpty == Layout(<<>>, [k \in 0..0 |-> 0], <<>>)
BY DEF Layout

LEMMA LayoutOrder ==
  ASSUME NEW ss \in Seq(Fitting), NEW st, NEW W, Layout(ss, st, W)
  PROVE  \A k \in 0..Len(ss) : st[k] \in Nat /\ st[k] <= Len(W)
<1> DEFINE N == Len(ss)
           U == {i \in 0..N : st[N - i] <= Len(W)}
<1>1. N \in Nat /\ st \in [0..N -> Nat] /\ Len(W) = st[N] /\ Len(W) \in Nat BY DEF Layout
<1>2. 0 \in U BY <1>1
<1>3. ASSUME NEW i \in 1..N, i - 1 \in U PROVE i \in U
  <2> DEFINE k == N - i + 1
  <2>1. k \in 1..N /\ k - 1 = N - i /\ N - (i - 1) = k /\ k - 1 \in 0..N /\ k \in 0..N
    BY <1>1
  <2>2. ss[k] \in Fitting BY <2>1
  <2>3. Len(Built(ss[k])) \in Nat BY <2>2, BuiltBytes
  <2>4. st[k] = st[k - 1] + Len(Built(ss[k])) BY <2>1 DEF Layout
  <2>5. st[k] <= Len(W) BY <1>3, <2>1
  <2>6. st[k - 1] \in Nat /\ st[k] \in Nat BY <1>1, <2>1
  <2> HIDE DEF k
  <2>7. st[k - 1] <= Len(W) BY <1>1, <2>3, <2>4, <2>5, <2>6
  <2>8. i \in 0..N BY <1>1
  <2> QED BY <2>1, <2>7, <2>8
<1>4. \A i \in 0..N : i \in U
  <2> HIDE DEF U
  <2> QED BY <1>1, <1>2, <1>3, Induct
<1>5. ASSUME NEW k \in 0..N PROVE st[k] \in Nat /\ st[k] <= Len(W)
  <2>1. N - k \in 0..N /\ N - (N - k) = k BY <1>1
  <2> QED BY <1>1, <1>4, <2>1
<1> QED BY <1>5

\* The places of one frame: flags at its ends, and nowhere else.
FrameAt(ss, st, W, k) ==
  LET n == Len(Built(ss[k])) IN
  /\ ss[k] \in Fitting /\ n \in 5..LL_MAX_FRAME_SZ - 1
  /\ st[k - 1] \in Nat /\ st[k] = st[k - 1] + n /\ st[k] <= Len(W)
  /\ \A q \in 1..n : W[st[k - 1] + q] = Built(ss[k])[q]
  /\ W[st[k - 1] + 1] = FLAG /\ W[st[k]] = FLAG
  /\ \A q \in 2..n - 1 : W[st[k - 1] + q] # FLAG

LEMMA LayoutFrame ==
  ASSUME NEW ss \in Seq(Fitting), NEW st, NEW W, Layout(ss, st, W), NEW k \in 1..Len(ss)
  PROVE  FrameAt(ss, st, W, k)
<1> DEFINE b == Built(ss[k])
           n == Len(b)
           p == st[k - 1]
<1>1. ss[k] \in Fitting /\ k - 1 \in 0..Len(ss) /\ k \in 0..Len(ss) OBVIOUS
<1>2. /\ n \in 5..LL_MAX_FRAME_SZ - 1 /\ Framed(b, ss[k].control, Field(ss[k]))
      /\ \A q \in 2..n - 1 : b[q] # FLAG
  BY <1>1, BuiltBytes
<1>3. p \in Nat /\ st[k] <= Len(W) BY <1>1, LayoutOrder
<1>4. st[k] = p + n /\ \A q \in 1..n : W[p + q] = b[q] BY DEF Layout
<1>5. b[1] = FLAG /\ b[n] = FLAG BY <1>2 DEF Framed
<1> HIDE DEF b, p
<1>6. 1 \in 1..n /\ n \in 1..n /\ \A q \in 2..n - 1 : q \in 1..n BY <1>2, Sizes
<1>7. W[p + 1] = FLAG /\ W[st[k]] = FLAG /\ \A q \in 2..n - 1 : W[p + q] # FLAG
  BY <1>2, <1>4, <1>5, <1>6
<1> QED BY <1>1, <1>2, <1>3, <1>4, <1>7 DEF FrameAt, b, p

LEMMA LayoutAppend ==
  ASSUME NEW ss \in Seq(Fitting), NEW st, NEW W, Layout(ss, st, W), NEW f \in Fitting
  PROVE  \E su : Layout(Append(ss, f), su, W \o Built(f))
<1> DEFINE N == Len(ss)
           b == Built(f)
           tt == Append(ss, f)
           V == W \o b
           su == [k \in 0..N + 1 |-> IF k <= N THEN st[k] ELSE st[N] + Len(b)]
<1>1. /\ N \in Nat /\ tt \in Seq(Fitting) /\ Len(tt) = N + 1 /\ tt[N + 1] = f
      /\ \A k \in 1..N : tt[k] = ss[k]
  OBVIOUS
<1>2. b \in Seq(Byte) /\ Len(b) \in Nat BY BuiltBytes DEF Framed
<1>3. W \in Seq(Byte) /\ st \in [0..N -> Nat] /\ st[0] = 0 /\ Len(W) = st[N] BY DEF Layout
<1> HIDE DEF tt, b
<1>4. Joined(V, W, b) BY <1>2, <1>3, Concatenated
<1> HIDE DEF V
<1>5. su \in [0..N + 1 -> Nat]
  <2>1. N \in 0..N /\ st[N] \in Nat BY <1>1, <1>3
  <2> QED BY <1>1, <1>2, <1>3, <2>1
<1>6. su[N + 1] = st[N] + Len(b) /\ \A k \in 0..N : su[k] = st[k] BY <1>1
<1> HIDE DEF su
<1>7. ASSUME NEW k \in 1..N + 1
      PROVE  /\ su[k] = su[k - 1] + Len(Built(tt[k]))
             /\ \A q \in 1..Len(Built(tt[k])) : V[su[k - 1] + q] = Built(tt[k])[q]
  <2>1. CASE k = N + 1
    <3>1. k - 1 = N /\ N \in 0..N /\ Built(tt[k]) = b BY <1>1, <2>1 DEF b
    <3>2. \A q \in 1..Len(b) : V[st[N] + q] = b[q] BY <1>3, <1>4 DEF Joined
    <3> QED BY <1>6, <2>1, <3>1, <3>2
  <2>2. CASE k # N + 1
    <3>1. k \in 1..N /\ k \in 0..N /\ k - 1 \in 0..N /\ tt[k] = ss[k] BY <1>1, <2>2
    <3>2. FrameAt(ss, st, W, k) BY <3>1, LayoutFrame
    <3> DEFINE c == Built(ss[k])
               p == st[k - 1]
    <3>3. /\ p \in Nat /\ st[k] = p + Len(c) /\ st[k] <= Len(W) /\ Len(c) \in Nat
          /\ \A q \in 1..Len(c) : W[p + q] = c[q]
      BY <3>2, Sizes DEF FrameAt
    <3> HIDE DEF c, p
    <3>4. ASSUME NEW q \in 1..Len(c) PROVE V[p + q] = c[q]
      <4>1. Len(W) \in Nat BY <1>3
      <4>2. p + q \in 1..Len(W) BY <3>3, <4>1
      <4> QED BY <1>4, <3>3, <4>2 DEF Joined
    <3> QED BY <1>6, <3>1, <3>3, <3>4 DEF c, p
  <2> QED BY <2>1, <2>2
<1>8. Len(V) = su[N + 1] /\ V \in Seq(Byte) BY <1>3, <1>4, <1>6 DEF Joined
<1>9. su[0] = 0 BY <1>1, <1>3, <1>6
<1>10. Layout(tt, su, V) BY <1>1, <1>5, <1>7, <1>8, <1>9 DEF Layout
<1> QED BY <1>10 DEF tt, V, b

\* Every place between two frames, or inside of one, belongs to a frame that goes on.
LEMMA LayoutPlace ==
  ASSUME NEW ss \in Seq(Fitting), NEW st, NEW W, Layout(ss, st, W), NEW p \in 0..Len(W) - 1
  PROVE  \E k \in 1..Len(ss) : p \in st[k - 1]..st[k] - 1
<1> DEFINE S == {k \in 0..Len(ss) : p < st[k]}
<1>1. /\ Len(ss) \in Nat /\ st \in [0..Len(ss) -> Nat] /\ st[0] = 0 /\ Len(W) = st[Len(ss)]
      /\ Len(W) \in Nat
  BY DEF Layout
<1>2. Len(ss) \in S BY <1>1
<1>3. PICK m \in S : \A k \in S : m <= k
  <2>1. S \subseteq Nat OBVIOUS
  <2> HIDE DEF S
  <2> QED BY <1>2, <2>1, Least
<1>4. m # 0 /\ m \in 1..Len(ss) /\ m - 1 \in 0..Len(ss) /\ ~(m <= m - 1) BY <1>1
<1>5. ~(p < st[m - 1]) BY <1>3, <1>4
<1>6. st[m] \in Nat /\ st[m - 1] \in Nat /\ p < st[m] BY <1>1, <1>4
<1> QED BY <1>4, <1>5, <1>6

-----------------------------------------------------------------------------
(* Reading. V is the line as the receiver gets it, p how much of it has been *)
(* read.                                                                   *)

\* What is left of s when i bytes are taken off.
Rest(r, s, i) ==
  r \in Seq(Byte) /\ Len(r) = Len(s) - i /\ \A j \in 1..Len(s) - i : r[j] = s[i + j]

LEMMA Rests ==
  ASSUME NEW s \in Seq(Byte), NEW i \in 0..Len(s)
  PROVE  Rest(SubSeq(s, i + 1, Len(s)), s, i)
BY DEF Rest

LEMMA SameRests ==
  ASSUME NEW s \in Seq(Byte), NEW u \in Seq(Byte), NEW k, k = Len(s), Len(u) = k,
         \A j \in 1..k : s[j] = u[j]
  PROVE  s = u
OBVIOUS

\* n bytes of V are taken from place p on.
Taken(V, p, n, maxc) ==
  /\ n \in 1..Len(V) - p /\ n <= maxc /\ (V[p + n] = FLAG \/ n = maxc)
  /\ \A j \in 1..n - 1 : V[p + j] # FLAG
  /\ line[n] = V[p + n]
  /\ SubSeq(line, n + 1, Len(line)) = SubSeq(V, (p + n) + 1, Len(V))
  /\ SubSeq(line, 1, n) \in Seq(Byte) /\ Len(SubSeq(line, 1, n)) = n
  /\ \A j \in 1..n : SubSeq(line, 1, n)[j] = V[p + j]

LEMMA ReadsAt ==
  ASSUME NEW V \in Seq(Byte), NEW p \in 0..Len(V), line = SubSeq(V, p + 1, Len(V)),
         NEW maxc \in Nat, maxc > 0, NEW n \in Reads(maxc)
  PROVE  Taken(V, p, n, maxc)
<1>1. Rest(line, V, p) BY Rests
<1>2. /\ line \in Seq(Byte) /\ Len(line) = Len(V) - p /\ Len(line) \in Nat /\ Len(V) \in Nat
      /\ \A j \in 1..Len(V) - p : line[j] = V[p + j]
  BY <1>1 DEF Rest
<1>3. /\ n \in 1..Len(line) /\ (line[n] = FLAG \/ n = maxc)
      /\ \A k \in 1..Len(line) : line[k] = FLAG \/ k = maxc => n <= k
  BY DEF Reads
<1>4. n \in 1..Len(V) - p /\ n \in Nat /\ line[n] = V[p + n] BY <1>2, <1>3
<1>5. n <= maxc
  <2>1. CASE n <= maxc BY <2>1
  <2>2. CASE ~(n <= maxc)
    <3>1. maxc \in 1..Len(line) BY <1>2, <1>3, <1>4, <2>2
    <3> QED BY <1>3, <3>1
  <2> QED BY <2>1, <2>2
<1>6. ASSUME NEW j \in 1..n - 1 PROVE V[p + j] # FLAG
  <2>1. j \in 1..Len(line) /\ j \in 1..Len(V) - p /\ ~(n <= j) BY <1>2, <1>4
  <2> QED BY <1>2, <1>3, <2>1
<1>7. SubSeq(line, n + 1, Len(line)) = SubSeq(V, (p + n) + 1, Len(V))
  <2> DEFINE s == SubSeq(line, n + 1, Len(line))
             u == SubSeq(V, (p + n) + 1, Len(V))
             m == Len(V) - (p + n)
  <2>1. n \in 0..Len(line) /\ p + n \in 0..Len(V) /\ Len(line) - n = m BY <1>2, <1>4
  <2>2. Rest(s, line, n) BY <1>2, <2>1, Rests
  <2>3. Rest(u, V, p + n) BY <2>1, Rests
  <2> HIDE DEF s, u
  <2>4. ASSUME NEW j \in 1..m PROVE s[j] = u[j]
    <3>1. s[j] = line[n + j] /\ u[j] = V[(p + n) + j] BY <2>1, <2>2, <2>3 DEF Rest
    <3>2. n + j \in 1..Len(V) - p /\ p + (n + j) = (p + n) + j BY <1>2, <1>4, <2>1
    <3>3. line[n + j] = V[p + (n + j)] BY <1>2, <3>2
    <3> QED BY <3>1, <3>2, <3>3
  <2>5. s \in Seq(Byte) /\ u \in Seq(Byte) /\ m = Len(s) /\ Len(u) = m
    BY <2>1, <2>2, <2>3 DEF Rest
  <2> HIDE DEF m
  <2>6. s = u BY <2>4, <2>5, SameRests
  <2> QED BY <2>6 DEF s, u
<1>8. /\ SubSeq(line, 1, n) \in Seq(Byte) /\ Len(SubSeq(line, 1, n)) = n
      /\ \A j \in 1..n : SubSeq(line, 1, n)[j] = line[j]
  BY <1>2, <1>3
<1>9. \A j \in 1..n : SubSeq(line, 1, n)[j] = V[p + j]
  <2>1. \A j \in 1..n : j \in 1..Len(V) - p BY <1>2, <1>4
  <2> QED BY <1>2, <1>8, <2>1
<1> QED BY <1>3, <1>4, <1>5, <1>6, <1>7, <1>8, <1>9 DEF Taken

\* What is put into the buffer stays within it, if there is room behind its place.
LEMMA Filled ==
  ASSUME g_buffer \in [1..LL_MAX_FRAME_SZ -> Byte], NEW u \in Seq(Byte)
  PROVE  /\ Len(u) <= LL_MAX_FRAME_SZ => Put(u, 1) \in [1..LL_MAX_FRAME_SZ -> Byte]
         /\ Len(u) < LL_MAX_FRAME_SZ =>
              LET filled == [Put(u, 2) EXCEPT ![1] = FLAG] IN
              /\ filled \in [1..LL_MAX_FRAME_SZ -> Byte]
              /\ Tail(filled) \in Behind /\ \A j \in 1..Len(u) : Tail(filled)[j] = u[j]
<1> DEFINE M == LL_MAX_FRAME_SZ
<1>1. M \in Nat /\ M > 6 /\ Len(u) \in Nat BY Sizes
<1>2. ASSUME NEW at \in {1, 2}, at + Len(u) - 1 <= M
      PROVE  /\ Put(u, at) \in [1..M -> Byte]
             /\ \A j \in 1..Len(u) : Put(u, at)[j + at - 1] = u[j]
  <2> DEFINE stored == at..(at + Len(u) - 1)
  <2>1. stored \subseteq 1..M BY <1>1, <1>2
  <2>2. DOMAIN g_buffer \cup stored = 1..M BY <2>1
  <2>3. Put(u, at) = [i \in 1..M |-> IF i \in stored THEN u[i - at + 1] ELSE g_buffer[i]]
    BY <2>2 DEF Put
  <2>4. \A i \in stored : i - at + 1 \in 1..Len(u) BY <1>1, <1>2
  <2>5. \A i \in 1..M : (IF i \in stored THEN u[i - at + 1] ELSE g_buffer[i]) \in Byte BY <2>4
  <2>6. \A j \in 1..Len(u) : j + at - 1 \in stored /\ (j + at - 1) - at + 1 = j BY <1>1, <1>2
  <2> HIDE DEF stored
  <2> QED BY <2>1, <2>3, <2>5, <2>6
<1>3. Len(u) <= M => Put(u, 1) \in [1..M -> Byte] BY <1>1, <1>2
<1> SUFFICES ASSUME Len(u) < M
             PROVE  LET filled == [Put(u, 2) EXCEPT ![1] = FLAG] IN
                    /\ filled \in [1..LL_MAX_FRAME_SZ -> Byte]
                    /\ Tail(filled) \in Behind /\ \A j \in 1..Len(u) : Tail(filled)[j] = u[j]
  BY <1>3
<1> DEFINE g == Put(u, 2)
           filled == [g EXCEPT ![1] = FLAG]
<1>4. g \in [1..M -> Byte] /\ \A j \in 1..Len(u) : g[j + 1] = u[j]
  <2>1. 2 + Len(u) - 1 <= M BY <1>1
  <2>2. g \in [1..M -> Byte] /\ \A j \in 1..Len(u) : g[j + 2 - 1] = u[j] BY <1>2, <2>1
  <2>3. \A j \in 1..Len(u) : j + 2 - 1 = j + 1 BY <1>1
  <2> QED BY <2>2, <2>3
<1> HIDE DEF g
<1>5. filled \in [1..M -> Byte] /\ \A i \in 2..M : filled[i] = g[i] BY <1>1, <1>4, Codes
<1> HIDE DEF filled
<1>6. filled \in Seq(Byte) /\ Len(filled) = M BY <1>1, <1>5
<1>7. /\ Tail(filled) \in Seq(Byte) /\ Len(Tail(filled)) = M - 1
      /\ \A j \in 1..M - 1 : Tail(filled)[j] = filled[j + 1]
  BY <1>1, <1>6
<1>8. ASSUME NEW j \in 1..Len(u) PROVE Tail(filled)[j] = u[j]
  <2>1. j \in 1..M - 1 /\ j + 1 \in 2..M BY <1>1
  <2> QED BY <1>4, <1>5, <1>7, <2>1
<1>9. Tail(filled) \in Behind BY <1>7 DEF Behind
<1> QED BY <1>5, <1>8, <1>9 DEF filled, g

\* The receiver takes n bytes more, and makes this of them.
Moves(V, p, n) ==
  /\ n \in 1..Len(V) - p
  /\ \A j \in 1..n - 1 : V[p + j] # FLAG
  /\ V[p + n] = FLAG \/ n >= IF last_byte = FLAG THEN LL_MAX_FRAME_SZ - 1 ELSE LL_MAX_FRAME_SZ
  /\ \/ last_byte # FLAG /\ received' = received
     \/ last_byte = FLAG /\ (n = 1 \/ V[p + n] # FLAG) /\ received' = received
     \/ /\ last_byte = FLAG /\ n > 1 /\ V[p + n] = FLAG
        /\ \E a \in Behind :
             /\ \A j \in 1..n : a[j] = V[p + j]
             /\ received' = Append(received, parse_frame_from_array(a))
  /\ line' = SubSeq(V, (p + n) + 1, Len(V)) /\ last_byte' = V[p + n]
  /\ reading' = TRUE /\ g_buffer' \in [1..LL_MAX_FRAME_SZ -> Byte]
  /\ UNCHANGED <<sent, flipped>>

LEMMA SkipMoves ==
  ASSUME NEW V \in Seq(Byte), NEW p \in 0..Len(V), line = SubSeq(V, p + 1, Len(V)),
         g_buffer \in [1..LL_MAX_FRAME_SZ -> Byte], skip_to_flag
  PROVE  \E n : Moves(V, p, n)
<1>1. LL_MAX_FRAME_SZ \in Nat /\ LL_MAX_FRAME_SZ > 0 BY Sizes
<1>2. PICK n \in Reads(LL_MAX_FRAME_SZ) : Take(n) /\ g_buffer' = Put(SubSeq(line, 1, n), 1)
  BY DEF skip_to_flag
<1>3. /\ n \in 1..Len(V) - p /\ (V[p + n] = FLAG \/ n = LL_MAX_FRAME_SZ)
      /\ \A j \in 1..n - 1 : V[p + j] # FLAG
      /\ line[n] = V[p + n]
      /\ SubSeq(line, n + 1, Len(line)) = SubSeq(V, (p + n) + 1, Len(V))
      /\ SubSeq(line, 1, n) \in Seq(Byte) /\ Len(SubSeq(line, 1, n)) = n /\ n <= LL_MAX_FRAME_SZ
  <2>1. Taken(V, p, n, LL_MAX_FRAME_SZ) BY <1>1, ReadsAt
  <2> QED BY <2>1 DEF Taken
<1>4. g_buffer' \in [1..LL_MAX_FRAME_SZ -> Byte] BY <1>2, <1>3, Filled
<1>5. line' = SubSeq(V, (p + n) + 1, Len(V)) /\ last_byte' = V[p + n] /\ reading' = TRUE
  BY <1>2, <1>3 DEF Take
<1>6. last_byte # FLAG /\ received' = received /\ UNCHANGED <<sent, flipped>>
  BY DEF skip_to_flag
<1>7. n = LL_MAX_FRAME_SZ =>
        n >= IF last_byte = FLAG THEN LL_MAX_FRAME_SZ - 1 ELSE LL_MAX_FRAME_SZ
  BY <1>1, <1>6
<1> QED BY <1>3, <1>4, <1>5, <1>6, <1>7 DEF Moves

LEMMA FrameMoves ==
  ASSUME NEW V \in Seq(Byte), NEW p \in 0..Len(V), line = SubSeq(V, p + 1, Len(V)),
         g_buffer \in [1..LL_MAX_FRAME_SZ -> Byte], read_frame
  PROVE  \E n : Moves(V, p, n)
<1>1. LL_MAX_FRAME_SZ - 1 \in Nat /\ LL_MAX_FRAME_SZ - 1 > 0 /\ LL_MAX_FRAME_SZ \in Nat BY Sizes
<1> DEFINE filled(n) == [Put(SubSeq(line, 1, n), 2) EXCEPT ![1] = FLAG]
<1>2. PICK n \in Reads(LL_MAX_FRAME_SZ - 1) :
        /\ line' = SubSeq(line, n + 1, Len(line))
        /\ last_byte' = line[n] /\ reading' = TRUE
        /\ g_buffer' = filled(n)
        /\ received' = IF n > 1 /\ line[n] = FLAG
                       THEN Append(received, parse_frame_from_array(Tail(filled(n))))
                       ELSE received
  BY DEF read_frame, LastRead, Room
<1> DEFINE u == SubSeq(line, 1, n)
<1>3. /\ n \in 1..Len(V) - p /\ (V[p + n] = FLAG \/ n = LL_MAX_FRAME_SZ - 1)
      /\ n <= LL_MAX_FRAME_SZ - 1
      /\ \A j \in 1..n - 1 : V[p + j] # FLAG
      /\ line[n] = V[p + n]
      /\ SubSeq(line, n + 1, Len(line)) = SubSeq(V, (p + n) + 1, Len(V))
      /\ u \in Seq(Byte) /\ Len(u) = n
      /\ \A j \in 1..n : u[j] = V[p + j]
  <2>1. Taken(V, p, n, LL_MAX_FRAME_SZ - 1) BY <1>1, ReadsAt
  <2> QED BY <2>1 DEF Taken
<1>4. n \in Nat /\ n < LL_MAX_FRAME_SZ BY <1>1, <1>3
<1> DEFINE a == Tail(filled(n))
<1>5. /\ filled(n) \in [1..LL_MAX_FRAME_SZ -> Byte]
      /\ a \in Behind /\ \A j \in 1..n : a[j] = u[j]
  <2> HIDE DEF u
  <2>1. /\ [Put(u, 2) EXCEPT ![1] = FLAG] \in [1..LL_MAX_FRAME_SZ -> Byte]
        /\ Tail([Put(u, 2) EXCEPT ![1] = FLAG]) \in Behind
        /\ \A j \in 1..n : Tail([Put(u, 2) EXCEPT ![1] = FLAG])[j] = u[j]
    BY <1>3, <1>4, Filled
  <2> QED BY <2>1 DEF u
<1>6. \A j \in 1..n : a[j] = V[p + j] BY <1>3, <1>5
<1>7. last_byte = FLAG /\ UNCHANGED <<sent, flipped>> BY DEF read_frame
<1>8. /\ line' = SubSeq(V, (p + n) + 1, Len(V)) /\ last_byte' = V[p + n] /\ reading' = TRUE
      /\ g_buffer' \in [1..LL_MAX_FRAME_SZ -> Byte]
  BY <1>2, <1>3, <1>5
<1>9. received' = IF n > 1 /\ V[p + n] = FLAG
                  THEN Append(received, parse_frame_from_array(a)) ELSE received
  BY <1>2, <1>3
<1> HIDE DEF filled, a
<1>10. \/ (n = 1 \/ V[p + n] # FLAG) /\ received' = received
       \/ n > 1 /\ V[p + n] = FLAG /\ received' = Append(received, parse_frame_from_array(a))
  BY <1>3, <1>4, <1>9
<1>11. n = LL_MAX_FRAME_SZ - 1 =>
         n >= IF last_byte = FLAG THEN LL_MAX_FRAME_SZ - 1 ELSE LL_MAX_FRAME_SZ
  BY <1>1, <1>7
<1> QED BY <1>3, <1>5, <1>6, <1>7, <1>8, <1>10, <1>11 DEF Moves

-----------------------------------------------------------------------------
(* The inductive invariant. W is the line as it was sent, V as it is after   *)
(* the flips.                                                              *)

Flipped == [at : Nat, byte : Byte, next : Byte]

State ==
  /\ sent \in Seq(Fitting) /\ Len(sent) <= Len(Frames)
  /\ \A i \in DOMAIN sent : sent[i] \in Frames[i]
  /\ flipped \in Seq(Flipped) /\ Len(flipped) <= MaxFlips
  /\ flipped # <<>> => Len(sent) = Len(Frames)
  /\ g_buffer \in [1..LL_MAX_FRAME_SZ -> Byte]
  /\ reading \in BOOLEAN
  /\ received \in Seq(Returned)
  /\ \A i \in DOMAIN received : Len(received[i].data) <= max_data_size + 1
  /\ ~reading => received = <<>>

OneFlip(W, V) ==
  LET f == flipped[1] IN
  /\ f.at \in 1..Len(W)
  /\ f.next = IF f.at < Len(W) THEN W[f.at + 1] ELSE 0
  /\ \E bit \in Bits :
       /\ f.byte = Xor(W[f.at], bit)
       /\ \A q \in 1..Len(W) : V[q] = IF q = f.at THEN Xor(W[f.at], bit) ELSE W[q]

Line(st, W, V, p) ==
  /\ Layout(sent, st, W)
  /\ V \in Seq(Byte) /\ Len(V) = Len(W)
  /\ \A q \in 1..Len(W) : V[q] # W[q] => \E j \in DOMAIN flipped : flipped[j].at = q
  /\ Len(flipped) = 1 => OneFlip(W, V)
  /\ p \in 0..Len(V) /\ (~reading => p = 0)
  /\ line = SubSeq(V, p + 1, Len(V))
  /\ last_byte = IF p = 0 THEN 0 ELSE V[p]

\* Of a line without damage, the receiver has read whole frames, and perhaps the
\* flag that opens another.
Clean(st, p) ==
  flipped = <<>> =>
    \E k \in 0..Len(sent) :
      /\ p = st[k] \/ (k < Len(sent) /\ p = st[k] + 1)
      /\ Len(received) = k
      /\ \A i \in 1..k : received[i] = Expected(sent[i])

\* Damage to the first of two frames.
FirstDamaged ==
  /\ Len(Frames) = 2 /\ Len(sent) = 2
  /\ \A i \in DOMAIN flipped : flipped[i].at <= Len(Built(sent[1]))
  /\ Len(sent[2].data) <= max_data_size

\* Then the receiver comes to the flag that opens the second, whatever it makes of
\* the first.
Second(st, V, p) ==
  FirstDamaged =>
    \/ p <= st[1] + 1 /\ (p = 0 \/ V[p] = FLAG)
    \/ p = st[2] /\ received # <<>> /\ Last(received) = AsSent(sent[2])

Genuine(r) == r.ret = SUCCESS_CODE => \E j \in DOMAIN sent : r = AsSent(sent[j])

\* Of a line with one flipped bit, the receiver reads from flag to flag.
Single(V, p) ==
  Len(flipped) = 1 /\ OutsideFlags =>
    /\ p = 0 \/ V[p] = FLAG
    /\ \A i \in DOMAIN received : Genuine(received[i])

Reader(st, V, p) == Clean(st, p) /\ Second(st, V, p) /\ Single(V, p)

IInv == State /\ \E st, W, V, p : Line(st, W, V, p) /\ Reader(st, V, p)

\* A line on which nothing was flipped is as it was sent.
LEMMA NoFlip ==
  ASSUME NEW st, NEW W, NEW V, NEW p, Line(st, W, V, p), flipped = <<>>
  PROVE  V = W
<1>1. W \in Seq(Byte) /\ V \in Seq(Byte) /\ Len(V) = Len(W) BY DEF Line, Layout
<1>2. \A q \in 1..Len(W) : V[q] = W[q] BY DEF Line
<1> QED BY <1>1, <1>2, SameRests

LEMMA InitInv == Init => IInv
<1> SUFFICES ASSUME Init PROVE IInv OBVIOUS
<1> DEFINE st == [k \in 0..0 |-> 0]
           empty == <<>>
<1>1. State
  <2>1. \A i \in 1..LL_MAX_FRAME_SZ : 0 \in Byte BY Codes
  <2>2. g_buffer \in [1..LL_MAX_FRAME_SZ -> Byte] BY <2>1 DEF Init
  <2>3. Len(<<>>) = 0 /\ DOMAIN <<>> = {} OBVIOUS
  <2>4. 0 <= Len(Frames) /\ 0 <= MaxFlips BY CodecAssumption
  <2>5. <<>> \in Seq(Fitting) /\ <<>> \in Seq(Flipped) /\ <<>> \in Seq(Returned)
    OBVIOUS
  <2> QED BY <2>2, <2>3, <2>4, <2>5 DEF Init, State
<1>2. Line(st, empty, empty, 0)
  <2>1. empty \in Seq(Byte) /\ Len(empty) = 0 /\ SubSeq(empty, 0 + 1, Len(empty)) = empty OBVIOUS
  <2>2. Layout(sent, st, empty) BY LayoutEmpty DEF Init
  <2>3. Len(flipped) = 0 /\ DOMAIN flipped = {} BY DEF Init
  <2>4. line = empty /\ last_byte = 0 BY DEF Init
  <2> HIDE DEF st, empty
  <2> QED BY <2>1, <2>2, <2>3, <2>4 DEF Line
<1>3. Clean(st, 0)
  <2>1. Len(sent) = 0 /\ Len(received) = 0 /\ st[0] = 0 BY DEF Init
  <2>2. 0 \in 0..Len(sent) /\ \A i \in 1..0 : received[i] = Expected(sent[i]) BY <2>1
  <2> HIDE DEF st
  <2>3. \E k \in 0..Len(sent) :
          /\ 0 = st[k] \/ (k < Len(sent) /\ 0 = st[k] + 1)
          /\ Len(received) = k
          /\ \A i \in 1..k : received[i] = Expected(sent[i])
    <3> WITNESS 0 \in 0..Len(sent)
    <3> QED BY <2>1, <2>2
  <2> QED BY <2>3 DEF Clean
<1>4. Second(st, empty, 0) /\ Single(empty, 0)
  <2>1. ~FirstDamaged BY DEF FirstDamaged, Init
  <2>2. Len(flipped) = 0 BY DEF Init
  <2> QED BY <2>1, <2>2 DEF Second, Single
<1> HIDE DEF st, empty
<1> QED BY <1>1, <1>2, <1>3, <1>4 DEF IInv, Reader

\* Another frame on the line.
LEMMA SendInv ==
  ASSUME IInv, NEW f \in Frames[Len(sent) + 1], Len(sent) < Len(Frames), f_send_frame(f)
  PROVE  IInv'
<1>1. PICK st, W, V, p : Line(st, W, V, p) /\ Reader(st, V, p) BY DEF IInv
<1>2. State BY DEF IInv
<1> DEFINE N == Len(sent)
           b == Built(f)
<1>3. N \in Nat /\ sent \in Seq(Fitting) BY <1>2 DEF State
<1>4. ~reading /\ sent' = Append(sent, f) /\ line' = line \o b /\ Len(f.data) <= LL_MAX_PAYLOAD_UNSTUFFED
      /\ UNCHANGED <<flipped, g_buffer, last_byte, reading, received>>
  BY DEF f_send_frame
<1>5. f \in Fitting
  <2>1. N + 1 \in 1..Len(Frames) BY <1>3, CodecAssumption
  <2>2. Frames[N + 1] \in SUBSET Sendable BY <2>1, CodecAssumption
  <2> QED BY <1>4, <2>2 DEF Fitting
<1>6. flipped = <<>> /\ received = <<>> /\ p = 0
  <2>1. Len(sent) # Len(Frames) BY <1>3, CodecAssumption
  <2> QED BY <1>1, <1>2, <1>4, <2>1 DEF State, Line
<1>7. V = W /\ Layout(sent, st, W) /\ W \in Seq(Byte) BY <1>1, <1>6, NoFlip DEF Line, Layout
<1>8. line = W /\ last_byte = 0
  <2>1. SubSeq(W, 0 + 1, Len(W)) = W BY <1>7
  <2> QED BY <1>1, <1>6, <1>7, <2>1 DEF Line
<1>9. PICK su : Layout(sent', su, W \o b) BY <1>3, <1>4, <1>5, <1>7, LayoutAppend
<1> DEFINE U == W \o b
<1>10. U \in Seq(Byte) BY <1>9 DEF Layout
<1>11. Len(sent') = N + 1 /\ sent' \in Seq(Fitting)
       /\ \A i \in 1..N + 1 : sent'[i] = IF i = N + 1 THEN f ELSE sent[i]
  BY <1>3, <1>4, <1>5
<1> HIDE DEF U, b
<1>12. State'
  <2>1. Len(sent') <= Len(Frames) BY <1>3, <1>11, CodecAssumption
  <2>2. \A i \in DOMAIN sent' : sent'[i] \in Frames[i]
    <3>1. DOMAIN sent' = 1..N + 1 BY <1>11
    <3>2. ASSUME NEW i \in 1..N + 1 PROVE sent'[i] \in Frames[i]
      <4>1. CASE i = N + 1 BY <1>11, <4>1
      <4>2. CASE i # N + 1
        <5>1. i \in 1..N /\ i \in DOMAIN sent BY <1>3, <4>2
        <5> QED BY <1>2, <1>11, <4>2, <5>1 DEF State
      <4> QED BY <4>1, <4>2
    <3> QED BY <3>1, <3>2
  <2> QED BY <1>2, <1>4, <1>6, <1>11, <2>1, <2>2 DEF State
<1>13. Line(su, U, U, 0)'
  <2>1. SubSeq(U, 0 + 1, Len(U)) = U /\ Len(U) \in Nat BY <1>10
  <2>2. line' = U /\ last_byte' = 0 /\ Len(flipped') = 0 BY <1>4, <1>6, <1>8 DEF U
  <2>3. Layout(sent', su, U) BY <1>9 DEF U
  <2> QED BY <1>10, <2>1, <2>2, <2>3 DEF Line
<1>14. Reader(su, U, 0)'
  <2>1. flipped' = <<>> /\ received' = <<>> /\ Len(flipped') = 0 /\ Len(received') = 0
    BY <1>4, <1>6
  <2>2. su[0] = 0 /\ 0 \in 0..Len(sent') BY <1>3, <1>9, <1>11 DEF Layout
  <2>3. Clean(su, 0)'
    <3>1. \A i \in 1..0 : received'[i] = Expected(sent'[i]) OBVIOUS
    <3>2. \E k \in 0..Len(sent') :
            /\ 0 = su[k] \/ (k < Len(sent') /\ 0 = su[k] + 1)
            /\ Len(received') = k
            /\ \A i \in 1..k : received'[i] = Expected(sent'[i])
      <4>1. 0 \in 0..Len(sent') BY <2>2
      <4> WITNESS 0 \in 0..Len(sent')
      <4> QED BY <2>1, <2>2, <3>1
    <3> QED BY <3>2 DEF Clean
  <2>4. Second(su, U, 0)'
    <3>1. ASSUME FirstDamaged' PROVE 0 <= su[1] + 1
      <4>1. Len(sent') = 2 BY <3>1 DEF FirstDamaged
      <4>2. su[1] \in Nat BY <1>9, <4>1 DEF Layout
      <4> QED BY <4>2
    <3> QED BY <3>1 DEF Second
  <2>5. Single(U, 0)' BY <2>1 DEF Single
  <2> QED BY <2>3, <2>4, <2>5 DEF Reader
<1>15. \E x, y, z, v : (Line(x, y, z, v) /\ Reader(x, z, v))' BY <1>13, <1>14
<1> QED BY <1>12, <1>15 DEF IInv

\* One more bit flipped.
LEMMA FlipInv ==
  ASSUME IInv, NEW i \in DOMAIN line, NEW bit \in Bits, Noisy, Flip(i, bit)
  PROVE  IInv'
<1>1. PICK st, W, V, p : Line(st, W, V, p) /\ Reader(st, V, p) BY DEF IInv
<1>2. State BY DEF IInv
<1> DEFINE y == Xor(line[i], bit)
           z == IF i < Len(line) THEN line[i + 1] ELSE 0
           g == [at |-> i, byte |-> y, next |-> z]
<1>0. PICK U : U = [line EXCEPT ![i] = y] OBVIOUS
<1>3. /\ Len(flipped) < MaxFlips /\ Len(sent) = Len(Frames) /\ ~reading
      /\ line' = U
      /\ UNCHANGED <<sent, g_buffer, last_byte, reading, received>>
  BY <1>0 DEF Flip, Noisy
<1>4. /\ Layout(sent, st, W) /\ W \in Seq(Byte) /\ V \in Seq(Byte) /\ Len(V) = Len(W) /\ p = 0
      /\ line = V /\ last_byte = 0
  <2>1. /\ Layout(sent, st, W) /\ V \in Seq(Byte) /\ Len(V) = Len(W) /\ p = 0
        /\ line = SubSeq(V, p + 1, Len(V)) /\ last_byte = 0 /\ W \in Seq(Byte)
    BY <1>1, <1>3 DEF Line, Layout
  <2>2. SubSeq(V, 0 + 1, Len(V)) = V BY <2>1
  <2> QED BY <2>1, <2>2
<1>5. i \in 1..Len(W) /\ line[i] \in Byte /\ Len(line) = Len(W) /\ Len(W) \in Nat /\ i \in Nat BY <1>4
<1>6. y \in Byte /\ z \in Byte
  <2>1. i < Len(line) => line[i + 1] \in Byte BY <1>4, <1>5
  <2> QED BY <1>5, <2>1, XorByte, Codes
<1> HIDE DEF y, z
<1>7. /\ U \in Seq(Byte) /\ Len(U) = Len(W) /\ U[i] = y
      /\ \A q \in 1..Len(W) : U[q] = IF q = i THEN y ELSE V[q]
  BY <1>0, <1>4, <1>5, <1>6
<1>8. flipped' = Append(flipped, g) BY <1>3, <1>7 DEF Flip, z
<1>9. g \in Flipped BY <1>5, <1>6 DEF Flipped
<1> HIDE DEF g
<1> DEFINE F == Len(flipped)
<1>10. /\ F \in Nat /\ flipped' \in Seq(Flipped)
       /\ Len(flipped') = F + 1 /\ flipped'[F + 1] = g
       /\ \A j \in 1..F : flipped'[j] = flipped[j]
       /\ flipped' # <<>>
  BY <1>2, <1>8, <1>9 DEF State
<1>11. State'
  <2>1. Len(flipped') <= MaxFlips BY <1>3, <1>10, CodecAssumption
  <2> QED BY <1>2, <1>3, <1>10, <2>1 DEF State
<1>12. ASSUME NEW q \in 1..Len(W), U[q] # W[q] PROVE \E j \in DOMAIN flipped' : flipped'[j].at = q
  <2>1. DOMAIN flipped' = 1..F + 1 /\ F + 1 \in 1..F + 1 BY <1>10
  <2>2. CASE q = i
    <3>1. flipped'[F + 1].at = i BY <1>10 DEF g
    <3> QED BY <2>1, <2>2, <3>1
  <2>3. CASE q # i
    <3>1. V[q] # W[q] BY <1>7, <1>12, <2>3
    <3>2. PICK j \in DOMAIN flipped : flipped[j].at = q BY <1>1, <3>1 DEF Line
    <3>3. j \in 1..F /\ j \in 1..F + 1 BY <1>2, <1>10 DEF State
    <3> QED BY <1>10, <2>1, <3>2, <3>3
  <2> QED BY <2>2, <2>3
<1>13. Len(flipped') = 1 => OneFlip(W, U)'
  <2> SUFFICES ASSUME Len(flipped') = 1 PROVE OneFlip(W, U)' OBVIOUS
  <2>1. F = 0
    <3>1. F \in Nat /\ Len(flipped') = F + 1 BY <1>10
    <3> HIDE DEF F
    <3> QED BY <3>1
  <2>0. flipped = <<>>
    <3>1. flipped \in Seq(Flipped) BY <1>2 DEF State
    <3> QED BY <2>1, <3>1
  <2>2. V = W BY <1>1, <2>0, NoFlip
  <2>3. flipped'[1] = g BY <1>10, <2>1
  <2>4. g.at = i /\ g.byte = y /\ g.next = z BY DEF g
  <2>5. y = Xor(W[i], bit) BY <1>4, <2>2 DEF y
  <2>6. z = IF i < Len(W) THEN W[i + 1] ELSE 0 BY <1>4, <2>2 DEF z
  <2>7. \A q \in 1..Len(W) : U[q] = IF q = i THEN Xor(W[i], bit) ELSE W[q]
    BY <1>7, <2>2, <2>5
  <2>8. flipped'[1].at = i /\ flipped'[1].byte = Xor(W[i], bit) /\ flipped'[1].next = z
    BY <2>3, <2>4, <2>5
  <2>9. \E c \in Bits :
          /\ flipped'[1].byte = Xor(W[i], c)
          /\ \A q \in 1..Len(W) : U[q] = IF q = i THEN Xor(W[i], c) ELSE W[q]
    BY <2>7, <2>8
  <2> QED BY <1>5, <2>6, <2>8, <2>9, Zenon DEF OneFlip
<1>14. Line(st, W, U, 0)'
  <2>1. SubSeq(U, 0 + 1, Len(U)) = U BY <1>7
  <2>2. Layout(sent', st, W) BY <1>3, <1>4
  <2>3. 0 \in 0..Len(U) BY <1>5, <1>7
  <2>4. last_byte' = 0 BY <1>3, <1>4
  <2>5. line' = SubSeq(U, 0 + 1, Len(U)) BY <1>3, <2>1
  <2>6. (0 = 0) /\ last_byte' = IF 0 = 0 THEN 0 ELSE U[0] BY <2>4
  <2>7. \A q \in 1..Len(W) : U[q] # W[q] => \E j \in DOMAIN flipped' : flipped'[j].at = q
    BY <1>12
  <2>8. (Len(flipped) = 1 => OneFlip(W, U))' BY <1>13
  <2> HIDE DEF F
  <2> QED BY <1>7, <2>2, <2>3, <2>4, <2>5, <2>7, <2>8 DEF Line
<1>15. Reader(st, U, 0)'
  <2>1. received' = <<>> /\ DOMAIN <<>> = {} BY <1>2, <1>3 DEF State
  <2>2. Clean(st, 0)' BY <1>10 DEF Clean
  <2>3. Second(st, U, 0)'
    <3>1. ASSUME FirstDamaged' PROVE 0 <= st[1] + 1
      <4>1. Len(sent) = 2 BY <1>3, <3>1 DEF FirstDamaged
      <4>2. st[1] \in Nat BY <1>4, <4>1 DEF Layout
      <4> QED BY <4>2
    <3> QED BY <3>1 DEF Second
  <2>4. Single(U, 0)' BY <2>1 DEF Single
  <2> QED BY <2>2, <2>3, <2>4 DEF Reader
<1>16. \E x, u, v, w : (Line(x, u, v, w) /\ Reader(x, v, w))' BY <1>14, <1>15
<1> QED BY <1>11, <1>16 DEF IInv

\* What a move changes of the state, whatever is on the line.
LEMMA MoveState ==
  ASSUME State, NEW st, NEW W, NEW V, NEW p, Line(st, W, V, p), NEW n, Moves(V, p, n)
  PROVE  State' /\ Line(st, W, V, p + n)'
<1>1. /\ n \in 1..Len(V) - p /\ UNCHANGED <<sent, flipped>> /\ reading' = TRUE
      /\ line' = SubSeq(V, (p + n) + 1, Len(V)) /\ last_byte' = V[p + n]
      /\ g_buffer' \in [1..LL_MAX_FRAME_SZ -> Byte]
      /\ received' = received \/ \E a \in Behind :
                                   received' = Append(received, parse_frame_from_array(a))
  BY DEF Moves
<1>2. V \in Seq(Byte) /\ p \in 0..Len(V) BY DEF Line
<1>3. received' \in Seq(Returned) /\ \A i \in DOMAIN received' : Len(received'[i].data) <= max_data_size + 1
  <2>1. CASE received' = received BY <2>1 DEF State
  <2>2. ASSUME NEW a \in Behind, received' = Append(received, parse_frame_from_array(a))
        PROVE  received' \in Seq(Returned) /\ \A i \in DOMAIN received' : Len(received'[i].data) <= max_data_size + 1
    <3> DEFINE r == parse_frame_from_array(a)
    <3>1. r \in Returned /\ Len(r.data) <= max_data_size + 1 BY ParsedFrame
    <3> HIDE DEF r
    <3>2. received \in Seq(Returned) /\ received' = Append(received, r) BY <2>2 DEF State, r
    <3>3. ASSUME NEW i \in DOMAIN received' PROVE Len(received'[i].data) <= max_data_size + 1
      <4>1. CASE i = Len(received) + 1
        <5>1. received'[i] = r BY <3>2, <4>1
        <5> QED BY <3>1, <5>1
      <4>2. CASE i # Len(received) + 1
        <5>1. i \in DOMAIN received /\ received'[i] = received[i] BY <3>2, <4>2
        <5> QED BY <5>1 DEF State
      <4> QED BY <4>1, <4>2
    <3> QED BY <3>1, <3>2, <3>3
  <2> QED BY <1>1, <2>1, <2>2
<1>4. State' BY <1>1, <1>3 DEF State
<1>5. p + n \in 0..Len(V) /\ p + n # 0 BY <1>1, <1>2
<1>6. Line(st, W, V, p + n)'
  <2>1. Layout(sent', st, W) BY <1>1 DEF Line
  <2>2. Len(flipped') = 1 => OneFlip(W, V)' BY <1>1 DEF Line, OneFlip
  <2> QED BY <1>1, <1>2, <1>5, <2>1, <2>2 DEF Line
<1> QED BY <1>4, <1>6

\* The receiver stops at the next flag, if that is near enough.
LEMMA NextFlag ==
  ASSUME NEW V, NEW p, NEW n, Moves(V, p, n), NEW r \in Nat, r > 0, r <= LL_MAX_FRAME_SZ - 1,
         V[p + r] = FLAG, \A j \in 1..r - 1 : V[p + j] # FLAG
  PROVE  n = r
<1>1. n \in Nat /\ n >= 1 BY DEF Moves
<1>2. n >= r
  <2> SUFFICES ASSUME ~(n >= r) PROVE FALSE OBVIOUS
  <2>1. n \in 1..r - 1 BY <1>1
  <2>2. V[p + n] # FLAG BY <2>1
  <2>3. n >= LL_MAX_FRAME_SZ - 1 BY <1>1, <2>2, Sizes DEF Moves
  <2> QED BY <1>1, <2>3, Sizes
<1>3. n <= r
  <2> SUFFICES ASSUME ~(n <= r) PROVE FALSE OBVIOUS
  <2>1. r \in 1..n - 1 BY <1>1
  <2> QED BY <2>1 DEF Moves
<1> QED BY <1>1, <1>2, <1>3

\* A frame that was not damaged is read from its opening flag on.
LEMMA ReadsFrame ==
  ASSUME NEW V \in Seq(Byte), NEW p \in Nat, NEW n, Moves(V, p, n), NEW f \in Fitting, last_byte = FLAG,
         \A j \in 1..Len(Built(f)) - 1 : V[p + j] = Built(f)[1 + j]
  PROVE  n = Len(Built(f)) - 1 /\ received' = Append(received, Expected(f))
<1> DEFINE b == Built(f)
           m == Len(b)
<1>1. m \in 5..LL_MAX_FRAME_SZ - 1 /\ (\A q \in 2..m - 1 : b[q] # FLAG) /\ b[m] = FLAG
  BY BuiltBytes DEF Framed
<1>2. \A j \in 1..m - 1 : V[p + j] = b[1 + j] OBVIOUS
<1> HIDE DEF b
<1>3. m - 1 \in 1..m - 1 /\ 1 + (m - 1) = m /\ m - 1 \in Nat /\ m - 1 > 1 /\ m - 1 <= LL_MAX_FRAME_SZ - 1
  BY <1>1, Sizes
<1>4. V[p + (m - 1)] = FLAG BY <1>1, <1>2, <1>3
<1>5. \A j \in 1..(m - 1) - 1 : V[p + j] # FLAG
  <2>1. ASSUME NEW j \in 1..(m - 1) - 1 PROVE V[p + j] # FLAG
    <3>1. j \in 1..m - 1 /\ 1 + j \in 2..m - 1 BY <1>1, Sizes
    <3> QED BY <1>1, <1>2, <3>1
  <2> QED BY <2>1
<1>6. n = m - 1
  <2> DEFINE r == m - 1
  <2>1. r \in Nat /\ r > 0 /\ r <= LL_MAX_FRAME_SZ - 1 /\ V[p + r] = FLAG
        /\ \A j \in 1..r - 1 : V[p + j] # FLAG
    BY <1>3, <1>4, <1>5
  <2> HIDE DEF r
  <2>2. n = r BY <2>1, NextFlag
  <2> QED BY <2>2 DEF r
<1>7. PICK a \in Behind : /\ \A j \in 1..n : a[j] = V[p + j]
                          /\ received' = Append(received, parse_frame_from_array(a))
  <2>1. n # 1 /\ V[p + n] = FLAG /\ last_byte = FLAG BY <1>3, <1>4, <1>6
  <2> QED BY <2>1 DEF Moves
<1>8. \A q \in 1..m - 1 : a[q] = b[1 + q] BY <1>2, <1>6, <1>7
<1>9. parse_frame_from_array(a) = Expected(f) BY <1>8, ParsesBuilt DEF b
<1> QED BY <1>6, <1>7, <1>9 DEF b

\* Nothing is received by reading up to the flag that opens a frame.
LEMMA ReadsFlag ==
  ASSUME NEW V, NEW p, NEW n, Moves(V, p, n), V[p + 1] = FLAG
  PROVE  n = 1 /\ received' = received
<1>1. 1 \in Nat /\ 1 > 0 /\ 1 <= LL_MAX_FRAME_SZ - 1 /\ \A j \in 1..1 - 1 : V[p + j] # FLAG
  BY Sizes
<1>2. n = 1 BY <1>1, NextFlag
<1> QED BY <1>2 DEF Moves

LEMMA MoveClean ==
  ASSUME State, NEW st, NEW W, NEW V, NEW p, Line(st, W, V, p), NEW n, Moves(V, p, n),
         Clean(st, p)
  PROVE  Clean(st, p + n)'
<1> SUFFICES ASSUME flipped = <<>> PROVE Clean(st, p + n)' BY DEF Clean, Moves
<1>1. V = W BY NoFlip
<1>2. /\ Layout(sent, st, V) /\ sent \in Seq(Fitting) /\ V \in Seq(Byte) /\ p \in 0..Len(V)
      /\ last_byte = IF p = 0 THEN 0 ELSE V[p]
      /\ received \in Seq(Returned)
  BY <1>1 DEF Line, State
<1>3. /\ n \in 1..Len(V) - p /\ UNCHANGED <<sent, flipped>>
  BY DEF Moves
<1> DEFINE N == Len(sent)
<1>4. N \in Nat /\ Len(V) = st[N] /\ \A k \in 0..N : st[k] \in Nat
  <2>1. N \in Nat BY <1>2
  <2>2. st \in [0..N -> Nat] /\ Len(V) = st[N] BY <1>2 DEF Layout
  <2> QED BY <2>1, <2>2
<1>5. PICK k \in 0..N :
        /\ p = st[k] \/ (k < N /\ p = st[k] + 1)
        /\ Len(received) = k
        /\ \A i \in 1..k : received[i] = Expected(sent[i])
  BY DEF Clean
<1>6. k < N
  <2>1. k = N => n \in 1..0 BY <1>2, <1>3, <1>4, <1>5
  <2> QED BY <1>4, <1>5, <2>1
<1> DEFINE f == sent[k + 1]
           b == Built(f)
           m == Len(b)
<1>7. k + 1 \in 1..N /\ k + 1 \in 0..N /\ (k + 1) - 1 = k /\ k \in Nat BY <1>4, <1>5, <1>6
<1>8. FrameAt(sent, st, V, k + 1) BY <1>2, <1>7, LayoutFrame
<1>9. /\ f \in Fitting /\ m \in 5..LL_MAX_FRAME_SZ - 1
      /\ st[k] \in Nat /\ st[k + 1] = st[k] + m
      /\ \A q \in 1..m : V[st[k] + q] = b[q]
      /\ V[st[k] + 1] = FLAG
  BY <1>7, <1>8 DEF FrameAt
<1>10. SUFFICES \E h \in 0..N :
         /\ p + n = st[h] \/ (h < N /\ p + n = st[h] + 1)
         /\ Len(received') = h
         /\ \A i \in 1..h : received'[i] = Expected(sent[i])
  BY <1>3 DEF Clean
<1>11. CASE p = st[k]
  <2>1. n = 1 /\ received' = received BY <1>9, <1>11, ReadsFlag
  <2> QED BY <1>5, <1>6, <1>11, <2>1
<1>12. CASE p = st[k] + 1
  <2>1. last_byte = FLAG /\ p \in Nat BY <1>2, <1>9, <1>12
  <2> HIDE DEF f, b
  <2>0. m \in Nat /\ m >= 5 /\ \A j \in 1..m - 1 : 1 + j \in 1..m BY <1>9, Sizes
  <2>2. \A j \in 1..m - 1 : V[p + j] = b[1 + j]
    <3>1. ASSUME NEW j \in 1..m - 1 PROVE V[p + j] = b[1 + j]
      <4>1. 1 + j \in 1..m /\ j \in Nat BY <2>0
      <4>2. p + j = st[k] + (1 + j)
        <5>1. st[k] \in Nat /\ p = st[k] + 1 BY <1>9, <1>12
        <5> QED BY <4>1, <5>1
      <4> QED BY <1>9, <4>1, <4>2
    <3> QED BY <3>1
  <2>3. n = m - 1 /\ received' = Append(received, Expected(f))
    BY <1>2, <1>9, <2>1, <2>2, ReadsFrame DEF b
  <2>4. p + n = st[k + 1] BY <1>9, <1>12, <2>0, <2>3
  <2>5. Len(received') = k + 1 BY <1>2, <1>5, <1>7, <2>3
  <2>6. \A i \in 1..k + 1 : received'[i] = Expected(sent[i])
    <3>1. ASSUME NEW i \in 1..k + 1 PROVE received'[i] = Expected(sent[i])
      <4>1. CASE i = k + 1 BY <1>2, <1>5, <2>3, <4>1 DEF f
      <4>2. CASE i # k + 1
        <5>1. i \in 1..k BY <1>7, <4>2
        <5>2. received'[i] = received[i] BY <1>2, <1>5, <2>3, <5>1
        <5> QED BY <1>5, <5>1, <5>2
      <4> QED BY <4>1, <4>2
    <3> QED BY <3>1
  <2> QED BY <1>7, <2>4, <2>5, <2>6
<1> QED BY <1>5, <1>11, <1>12

LEMMA MoveSecond ==
  ASSUME State, NEW st, NEW W, NEW V, NEW p, Line(st, W, V, p), NEW n, Moves(V, p, n),
         Second(st, V, p)
  PROVE  Second(st, V, p + n)'
<1> SUFFICES ASSUME FirstDamaged PROVE Second(st, V, p + n)'
  BY DEF Second, FirstDamaged, Moves
<1>1. /\ Layout(sent, st, W) /\ sent \in Seq(Fitting) /\ V \in Seq(Byte) /\ p \in 0..Len(V)
      /\ last_byte = IF p = 0 THEN 0 ELSE V[p]
      /\ received \in Seq(Returned) /\ Len(V) = Len(W)
      /\ \A q \in 1..Len(W) : V[q] # W[q] => \E j \in DOMAIN flipped : flipped[j].at = q
      /\ \A j \in DOMAIN flipped : flipped[j].at \in Nat
  <2>1. flipped \in Seq(Flipped) BY DEF State
  <2>2. ASSUME NEW j \in DOMAIN flipped PROVE flipped[j].at \in Nat
    <3>1. flipped[j] \in Flipped BY <2>1
    <3> QED BY <3>1 DEF Flipped
  <2> QED BY <2>2 DEF Line, State
<1>2. /\ n \in 1..Len(V) - p /\ UNCHANGED <<sent, flipped>>
      /\ \A j \in 1..n - 1 : V[p + j] # FLAG
      /\ V[p + n] = FLAG \/ n >= IF last_byte = FLAG THEN LL_MAX_FRAME_SZ - 1 ELSE LL_MAX_FRAME_SZ
  BY DEF Moves
<1> DEFINE f == sent[2]
           b == Built(f)
           m == Len(b)
           s == st[1]
<1>3. Len(sent) = 2 /\ (\A j \in DOMAIN flipped : flipped[j].at <= Len(Built(sent[1])))
      /\ Len(f.data) <= max_data_size
  BY DEF FirstDamaged
<1>4. FrameAt(sent, st, W, 1) /\ FrameAt(sent, st, W, 2) /\ 1 - 1 = 0 /\ 2 - 1 = 1
  <2>1. 1 \in 1..Len(sent) /\ 2 \in 1..Len(sent) BY <1>3
  <2>2. FrameAt(sent, st, W, 1) BY <1>1, <2>1, LayoutFrame
  <2>3. FrameAt(sent, st, W, 2) BY <1>1, <2>1, LayoutFrame
  <2> QED BY <2>2, <2>3
<1>5. st[0] = 0 /\ Len(W) = st[2] BY <1>1, <1>3 DEF Layout
<1>6. s = Len(Built(sent[1])) /\ s \in 5..LL_MAX_FRAME_SZ - 1
  <2>1. s = st[0] + Len(Built(sent[1])) /\ Len(Built(sent[1])) \in 5..LL_MAX_FRAME_SZ - 1
    BY <1>4 DEF FrameAt
  <2> QED BY <1>5, <2>1, Sizes
<1>7. /\ f \in Fitting /\ m \in 5..LL_MAX_FRAME_SZ - 1 /\ st[2] = s + m
      /\ (\A q \in 1..m : W[s + q] = b[q]) /\ W[s + 1] = FLAG
  BY <1>4 DEF FrameAt
<1>8. s \in Nat /\ m \in Nat /\ s <= LL_MAX_FRAME_SZ - 1 /\ LL_MAX_FRAME_SZ \in Nat /\ p \in Nat
      /\ Len(V) = s + m /\ n \in Nat /\ n >= 1 /\ p + n <= s + m
  BY <1>1, <1>2, <1>5, <1>6, <1>7, Sizes
<1>9. \A q \in 1..m : V[s + q] = b[q]
  <2>1. ASSUME NEW q \in 1..m, V[s + q] # b[q] PROVE FALSE
    <3>1. s + q \in 1..Len(W) /\ ~(s + q <= s) BY <1>1, <1>8
    <3>2. V[s + q] # W[s + q] BY <1>7, <2>1
    <3>3. PICK j \in DOMAIN flipped : flipped[j].at = s + q BY <1>1, <3>1, <3>2
    <3> QED BY <1>3, <1>6, <3>1, <3>3
  <2> QED BY <2>1
<1>10. V[s + 1] = FLAG
  <2>1. 1 \in 1..m BY <1>7, <1>8
  <2> QED BY <1>7, <1>9, <2>1
<1>11. p <= s + 1 /\ (p = 0 \/ V[p] = FLAG)
  <2>1. p # st[2] BY <1>7, <1>8
  <2> QED BY <2>1 DEF Second
<1> HIDE DEF s
<1>12. SUFFICES \/ p + n <= s + 1 /\ (p + n = 0 \/ V[p + n] = FLAG)
                \/ p + n = st[2] /\ received' # <<>> /\ Last(received') = AsSent(f)
  BY <1>2 DEF Second, s
<1>13. CASE p <= s
  <2>1. p + n <= s + 1
    <3> SUFFICES ASSUME ~(p + n <= s + 1) PROVE FALSE OBVIOUS
    <3> DEFINE j == s + 1 - p
    <3>1. j \in 1..n - 1 /\ p + j = s + 1 BY <1>8, <1>13
    <3> HIDE DEF j
    <3>2. V[p + j] # FLAG BY <1>2, <3>1
    <3> QED BY <1>10, <3>1, <3>2
  <2>2. V[p + n] = FLAG
    <3>1. CASE p + n = s + 1 BY <1>10, <3>1
    <3>2. CASE p + n # s + 1
      <4>1. n <= LL_MAX_FRAME_SZ - 1 - p BY <1>8, <2>1, <3>2
      <4>2. ~(n >= IF last_byte = FLAG THEN LL_MAX_FRAME_SZ - 1 ELSE LL_MAX_FRAME_SZ)
        <5>1. CASE p = 0
          <6>1. last_byte # FLAG BY <1>1, <5>1 DEF FLAG
          <6> QED BY <1>8, <4>1, <5>1, <6>1
        <5>2. CASE p # 0
          <6>1. n < LL_MAX_FRAME_SZ - 1 BY <1>8, <4>1, <5>2
          <6>2. last_byte = FLAG BY <1>1, <1>11, <5>2
          <6> QED BY <1>8, <6>1, <6>2
        <5> QED BY <5>1, <5>2
      <4> QED BY <1>2, <4>2
    <3> QED BY <3>1, <3>2
  <2> QED BY <2>1, <2>2
<1>14. CASE p = s + 1
  <2>1. last_byte = FLAG BY <1>1, <1>8, <1>10, <1>14
  <2>2. \A j \in 1..m - 1 : V[p + j] = b[1 + j]
    <3>1. ASSUME NEW j \in 1..m - 1 PROVE V[p + j] = b[1 + j]
      <4>1. 1 + j \in 1..m /\ p + j = s + (1 + j) BY <1>8, <1>14
      <4> QED BY <1>9, <4>1
    <3> QED BY <3>1
  <2>3. n = m - 1 /\ received' = Append(received, Expected(f))
    <3> HIDE DEF f
    <3> QED BY <1>1, <1>7, <1>8, <2>1, <2>2, ReadsFrame
  <2>4. Expected(f) = AsSent(f) BY <1>3 DEF Expected
  <2>5. p + n = st[2] BY <1>7, <1>8, <1>14, <2>3
  <2> DEFINE r == AsSent(f)
  <2>6. received' = Append(received, r) BY <2>3, <2>4
  <2> HIDE DEF r, f, b
  <2>7. received' # <<>> /\ Last(received') = r BY <1>1, <2>6 DEF Last
  <2> QED BY <2>5, <2>7 DEF r
<1>15. p <= s \/ p = s + 1 BY <1>8, <1>11 DEF s
<1> QED BY <1>13, <1>14, <1>15

\* What a move over a line with one flipped bit may bring.
Sound(V, p, n) ==
  /\ V[p + n] = FLAG
  /\ received' = received \/ \E r : Genuine(r) /\ received' = Append(received, r)

\* A bit of the byte at place x was flipped: it is no flag, and before a flag no escape.
FlippedAt(W, V, x, bit) ==
  /\ x \in 1..Len(W) /\ bit \in Bits /\ Len(V) = Len(W)
  /\ \A q \in 1..Len(W) : V[q] = IF q = x THEN Xor(W[x], bit) ELSE W[q]
  /\ V[x] # FLAG
  /\ x < Len(W) /\ W[x + 1] = FLAG => V[x] # BS_ESC

\* The frame f stands in W after place s.
StandsAt(W, s, f) ==
  /\ s \in Nat /\ f \in Fitting /\ (\E j \in DOMAIN sent : f = sent[j])
  /\ Len(Built(f)) \in Nat /\ Len(Built(f)) >= 5 /\ Len(Built(f)) <= LL_MAX_FRAME_SZ - 1
  /\ s + Len(Built(f)) <= Len(W) /\ Len(W) \in Nat
  /\ \A q \in 1..Len(Built(f)) : W[s + q] = Built(f)[q]
  /\ W[s + 1] = FLAG /\ W[s + Len(Built(f))] = FLAG
  /\ \A q \in 2..Len(Built(f)) - 1 : W[s + q] # FLAG

LEMMA ExpectedGenuine ==
  ASSUME NEW f, \E j \in DOMAIN sent : f = sent[j]
  PROVE  Genuine(Expected(f))
<1>1. Bad(f.control).ret # SUCCESS_CODE BY DEF Bad, BADFRAME_CODE, SUCCESS_CODE
<1> QED BY <1>1, Zenon DEF Genuine, Expected

\* From the opening flag of a frame on.
LEMMA SoundInside ==
  ASSUME NEW W, NEW V, NEW x, NEW bit, FlippedAt(W, V, x, bit), NEW f, NEW s, StandsAt(W, s, f),
         NEW n, Moves(V, s + 1, n), last_byte = FLAG, V[s + 1] = FLAG,
         s + Len(Built(f)) = Len(W)
           \/ (s + Len(Built(f)) < Len(W) /\ W[s + Len(Built(f)) + 1] = FLAG)
  PROVE  Sound(V, s + 1, n)
<1> DEFINE b == Built(f)
           m == Len(b)
<1>1. /\ s \in Nat /\ m \in Nat /\ m >= 5 /\ m <= LL_MAX_FRAME_SZ - 1 /\ s + m <= Len(W)
      /\ Len(W) \in Nat /\ f \in Fitting /\ LL_MAX_FRAME_SZ \in Nat
      /\ (\A q \in 1..m : W[s + q] = b[q]) /\ W[s + m] = FLAG
      /\ \A q \in 2..m - 1 : W[s + q] # FLAG
  BY Sizes DEF StandsAt
<1>2. /\ x \in 1..Len(W) /\ x \in Nat /\ Len(V) = Len(W) /\ bit \in Bits /\ V[x] = Xor(W[x], bit)
      /\ \A q \in 1..Len(W) : q # x => V[q] = W[q]
      /\ V[x] # FLAG
      /\ x < Len(W) /\ W[x + 1] = FLAG => V[x] # BS_ESC
  BY DEF FlippedAt
<1>3. s + m = Len(W) \/ (s + m < Len(W) /\ W[(s + m) + 1] = FLAG) BY <1>1
<1>4. Built(f) = b BY DEF b
<1> HIDE DEF b
<1>5. \A q \in 2..m - 1 : V[s + q] # FLAG
  <2>1. ASSUME NEW q \in 2..m - 1 PROVE V[s + q] # FLAG
    <3>1. s + q \in 1..Len(W) BY <1>1
    <3> QED BY <1>1, <1>2, <3>1
  <2> QED BY <2>1
<1>6. CASE x # s + m
  <2>1. V[s + m] = FLAG
    <3>1. s + m \in 1..Len(W) BY <1>1
    <3> QED BY <1>1, <1>2, <1>6, <3>1
  <2> DEFINE r == m - 1
  <2>2. /\ r \in Nat /\ r > 0 /\ r # 1 /\ r <= LL_MAX_FRAME_SZ - 1
        /\ (s + 1) + r = s + m
    BY <1>1
  <2>3. \A j \in 1..r - 1 : V[(s + 1) + j] # FLAG
    <3>1. ASSUME NEW j \in 1..r - 1 PROVE V[(s + 1) + j] # FLAG
      <4>1. 1 + j \in 2..m - 1 /\ (s + 1) + j = s + (1 + j) BY <1>1
      <4> QED BY <1>5, <4>1
    <3> QED BY <3>1
  <2> HIDE DEF r
  <2>4. n = r BY <2>1, <2>2, <2>3, NextFlag
  <2>5. V[(s + 1) + n] = FLAG BY <2>1, <2>2, <2>4
  <2>6. PICK a \in Behind : /\ \A j \in 1..n : a[j] = V[(s + 1) + j]
                            /\ received' = Append(received, parse_frame_from_array(a))
    BY <2>2, <2>4, <2>5 DEF Moves
  <2>7. ASSUME NEW q \in 1..m - 1
        PROVE  /\ 1 + q \in 1..m /\ s + (1 + q) \in 1..Len(W)
               /\ a[q] = V[s + (1 + q)] /\ W[s + (1 + q)] = b[1 + q]
    <3>1. 1 + q \in 1..m /\ s + (1 + q) \in 1..Len(W) /\ (s + 1) + q = s + (1 + q) BY <1>1
    <3>2. q \in 1..n BY <2>4 DEF r
    <3> QED BY <1>1, <2>6, <3>1, <3>2
  <2>8. Genuine(parse_frame_from_array(a))
    <3>1. CASE x \in s + 2..s + m - 1
      <4> DEFINE y == x - s
      <4>0. s \in Nat /\ m \in Nat /\ x \in Nat BY <1>1, <1>2
      <4>1. y \in 2..m - 1 /\ x = s + y /\ y \in 1..m /\ y \in Nat
        <5> HIDE DEF m
        <5> QED BY <3>1, <4>0
      <4> HIDE DEF y
      <4>2. V[x] = Xor(b[y], bit) BY <1>1, <1>2, <4>1
      <4>3. y = m - 1 => x + 1 = s + m /\ x < Len(W) BY <1>1, <4>1
      <4>4. y = m - 1 => Xor(b[y], bit) # BS_ESC BY <1>1, <1>2, <4>2, <4>3
      <4>5. Xor(b[y], bit) # FLAG BY <1>2, <4>2
      <4>6. ASSUME NEW q \in 1..m - 1
            PROVE  a[q] = IF 1 + q = y THEN Xor(b[y], bit) ELSE b[1 + q]
        <5>1. CASE 1 + q = y BY <2>7, <4>1, <4>2, <5>1
        <5>2. CASE 1 + q # y
          <6>1. s + (1 + q) # x BY <1>1, <4>1, <5>2
          <6> QED BY <1>2, <2>7, <5>2, <6>1
        <5> QED BY <5>1, <5>2
      <4>7. parse_frame_from_array(a).ret # SUCCESS_CODE
        BY <1>1, <1>2, <4>1, <4>4, <4>5, <4>6, DamagedInside DEF b
      <4> QED BY <4>7 DEF Genuine
    <3>2. CASE x \notin s + 2..s + m - 1
      <4>1. ASSUME NEW q \in 1..m - 1 PROVE a[q] = b[1 + q]
        <5>1. s + (1 + q) # x
          <6>1. s + (1 + q) \in s + 2..s + m BY <1>1
          <6>2. s \in Nat /\ m \in Nat /\ x \in Nat BY <1>1, <1>2
          <6>3. x \notin s + 2..s + m
            <7> HIDE DEF m
            <7> QED BY <1>6, <3>2, <6>2
          <6> QED BY <6>1, <6>3
        <5> QED BY <1>2, <2>7, <5>1
      <4>2. parse_frame_from_array(a) = Expected(f) BY <1>1, <4>1, ParsesBuilt DEF b
      <4>3. \E j \in DOMAIN sent : f = sent[j] BY DEF StandsAt
      <4> QED BY <4>2, <4>3, ExpectedGenuine
    <3> QED BY <3>1, <3>2
  <2> QED BY <2>5, <2>6, <2>8 DEF Sound
<1>7. CASE x = s + m
  <2>1. \A j \in 1..m - 1 : V[(s + 1) + j] # FLAG
    <3>1. ASSUME NEW j \in 1..m - 1 PROVE V[(s + 1) + j] # FLAG
      <4>1. (s + 1) + j = s + (1 + j) /\ (1 + j \in 2..m - 1 \/ 1 + j = m) BY <1>1
      <4> QED BY <1>2, <1>5, <1>7, <4>1
    <3> QED BY <3>1
  <2>2. s + m < Len(W) /\ W[(s + m) + 1] = FLAG
    <3> SUFFICES ASSUME s + m = Len(W) PROVE FALSE BY <1>3
    <3>1. n \in 1..Len(V) - (s + 1) /\ (V[(s + 1) + n] = FLAG \/ n >= LL_MAX_FRAME_SZ - 1)
      BY DEF Moves
    <3>2. n \in 1..m - 1 BY <1>1, <1>2, <3>1
    <3>3. n >= LL_MAX_FRAME_SZ - 1 BY <2>1, <3>1, <3>2
    <3> QED BY <1>1, <3>2, <3>3
  <2>3. V[(s + 1) + m] = FLAG
    <3>1. (s + m) + 1 \in 1..Len(W) /\ (s + m) + 1 # x /\ (s + 1) + m = (s + m) + 1
      BY <1>1, <1>7, <2>2
    <3> QED BY <1>2, <2>2, <3>1
  <2>4. n = m
    <3>1. m > 0 /\ m \in Nat /\ m <= LL_MAX_FRAME_SZ - 1 BY <1>1
    <3> HIDE DEF m
    <3> QED BY <2>1, <2>3, <3>1, NextFlag
  <2>5. PICK a \in Behind : /\ \A j \in 1..n : a[j] = V[(s + 1) + j]
                            /\ received' = Append(received, parse_frame_from_array(a))
    <3>1. n # 1 BY <1>1, <2>4
    <3> QED BY <2>3, <2>4, <3>1 DEF Moves
  <2>6. \A q \in 1..m - 2 : a[q] = b[1 + q]
    <3>1. ASSUME NEW q \in 1..m - 2 PROVE a[q] = b[1 + q]
      <4>1. /\ q \in 1..m /\ 1 + q \in 1..m /\ (s + 1) + q = s + (1 + q)
            /\ s + (1 + q) \in 1..Len(W) /\ s + (1 + q) # s + m
        BY <1>1
      <4>2. a[q] = V[s + (1 + q)] BY <2>4, <2>5, <4>1
      <4>3. V[s + (1 + q)] = W[s + (1 + q)] BY <1>2, <1>7, <4>1
      <4> QED BY <1>1, <4>1, <4>2, <4>3
    <3> QED BY <3>1
  <2>7. a[m - 1] = Xor(FLAG, bit)
    <3>1. m - 1 \in 1..m /\ (s + 1) + (m - 1) = s + m BY <1>1
    <3>2. a[m - 1] = V[s + m] BY <2>4, <2>5, <3>1
    <3> QED BY <1>1, <1>2, <1>7, <3>2
  <2>8. a[m] = FLAG
    <3>1. m \in 1..m BY <1>1
    <3> QED BY <2>3, <2>4, <2>5, <3>1
  <2>9. parse_frame_from_array(a).ret # SUCCESS_CODE
    BY <1>1, <1>2, <2>6, <2>7, <2>8, DamagedClosing DEF b
  <2>10. Genuine(parse_frame_from_array(a)) BY <2>9 DEF Genuine
  <2> QED BY <2>3, <2>4, <2>5, <2>10 DEF Sound
<1> QED BY <1>6, <1>7

\* From between two frames on.
LEMMA SoundBetween ==
  ASSUME NEW W, NEW V, NEW x, NEW bit, FlippedAt(W, V, x, bit), NEW f, NEW s, StandsAt(W, s, f),
         NEW n, Moves(V, s, n)
  PROVE  Sound(V, s, n)
<1> DEFINE b == Built(f)
           m == Len(b)
<1>1. /\ s \in Nat /\ m \in Nat /\ m >= 5 /\ m <= LL_MAX_FRAME_SZ - 1 /\ s + m <= Len(W)
      /\ Len(W) \in Nat /\ f \in Fitting /\ LL_MAX_FRAME_SZ \in Nat
      /\ (\A q \in 1..m : W[s + q] = b[q]) /\ W[s + m] = FLAG /\ W[s + 1] = FLAG
      /\ \A q \in 2..m - 1 : W[s + q] # FLAG
  BY Sizes DEF StandsAt
<1>2. /\ x \in 1..Len(W) /\ x \in Nat /\ bit \in Bits /\ V[x] = Xor(W[x], bit)
      /\ \A q \in 1..Len(W) : q # x => V[q] = W[q]
      /\ V[x] # FLAG
  BY DEF FlippedAt
<1> HIDE DEF b
<1>3. CASE x # s + 1
  <2>1. s + 1 \in 1..Len(W) BY <1>1
  <2>2. V[s + 1] = FLAG BY <1>1, <1>2, <1>3, <2>1
  <2>3. n = 1 /\ received' = received BY <2>2, ReadsFlag
  <2> QED BY <2>2, <2>3 DEF Sound
<1>4. CASE x = s + 1
  <2>1. ASSUME NEW q \in 2..m PROVE V[s + q] = W[s + q] /\ q \in 1..m /\ q \in Nat
    <3>1. s + q \in 1..Len(W) /\ s + q # s + 1 /\ q \in 1..m BY <1>1
    <3> QED BY <1>2, <1>4, <3>1
  <2>2. \A j \in 1..m - 1 : V[s + j] # FLAG
    <3>1. ASSUME NEW j \in 1..m - 1 PROVE V[s + j] # FLAG
      <4>1. CASE j = 1 BY <1>2, <1>4, <4>1
      <4>2. CASE j # 1
        <5>1. j \in 2..m /\ j \in 2..m - 1 BY <1>1, <4>2
        <5> QED BY <1>1, <2>1, <5>1
      <4> QED BY <4>1, <4>2
    <3> QED BY <3>1
  <2>3. V[s + m] = FLAG
    <3>1. m \in 2..m BY <1>1
    <3> QED BY <1>1, <2>1, <3>1
  <2>4. n = m
    <3>1. m > 0 /\ m \in Nat /\ m <= LL_MAX_FRAME_SZ - 1 BY <1>1
    <3> HIDE DEF m
    <3> QED BY <2>2, <2>3, <3>1, NextFlag
  <2>5. CASE last_byte # FLAG
    <3>1. received' = received BY <2>5 DEF Moves
    <3> QED BY <2>3, <2>4, <3>1 DEF Sound
  <2>6. CASE last_byte = FLAG
    <3>1. n # 1 BY <1>1, <2>4
    <3>2. PICK a \in Behind : /\ \A j \in 1..n : a[j] = V[s + j]
                              /\ received' = Append(received, parse_frame_from_array(a))
      BY <2>3, <2>4, <2>6, <3>1 DEF Moves
    <3>3. a[1] = Xor(FLAG, bit)
      <4>1. 1 \in 1..n BY <1>1, <2>4
      <4> QED BY <1>1, <1>2, <1>4, <3>2, <4>1
    <3>4. \A q \in 2..m : a[q] = b[q] BY <1>1, <2>1, <2>4, <3>2
    <3>5. parse_frame_from_array(a).ret # SUCCESS_CODE
      BY <1>1, <1>2, <3>3, <3>4, DamagedOpening DEF b
    <3>6. Genuine(parse_frame_from_array(a)) BY <3>5 DEF Genuine
    <3> QED BY <2>3, <2>4, <3>2, <3>6 DEF Sound
  <2> QED BY <2>5, <2>6
<1> QED BY <1>3, <1>4

\* Between two moves the receiver stands before a frame or behind its opening flag.
LEMMA MoveSound ==
  ASSUME State, NEW st, NEW W, NEW V, NEW p, Line(st, W, V, p), NEW n, Moves(V, p, n),
         NEW x, NEW bit, FlippedAt(W, V, x, bit), p = 0 \/ V[p] = FLAG
  PROVE  Sound(V, p, n)
<1>1. /\ Layout(sent, st, W) /\ sent \in Seq(Fitting) /\ p \in 0..Len(V) /\ Len(V) = Len(W)
      /\ last_byte = IF p = 0 THEN 0 ELSE V[p]
  BY DEF Line, State
<1>2. Len(W) \in Nat /\ st[0] = 0 /\ Len(W) = st[Len(sent)] BY <1>1 DEF Layout
<1>3. p \in 0..Len(W) - 1
  <2>1. n \in 1..Len(V) - p BY DEF Moves
  <2> QED BY <1>1, <1>2, <2>1
<1>4. PICK k \in 1..Len(sent) : p \in st[k - 1]..st[k] - 1 BY <1>1, <1>3, LayoutPlace
<1> DEFINE s == st[k - 1]
           f == sent[k]
           m == Len(Built(f))
<1>5. FrameAt(sent, st, W, k) BY <1>1, LayoutFrame
<1>6. /\ f \in Fitting /\ m \in 5..LL_MAX_FRAME_SZ - 1 /\ s \in Nat /\ st[k] = s + m
      /\ st[k] <= Len(W)
      /\ \A q \in 1..m : W[s + q] = Built(f)[q]
      /\ W[s + 1] = FLAG /\ W[s + m] = FLAG
      /\ \A q \in 2..m - 1 : W[s + q] # FLAG
  BY <1>5 DEF FrameAt
<1>7. k \in DOMAIN sent BY <1>1
<1>8. StandsAt(W, s, f)
  <2>1. \E j \in DOMAIN sent : f = sent[j] BY <1>7
  <2>2. m \in Nat /\ m >= 5 /\ m <= LL_MAX_FRAME_SZ - 1 BY <1>6, Sizes
  <2> HIDE DEF s, f
  <2> QED BY <1>2, <1>6, <2>1, <2>2 DEF StandsAt
<1>9. s + m = Len(W) \/ (s + m < Len(W) /\ W[(s + m) + 1] = FLAG)
  <2>1. CASE k = Len(sent) BY <1>2, <1>6, <2>1
  <2>2. CASE k # Len(sent)
    <3>1. k + 1 \in 1..Len(sent) /\ (k + 1) - 1 = k BY <1>1, <2>2
    <3>2. FrameAt(sent, st, W, k + 1) BY <1>1, <3>1, LayoutFrame
    <3> DEFINE u == Len(Built(sent[k + 1]))
    <3>3. /\ u \in 5..LL_MAX_FRAME_SZ - 1 /\ st[k + 1] = st[k] + u /\ st[k + 1] <= Len(W)
          /\ W[st[k] + 1] = FLAG
      BY <3>1, <3>2 DEF FrameAt
    <3> HIDE DEF u, s, m
    <3>4. s \in Nat /\ m \in Nat /\ u \in Nat /\ u >= 5 BY <1>6, <3>3, Sizes
    <3>5. s + m < Len(W) BY <1>2, <1>6, <3>3, <3>4
    <3> QED BY <1>6, <3>3, <3>5
  <2> QED BY <2>1, <2>2
<1> HIDE DEF s, f
<1>10. p = s \/ (p = s + 1 /\ V[p] = FLAG /\ last_byte = FLAG)
  <2>1. s \in Nat /\ m \in Nat /\ p \in Nat /\ s <= p /\ p < s + m
    BY <1>1, <1>2, <1>4, <1>6, Sizes DEF s
  <2>2. CASE p = 0 BY <2>1, <2>2
  <2>3. CASE p # 0
    <3>1. V[p] = FLAG /\ last_byte = FLAG BY <1>1, <2>3
    <3>2. p \in 1..Len(W) /\ p # x BY <1>3, <2>1, <2>3, <3>1 DEF FlippedAt
    <3>3. W[p] = FLAG BY <3>1, <3>2 DEF FlippedAt
    <3> DEFINE q == p - s
    <3>4. q \notin 2..m - 1
      <4> SUFFICES ASSUME q \in 2..m - 1 PROVE FALSE OBVIOUS
      <4>1. s + q = p BY <2>1
      <4> QED BY <1>6, <3>3, <4>1
    <3> HIDE DEF m
    <3>5. p = s \/ p = s + 1 BY <2>1, <3>4
    <3> QED BY <3>1, <3>5
  <2> QED BY <2>2, <2>3
<1>11. CASE p = s BY <1>8, <1>11, SoundBetween
<1>12. CASE p = s + 1 /\ V[p] = FLAG /\ last_byte = FLAG
  BY <1>8, <1>9, <1>12, SoundInside
<1> QED BY <1>10, <1>11, <1>12

LEMMA MoveSingle ==
  ASSUME State, NEW st, NEW W, NEW V, NEW p, Line(st, W, V, p), NEW n, Moves(V, p, n),
         Single(V, p)
  PROVE  Single(V, p + n)'
<1>1. sent' = sent /\ flipped' = flipped BY DEF Moves
<1>2. CASE ~(Len(flipped) = 1 /\ OutsideFlags) BY <1>1, <1>2 DEF Single, OutsideFlags
<1>3. CASE Len(flipped) = 1 /\ OutsideFlags
  <2>1. /\ Layout(sent, st, W) /\ Len(V) = Len(W) /\ OneFlip(W, V) /\ received \in Seq(Returned)
    BY <1>3 DEF Line, State
  <2>2. p = 0 \/ V[p] = FLAG BY <1>3 DEF Single
  <2>3. \A i \in DOMAIN received : Genuine(received[i]) BY <1>3 DEF Single
  <2> DEFINE x == flipped[1].at
  <2>4. PICK bit \in Bits :
          /\ flipped[1].byte = Xor(W[x], bit)
          /\ \A q \in 1..Len(W) : V[q] = IF q = x THEN Xor(W[x], bit) ELSE W[q]
    BY <2>1 DEF OneFlip
  <2>5. x \in 1..Len(W) /\ flipped[1].next = IF x < Len(W) THEN W[x + 1] ELSE 0
    BY <2>1 DEF OneFlip
  <2>6. 1 \in DOMAIN flipped
    <3>1. flipped \in Seq(Flipped) BY DEF State
    <3> QED BY <1>3, <3>1
  <2>7. flipped[1].byte # FLAG /\ ~(flipped[1].byte = BS_ESC /\ flipped[1].next = FLAG)
    BY <1>3, <2>6 DEF OutsideFlags
  <2>8. V[x] = flipped[1].byte BY <2>4, <2>5
  <2>9. x < Len(W) /\ W[x + 1] = FLAG => V[x] # BS_ESC BY <2>5, <2>7, <2>8
  <2> HIDE DEF x
  <2>10. V[x] # FLAG BY <2>7, <2>8
  <2>11. FlippedAt(W, V, x, bit) BY <2>1, <2>4, <2>5, <2>9, <2>10 DEF FlippedAt
  <2>12. Sound(V, p, n) BY <2>2, <2>11, MoveSound
  <2>13. \A i \in DOMAIN received' : Genuine(received'[i])
    <3>1. CASE received' = received BY <2>3, <3>1
    <3>2. ASSUME NEW r, Genuine(r), received' = Append(received, r)
          PROVE  \A i \in DOMAIN received' : Genuine(received'[i])
      <4>1. ASSUME NEW i \in DOMAIN received' PROVE Genuine(received'[i])
        <5>1. CASE i = Len(received) + 1
          <6>1. received'[i] = r BY <2>1, <3>2, <5>1
          <6> QED BY <3>2, <6>1
        <5>2. CASE i # Len(received) + 1
          <6>1. i \in DOMAIN received /\ received'[i] = received[i] BY <2>1, <3>2, <5>2
          <6> QED BY <2>3, <6>1
        <5> QED BY <5>1, <5>2
      <4> QED BY <4>1
    <3> QED BY <2>12, <3>1, <3>2 DEF Sound
  <2>14. \A i \in DOMAIN received' : Genuine(received[i])' BY <1>1, <2>13 DEF Genuine
  <2>15. V[p + n] = FLAG BY <2>12 DEF Sound
  <2> QED BY <2>14, <2>15 DEF Single
<1> QED BY <1>2, <1>3

\* One move of the receiver.
LEMMA MoveInv ==
  ASSUME State, NEW st, NEW W, NEW V, NEW p, Line(st, W, V, p), Reader(st, V, p),
         NEW n, Moves(V, p, n)
  PROVE  IInv'
<1>1. State' /\ Line(st, W, V, p + n)' BY MoveState
<1>2. Clean(st, p + n)' BY MoveClean DEF Reader
<1>3. Second(st, V, p + n)' BY MoveSecond DEF Reader
<1>4. Single(V, p + n)' BY MoveSingle DEF Reader
<1>5. Reader(st, V, p + n)' BY <1>2, <1>3, <1>4 DEF Reader
<1>6. \E x, u, v, w : (Line(x, u, v, w) /\ Reader(x, v, w))' BY <1>1, <1>5
<1> QED BY <1>1, <1>6 DEF IInv

LEMMA NextInv == IInv /\ [Next]_vars => IInv'
<1> SUFFICES ASSUME IInv, [Next]_vars PROVE IInv' OBVIOUS
<1>1. PICK st, W, V, p : Line(st, W, V, p) /\ Reader(st, V, p) BY DEF IInv
<1>2. /\ State /\ V \in Seq(Byte) /\ p \in 0..Len(V) /\ line = SubSeq(V, p + 1, Len(V))
      /\ g_buffer \in [1..LL_MAX_FRAME_SZ -> Byte]
  BY <1>1 DEF IInv, State, Line
<1>3. ASSUME Len(sent) < Len(Frames), NEW f \in Frames[Len(sent) + 1], f_send_frame(f)
      PROVE  IInv'
  BY <1>3, SendInv
<1>4. ASSUME NEW i \in DOMAIN line, NEW bit \in Bits, Noisy, Flip(i, bit) PROVE IInv'
  BY <1>4, FlipInv
<1>5. CASE skip_to_flag
  <2>1. PICK n : Moves(V, p, n) BY <1>2, <1>5, SkipMoves
  <2> QED BY <1>1, <1>2, <2>1, MoveInv
<1>6. CASE read_frame
  <2>1. PICK n : Moves(V, p, n) BY <1>2, <1>6, FrameMoves
  <2> QED BY <1>1, <1>2, <2>1, MoveInv
<1>7. CASE UNCHANGED vars
  <2>1. /\ sent' = sent /\ line' = line /\ flipped' = flipped /\ g_buffer' = g_buffer
        /\ last_byte' = last_byte /\ reading' = reading /\ received' = received
    BY <1>7 DEF vars
  <2>2. State' BY <1>2, <2>1 DEF State
  <2>3. Line(st, W, V, p)' BY <1>1, <2>1 DEF Line, OneFlip
  <2>4. Clean(st, p)' BY <1>1, <2>1 DEF Reader, Clean
  <2>5. Second(st, V, p)' BY <1>1, <2>1 DEF Reader, Second, FirstDamaged
  <2>6. Single(V, p)'
    <3>1. OutsideFlags' <=> OutsideFlags BY <2>1 DEF OutsideFlags
    <3> QED BY <1>1, <2>1, <3>1 DEF Reader, Single, Genuine
  <2>7. \E x, u, v, w : (Line(x, u, v, w) /\ Reader(x, v, w))'
    BY <2>3, <2>4, <2>5, <2>6 DEF Reader
  <2> QED BY <2>2, <2>7 DEF IInv
<1> QED BY <1>3, <1>4, <1>5, <1>6, <1>7 DEF Next

-----------------------------------------------------------------------------
(* What the invariant gives.                                               *)

LEMMA InvTypes == IInv => TypeOK
<1> SUFFICES ASSUME IInv PROVE TypeOK OBVIOUS
<1>1. PICK st, W, V, p : Line(st, W, V, p) BY DEF IInv
<1>2. V \in Seq(Byte) /\ p \in 0..Len(V) /\ line = SubSeq(V, p + 1, Len(V))
      /\ last_byte = IF p = 0 THEN 0 ELSE V[p]
  BY <1>1 DEF Line
<1>3. line \in Seq(Byte) BY <1>2, Rests DEF Rest
<1>4. last_byte \in Byte
  <2>1. CASE p = 0 BY <1>2, <2>1, Codes
  <2>2. CASE p # 0
    <3>1. p \in 1..Len(V) BY <1>2, <2>2
    <3> QED BY <1>2, <2>2, <3>1
  <2> QED BY <2>1, <2>2
<1> QED BY <1>3, <1>4 DEF TypeOK, IInv, State

LEMMA InvOneByteOver == IInv => OneByteOver
BY DEF IInv, State, OneByteOver

\* When nothing is left on the line, the receiver has come to its end.
LEMMA AtEnd ==
  ASSUME NEW st, NEW W, NEW V, NEW p, Line(st, W, V, p), line = <<>>
  PROVE  p = Len(V) /\ Len(V) = st[Len(sent)] /\ V \in Seq(Byte) /\ p \in Nat
<1>1. /\ V \in Seq(Byte) /\ p \in 0..Len(V) /\ Len(V) = Len(W)
      /\ line = SubSeq(V, p + 1, Len(V)) /\ Len(W) = st[Len(sent)]
  BY DEF Line, Layout
<1>2. Len(line) = Len(V) - p BY <1>1, Rests DEF Rest
<1>3. Len(line) = 0 OBVIOUS
<1> QED BY <1>1, <1>2, <1>3

LEMMA InvRoundTrip == IInv => RoundTrip
<1> SUFFICES ASSUME IInv, AllRead, flipped = <<>>
             PROVE  received = [i \in DOMAIN sent |->
                                  IF Len(sent[i].data) <= max_data_size
                                    THEN AsSent(sent[i]) ELSE Bad(sent[i].control)]
  BY DEF RoundTrip
<1>1. PICK st, W, V, p : Line(st, W, V, p) /\ Reader(st, V, p) BY DEF IInv
<1>2. sent \in Seq(Fitting) /\ received \in Seq(Returned) BY DEF IInv, State
<1>3. p = Len(V) /\ Len(V) = st[Len(sent)] /\ p \in Nat BY <1>1, AtEnd DEF AllRead
<1>4. PICK k \in 0..Len(sent) :
        /\ p = st[k] \/ (k < Len(sent) /\ p = st[k] + 1)
        /\ Len(received) = k
        /\ \A i \in 1..k : received[i] = Expected(sent[i])
  BY <1>1 DEF Reader, Clean
<1>5. k = Len(sent)
  <2> SUFFICES ASSUME k # Len(sent) PROVE FALSE OBVIOUS
  <2>1. k + 1 \in 1..Len(sent) /\ (k + 1) - 1 = k BY <1>2, <1>4
  <2>2. Layout(sent, st, W) /\ Len(V) = Len(W) BY <1>1 DEF Line
  <2>3. FrameAt(sent, st, W, k + 1) BY <1>2, <2>1, <2>2, LayoutFrame
  <2> DEFINE u == Len(Built(sent[k + 1]))
  <2>4. /\ u \in 5..LL_MAX_FRAME_SZ - 1 /\ st[k] \in Nat /\ st[k + 1] = st[k] + u
        /\ st[k + 1] <= Len(W)
    BY <2>1, <2>3 DEF FrameAt
  <2> HIDE DEF u
  <2>5. st[k] + 1 < Len(V) BY <2>2, <2>4, Sizes
  <2> QED BY <1>3, <1>4, <2>4, <2>5
<1>6. \A i \in DOMAIN sent : received[i] = Expected(sent[i]) BY <1>2, <1>4, <1>5
<1>7. received = [i \in DOMAIN sent |-> Expected(sent[i])]
  <2>1. received = [i \in DOMAIN sent |-> received[i]] BY <1>2, <1>4, <1>5
  <2> QED BY <1>6, <2>1
<1> QED BY <1>7 DEF Expected

LEMMA InvResynchronizes == IInv => Resynchronizes
<1> SUFFICES ASSUME IInv, AllRead, Len(Frames) = 2,
                    \A i \in DOMAIN flipped : flipped[i].at <= Len(Built(sent[1])),
                    Len(sent[2].data) <= max_data_size
             PROVE  received # <<>> /\ Last(received) = AsSent(sent[2])
  BY DEF Resynchronizes
<1>1. PICK st, W, V, p : Line(st, W, V, p) /\ Reader(st, V, p) BY DEF IInv
<1>2. sent \in Seq(Fitting) /\ Len(sent) = 2 BY DEF IInv, State, AllRead
<1>3. p = Len(V) /\ Len(V) = st[2] /\ p \in Nat BY <1>1, <1>2, AtEnd DEF AllRead
<1>4. FirstDamaged BY <1>2 DEF FirstDamaged
<1>5. \/ p <= st[1] + 1
      \/ received # <<>> /\ Last(received) = AsSent(sent[2])
  BY <1>1, <1>4 DEF Reader, Second
<1>6. ~(p <= st[1] + 1)
  <2>1. Layout(sent, st, W) /\ 2 \in 1..Len(sent) /\ 2 - 1 = 1 BY <1>1, <1>2 DEF Line
  <2>2. FrameAt(sent, st, W, 2) BY <1>2, <2>1, LayoutFrame
  <2> DEFINE u == Len(Built(sent[2]))
  <2>3. u \in 5..LL_MAX_FRAME_SZ - 1 /\ st[1] \in Nat /\ st[2] = st[1] + u
    BY <2>1, <2>2 DEF FrameAt
  <2> HIDE DEF u
  <2> QED BY <1>3, <2>3, Sizes
<1> QED BY <1>5, <1>6

LEMMA InvDetectsDamage == IInv => DetectsDamage
<1> SUFFICES ASSUME IInv, Len(flipped) <= 1, OutsideFlags
             PROVE  \A i \in DOMAIN received : Genuine(received[i])
  BY DEF DetectsDamage, Genuine
<1>1. PICK st, W, V, p : Line(st, W, V, p) /\ Reader(st, V, p) BY DEF IInv
<1>2. sent \in Seq(Fitting) /\ received \in Seq(Returned) /\ flipped \in Seq(Flipped)
  BY DEF IInv, State
<1>3. CASE Len(flipped) = 1 BY <1>1, <1>3 DEF Reader, Single
<1>4. CASE flipped = <<>>
  <2>1. PICK k \in 0..Len(sent) : /\ Len(received) = k
                                  /\ \A i \in 1..k : received[i] = Expected(sent[i])
    BY <1>1, <1>4 DEF Reader, Clean
  <2>2. ASSUME NEW i \in DOMAIN received PROVE Genuine(received[i])
    <3>1. i \in 1..k /\ i \in DOMAIN sent BY <1>2, <2>1
    <3>2. \E j \in DOMAIN sent : sent[i] = sent[j] BY <3>1
    <3>3. received[i] = Expected(sent[i]) BY <2>1, <3>1
    <3> QED BY <3>2, <3>3, ExpectedGenuine
  <2> QED BY <2>2
<1>5. Len(flipped) = 1 \/ flipped = <<>>
  <2> DEFINE n == Len(flipped)
  <2>1. n \in Nat /\ n <= 1 /\ (n = 0 => flipped = <<>>) BY <1>2
  <2> HIDE DEF n
  <2>2. n = 0 \/ n = 1 BY <2>1
  <2> QED BY <2>1, <2>2 DEF n
<1> QED BY <1>3, <1>4, <1>5

-----------------------------------------------------------------------------
(* Theorems.                                                               *)

\* The strengthening of all that follows: what was written stands on the line as it
\* was but for the flips, and how far the receiver has come tells what it received.
THEOREM CodecInvariant == Spec => []IInv
<1>1. Init => IInv BY InitInv
<1>2. IInv /\ [Next]_vars => IInv' BY NextInv
<1> QED BY <1>1, <1>2, PTL DEF Spec

\* Reading stays within g_buffer, and all it holds are bytes, also when the parser
\* reads on behind the frame it was given.
THEOREM CodecTypes == Spec => []TypeOK
BY CodecInvariant, InvTypes, PTL

\* f_receive_frame never hands out more than one byte over max_data_size, whatever
\* is on the line and however many bits of it were flipped.
THEOREM CodecLimit == Spec => []OneByteOver
BY CodecInvariant, InvOneByteOver, PTL

\* What f_send_frame writes, f_receive_frame returns, for every number of frames and
\* all their contents: stuffing and unstuffing are inverse, and the check bytes agree.
THEOREM CodecRoundTrip == Spec => []RoundTrip
BY CodecInvariant, InvRoundTrip, PTL

\* No damage to the first frame, of any number of bits, costs the receiver the second.
THEOREM CodecResynchronizes == Spec => []Resynchronizes
BY CodecInvariant, InvResynchronizes, PTL

\* The two check bytes find every single flipped bit that makes no flag, and no
\* escape before a flag, in whatever frames.
THEOREM CodecDetectsDamage == Spec => []DetectsDamage
BY CodecInvariant, InvDetectsDamage, PTL
=============================================================================
