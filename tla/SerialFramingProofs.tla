------------------------ MODULE SerialFramingProofs -------------------------
(***************************************************************************)
(* The reader of SerialFraming stays in step with the bytes on the line    *)
(* for every length of the buffer and of the frames: Order says which byte *)
(* can follow which, InStep what the reader makes of those it has taken,   *)
(* and Accounts charges every frame that is lost to an alarm or an error.  *)
(***************************************************************************)
EXTENDS SerialFraming, FiniteSetTheorems, TLAPS

\* The byte before the line is the last one read.
Stream(k) == IF k = 0 THEN g_last_byte ELSE line[k]

\* A byte of a frame of s, and one that ends what was written of it.
OfFrame(s, b) == \E i \in DOMAIN s : \E j \in 1..s[i].length : b = <<i, j>>
Ends(s, b) ==
  \/ b \in {FLAG, Zero}
  \/ \E i \in DOMAIN s : \E j \in 1..s[i].length :
       b = <<i, j>> /\ (s[i].whole => j = s[i].length)

Follows(s, a, b) ==
  \/ b = FLAG /\ Ends(s, a)
  \/ b = Zero /\ a = Zero
  \/ \E i \in DOMAIN s : \E j \in 1..s[i].length :
       b = <<i, j>> /\ a = IF j = 1 THEN FLAG ELSE <<i, j - 1>>

Order ==
  /\ g_last_byte \in {FLAG, Zero} \/ OfFrame(sent, g_last_byte)
  /\ \A k \in 1..Len(line) : Follows(sent, Stream(k - 1), Stream(k))
  /\ Ends(sent, Stream(Len(line)))

AlarmInv ==
  /\ ~using_timeout => alarm = Silent
  /\ ~(alarm.armed /\ alarm.g_timeout_alarm)

\* The loop the reader is in, and what its buffer holds of a frame.
InStep ==
  /\ at = "none" => buffer = <<>>
  /\ at = "flag" => g_last_byte # FLAG
  /\ at = "frame" =>
       /\ buffer = <<>> <=> g_last_byte = FLAG
       /\ buffer # <<>> => g_last_byte = buffer[Len(buffer)]
       /\ errors = 0 /\ buffer # <<>> =>
            \E i \in DOMAIN sent : buffer = Content(i, Len(buffer))

InProgress(i) == at = "frame" /\ buffer # <<>> /\ buffer = Content(i, Len(buffer))
OnLine(i) == \E k \in 1..Len(line) : line[k] = <<i, 1>>

\* The frames that are gone, and the one that an alarm will cost.
Lost == {i \in Dropped : ~OnLine(i) /\ ~InProgress(i)}
Pending == IF at # "none" /\ alarm.g_timeout_alarm THEN 1 ELSE 0
Accounts == Cardinality(Lost) + Pending <= alarms + errors

IInv ==
  /\ TypeOK /\ Len(sent) <= MaxFrames
  /\ Order /\ AlarmInv /\ InStep /\ WholeFrames /\ Accounts

-----------------------------------------------------------------------------
(* A byte is stored.                                                       *)

\* What comes of storing byte b.
Stored(b) ==
  /\ b # FLAG /\ Len(buffer) + 1 < maxc
  /\ at' = at /\ buffer' = Append(buffer, b)
  /\ UNCHANGED <<alarm, received>>
CutOff(b) ==
  /\ TimedOut(alarm) /\ (b = FLAG \/ Len(buffer) + 1 = maxc)
  /\ at' = "none" /\ buffer' = <<>>
  /\ UNCHANGED <<alarm, received>>
Opened(b) ==
  /\ ~TimedOut(alarm) /\ b = FLAG /\ (at = "flag" \/ buffer = <<>>)
  /\ at' = "frame" /\ buffer' = <<>>
  /\ alarm' = IF using_timeout THEN Armed ELSE alarm
  /\ UNCHANGED received
Handover(b) ==
  /\ ~TimedOut(alarm) /\ b = FLAG /\ at = "frame" /\ buffer # <<>>
  /\ at' = "none" /\ buffer' = <<>>
  /\ received' = Append(received, buffer)
  /\ UNCHANGED alarm
Overfull(b) ==
  /\ ~TimedOut(alarm) /\ b # FLAG /\ Len(buffer) + 1 = maxc
  /\ at' = "flag" /\ buffer' = <<>>
  /\ UNCHANGED <<alarm, received>>

\* It is one of these.
LEMMA StoreOutcome ==
  ASSUME TypeOK, at # "none", NEW b \in Byte, Store(b)
  PROVE  g_last_byte' = b /\ (Stored(b) \/ CutOff(b) \/ Opened(b) \/ Handover(b) \/ Overfull(b))
<1>1. at \in {"flag", "frame"} BY DEF TypeOK
<1>2. Len(buffer) \in Nat /\ buffer \in Seq(Byte) /\ (buffer = <<>> <=> Len(buffer) = 0)
  BY DEF TypeOK
<1>3. CASE Len(buffer) + 1 < maxc /\ b # FLAG /\ g_last_byte' = b
           /\ buffer' = Append(buffer, b) /\ UNCHANGED <<at, alarm, received>>
  BY <1>3 DEF Stored
<1>4. CASE (Len(buffer) + 1 = maxc \/ b = FLAG) /\ ReadReturns(Append(buffer, b), b, alarm)
  <2> DEFINE s == Append(buffer, b)
  <2>1. s \in Seq(Byte) /\ Len(s) = Len(buffer) + 1 /\ Front(s) = buffer
    <3>1. s \in Seq(Byte) /\ Len(s) = Len(buffer) + 1 BY <1>2
    <3>2. Front(s) = buffer BY <1>2, <3>1 DEF Front
    <3> QED BY <3>1, <3>2
  <2>2. IsFrame(s) <=> buffer # <<>> BY <1>2, <2>1 DEF IsFrame
  <2>3. ReadReturns(s, b, alarm) BY <1>4
  <2> HIDE DEF s
  <2>4. g_last_byte' = b BY <2>3 DEF ReadReturns
  <2>5. CASE TimedOut(alarm)
    <3>1. Returns(<<>>, alarm) BY <2>3, <2>5 DEF ReadReturns
    <3>2. received' = received BY <3>1 DEF Returns, TypeOK
    <3> QED BY <1>4, <2>4, <2>5, <3>1, <3>2 DEF Returns, CutOff
  <2>6. CASE ~TimedOut(alarm) /\ at = "flag"
    <3>1. Again(LoopAfter(b), alarm) BY <2>3, <2>6 DEF ReadReturns
    <3>2. CASE b = FLAG BY <2>4, <2>6, <3>1, <3>2 DEF Again, LoopAfter, Opened
    <3>3. CASE b # FLAG BY <1>4, <2>4, <2>6, <3>1, <3>3 DEF Again, LoopAfter, Overfull
    <3> QED BY <3>2, <3>3
  <2>7. CASE ~TimedOut(alarm) /\ at = "frame" /\ buffer = <<>>
    <3>1. Again("frame", alarm) BY <2>2, <2>3, <2>7 DEF ReadReturns
    <3>2. b = FLAG BY <1>2, <1>4, <2>7, BufferAssumption DEF maxc
    <3> QED BY <2>4, <2>7, <3>1, <3>2 DEF Again, Opened
  <2>8. CASE ~TimedOut(alarm) /\ at = "frame" /\ buffer # <<>> /\ b = FLAG
    <3>1. Returns(<<buffer>>, alarm) BY <2>1, <2>2, <2>3, <2>8 DEF ReadReturns
    <3>2. received' = Append(received, buffer) BY <1>2, <3>1 DEF Returns, TypeOK
    <3> QED BY <2>4, <2>8, <3>1, <3>2 DEF Returns, Handover
  <2>9. CASE ~TimedOut(alarm) /\ at = "frame" /\ buffer # <<>> /\ b # FLAG
    <3>1. Again("flag", alarm) BY <2>2, <2>3, <2>9 DEF ReadReturns
    <3> QED BY <1>4, <2>4, <2>9, <3>1 DEF Again, Overfull
  <2> QED BY <1>1, <2>5, <2>6, <2>7, <2>8, <2>9
<1> QED BY <1>3, <1>4 DEF Store

-----------------------------------------------------------------------------
(* The bytes.                                                              *)

\* A byte on the line is one of a frame, or of what came before.
LEMMA LineByte ==
  ASSUME NEW s, NEW a, NEW b, Follows(s, a, b)
  PROVE  b \in {FLAG, Zero} \/ OfFrame(s, b)
BY DEF Follows, OfFrame

\* A byte is taken from the line.
LEMMA TakeOrder ==
  ASSUME TypeOK, Order, line # <<>>, line' = Tail(line), g_last_byte' = Head(line),
         UNCHANGED sent
  PROVE  Order'
<1>1. /\ line \in Seq(Byte) /\ Len(line) \in Nat /\ Len(line) >= 1
      /\ Len(line') = Len(line) - 1 /\ \A k \in 1..Len(line') : line'[k] = line[k + 1]
      /\ g_last_byte' = line[1]
  BY DEF TypeOK
<1>2. \A k \in 0..Len(line') : Stream(k)' = Stream(k + 1) BY <1>1 DEF Stream
<1>4. \A k \in 1..Len(line) : Follows(sent, Stream(k - 1), Stream(k)) BY DEF Order
<1>5. ASSUME NEW k \in 1..Len(line') PROVE Follows(sent, Stream(k - 1), Stream(k))'
  <2>1. Stream(k)' = Stream(k + 1) BY <1>2
  <2>2. Stream(k - 1)' = Stream(k)
    <3>1. k - 1 \in 0..Len(line') /\ (k - 1) + 1 = k BY <1>1
    <3> QED BY <1>2, <3>1
  <2>3. Follows(sent, Stream(k), Stream(k + 1))
    <3>1. k + 1 \in 1..Len(line) /\ (k + 1) - 1 = k BY <1>1
    <3> QED BY <1>4, <3>1
  <2>4. sent' = sent OBVIOUS
  <2>5. Stream(k - 1)' = Stream(k) /\ Stream(k)' = Stream(k + 1) BY <2>1, <2>2
  <2> QED BY <2>3, <2>4, <2>5
<1>6. Ends(sent, Stream(Len(line)))'
  <2>1. Stream(Len(line))' = Stream(Len(line)) /\ Ends(sent, Stream(Len(line)))
    BY <1>1, <1>2 DEF Order
  <2>2. sent' = sent OBVIOUS
  <2> QED BY <2>1, <2>2
<1>7. g_last_byte' \in {FLAG, Zero} \/ OfFrame(sent, g_last_byte)'
  <2>1. Follows(sent, Stream(0), Stream(1)) /\ Stream(1) = g_last_byte'
    BY <1>1, <1>4 DEF Stream
  <2>2. sent' = sent OBVIOUS
  <2> QED BY <2>1, <2>2, LineByte
<1> QED BY <1>5, <1>6, <1>7 DEF Order

\* Frames that are written leave those before as they are.
LEMMA OlderFrames ==
  ASSUME TypeOK, NEW r \in [length : Lengths, whole : BOOLEAN], sent' = Append(sent, r)
  PROVE  /\ Len(sent) \in Nat /\ Len(sent') = Len(sent) + 1
         /\ DOMAIN sent = 1..Len(sent) /\ DOMAIN sent' = 1..Len(sent) + 1
         /\ \A i \in DOMAIN sent : sent'[i] = sent[i] /\ i \in DOMAIN sent'
         /\ Len(sent) + 1 \in DOMAIN sent' /\ sent'[Len(sent) + 1] = r
BY DEF TypeOK

\* The items of two sequences in one.
LEMMA Joined ==
  ASSUME NEW S, NEW a \in Seq(S), NEW b \in Seq(S)
  PROVE  /\ a \o b \in Seq(S) /\ Len(a \o b) = Len(a) + Len(b)
         /\ Len(a) \in Nat /\ Len(b) \in Nat
         /\ \A k \in 1..Len(a) : (a \o b)[k] = a[k]
         /\ \A k \in 1..Len(b) : (a \o b)[Len(a) + k] = b[k]
OBVIOUS

\* And the first of one.
LEMMA Begun ==
  ASSUME NEW S, NEW a \in Seq(S), NEW m \in 0..Len(a)
  PROVE  /\ SubSeq(a, 1, m) \in Seq(S) /\ Len(SubSeq(a, 1, m)) = m
         /\ \A k \in 1..m : SubSeq(a, 1, m)[k] = a[k]
OBVIOUS

\* A frame between its flags, and what is written of it.
Frame(i, n) == <<FLAG>> \o Content(i, n) \o <<FLAG>>
Written(i, n, m) == SubSeq(Frame(i, n), 1, m)

LEMMA FrameBytes ==
  ASSUME NEW i \in Nat, NEW n \in Nat, NEW m \in 1..n + 2
  PROVE  LET w == Written(i, n, m) IN
         /\ Len(Frame(i, n)) = n + 2
         /\ Len(w) = m /\ w[1] = FLAG
         /\ \A q \in 2..m : w[q] = IF q = n + 2 THEN FLAG ELSE <<i, q - 1>>
         /\ \A S : (FLAG \in S /\ \A j \in 1..n : <<i, j>> \in S) => w \in Seq(S)
<1> DEFINE c == Content(i, n)
           s == <<FLAG>> \o c
           t == s \o <<FLAG>>
           w == Written(i, n, m)
<1>1. c \in Seq(Nat \X Nat) /\ Len(c) = n /\ \A j \in 1..n : c[j] = <<i, j>> BY DEF Content
<1> HIDE DEF c
<1>2. FLAG \in Nat \X Nat BY DEF FLAG
<1>3. /\ s \in Seq(Nat \X Nat) /\ Len(s) = n + 1 /\ s[1] = FLAG
      /\ \A q \in 2..n + 1 : s[q] = <<i, q - 1>>
  <2>1. <<FLAG>> \in Seq(Nat \X Nat) /\ Len(<<FLAG>>) = 1 /\ <<FLAG>>[1] = FLAG BY <1>2
  <2>2. \A q \in 2..n + 1 : s[q] = c[q - 1] /\ q - 1 \in 1..n BY <1>1, <2>1
  <2> QED BY <1>1, <2>1, <2>2
<1> HIDE DEF s
<1>4. /\ t \in Seq(Nat \X Nat) /\ Len(t) = n + 2 /\ t[1] = FLAG /\ t[n + 2] = FLAG
      /\ \A q \in 2..n + 1 : t[q] = <<i, q - 1>>
  <2>1. <<FLAG>> \in Seq(Nat \X Nat) /\ Len(<<FLAG>>) = 1 /\ <<FLAG>>[1] = FLAG BY <1>2
  <2>2. /\ t \in Seq(Nat \X Nat) /\ Len(t) = n + 2 /\ \A q \in 1..n + 1 : t[q] = s[q]
        /\ \A k \in 1..1 : t[n + 1 + k] = <<FLAG>>[k]
    BY <1>3, <2>1, Joined
  <2>3. 1 \in 1..1 /\ n + 1 + 1 = n + 2 /\ \A q \in 2..n + 1 : q \in 1..n + 1 OBVIOUS
  <2> HIDE DEF t
  <2>4. t[n + 2] = FLAG BY <2>1, <2>2, <2>3
  <2>5. t[1] = FLAG
    <3>1. 1 \in 1..n + 1 /\ s[1] = FLAG BY <1>3
    <3> QED BY ONLY <2>2, <3>1
  <2> QED BY <1>3, <2>2, <2>3, <2>4, <2>5
<1> HIDE DEF t
<1>5. w = SubSeq(t, 1, m) BY DEF t, s, c, Written, Frame
<1> HIDE DEF w
<1>6. Len(w) = m /\ (\A q \in 1..m : w[q] = t[q]) /\ w \in Seq(Nat \X Nat)
  BY <1>4, <1>5, Begun
<1>7. ASSUME NEW q \in 2..m PROVE w[q] = IF q = n + 2 THEN FLAG ELSE <<i, q - 1>>
  <2>1. q \in 1..m OBVIOUS
  <2>2. w[q] = t[q] BY ONLY <1>6, <2>1
  <2>3. q = n + 2 \/ q \in 2..n + 1 OBVIOUS
  <2> QED BY <1>4, <2>2, <2>3
<1>8. w[1] = FLAG BY <1>4, <1>6
<1>9. ASSUME NEW S, FLAG \in S, \A j \in 1..n : <<i, j>> \in S PROVE w \in Seq(S)
  <2>1. \A q \in 2..m : q # n + 2 => q - 1 \in 1..n OBVIOUS
  <2>2. ASSUME NEW q \in 1..m PROVE w[q] \in S
    <3>1. CASE q = 1 BY <1>8, <1>9, <3>1
    <3>2. CASE q \in 2..m BY <1>7, <1>9, <2>1, <3>2
    <3> QED BY <3>1, <3>2
  <2> QED BY <1>6, <2>2
<1>10. Len(Frame(i, n)) = n + 2 BY <1>4 DEF t, s, c, Frame
<1> QED BY <1>6, <1>7, <1>8, <1>9, <1>10 DEF w

\* What is behind the bytes on the line.
LEMMA WriteStream ==
  ASSUME NEW S, line \in Seq(S), NEW w \in Seq(S), line' = line \o w, UNCHANGED g_last_byte,
         NEW L, L = Len(line)
  PROVE  /\ L \in Nat /\ Len(w) \in Nat /\ Len(line') = L + Len(w)
         /\ \A k \in 0..L : Stream(k)' = Stream(k)
         /\ \A q \in 1..Len(w) : Stream(L + q)' = w[q]
<1>1. /\ L \in Nat /\ Len(w) \in Nat /\ Len(line') = L + Len(w)
      /\ \A k \in 1..L : line'[k] = line[k]
      /\ \A k \in 1..Len(w) : line'[L + k] = w[k]
  BY Joined
<1>2. g_last_byte' = g_last_byte OBVIOUS
<1>3. ASSUME NEW k \in 0..L PROVE Stream(k)' = Stream(k)
  <2>1. CASE k = 0 BY <1>2, <2>1 DEF Stream
  <2>2. CASE k \in 1..L BY <1>1, <2>2 DEF Stream
  <2> QED BY <1>1, <2>1, <2>2
<1>4. ASSUME NEW q \in 1..Len(w) PROVE Stream(L + q)' = w[q]
  <2>1. L + q # 0 BY <1>1
  <2>2. Stream(L + q)' = line'[L + q] BY <2>1 DEF Stream
  <2> QED BY <1>1, <2>2
<1> QED BY <1>1, <1>3, <1>4

\* A frame, or what is written of it, can follow what is on the line.
LEMMA WriteOrder ==
  ASSUME Order, NEW i0, i0 \in DOMAIN sent', NEW n \in Nat, n >= 1, NEW m \in 1..n + 2,
         \A i \in DOMAIN sent : sent'[i] = sent[i] /\ i \in DOMAIN sent',
         sent'[i0].length = n, sent'[i0].whole => m = n + 2,
         NEW L \in Nat, L = Len(line), Len(line') = L + m, UNCHANGED g_last_byte,
         \A k \in 0..L : Stream(k)' = Stream(k),
         Stream(L + 1)' = FLAG,
         \A q \in 2..m : Stream(L + q)' = IF q = n + 2 THEN FLAG ELSE <<i0, q - 1>>
  PROVE  Order'
<1>1. \A b : OfFrame(sent, b) => OfFrame(sent', b) BY DEF OfFrame
<1>2. \A b : Ends(sent, b) => Ends(sent', b) BY DEF Ends
<1>3. \A a, b : Follows(sent, a, b) => Follows(sent', a, b) BY <1>2 DEF Follows
<1>4. ASSUME NEW k \in 1..L + m PROVE Follows(sent, Stream(k - 1), Stream(k))'
  <2>1. CASE k <= L
    <3>1. Follows(sent, Stream(k - 1), Stream(k)) BY <2>1 DEF Order
    <3>2. Stream(k)' = Stream(k) /\ Stream(k - 1)' = Stream(k - 1) BY <2>1
    <3> QED BY <1>3, <3>1, <3>2
  <2>2. CASE k = L + 1
    <3>1. Stream(k)' = FLAG /\ Stream(k - 1)' = Stream(L) BY <2>2
    <3>2. Ends(sent, Stream(L)) BY DEF Order
    <3>3. Ends(sent', Stream(k - 1)') BY <1>2, <3>1, <3>2
    <3> QED BY <3>1, <3>3 DEF Follows
  <2>3. CASE k > L + 1
    <3> DEFINE q == k - L
    <3>1. q \in 2..m /\ k = L + q /\ k - 1 = L + (q - 1) BY <2>3
    <3> HIDE DEF q
    <3>2. Stream(k)' = IF q = n + 2 THEN FLAG ELSE <<i0, q - 1>> BY <3>1
    <3>3. Stream(k - 1)' = IF q = 2 THEN FLAG ELSE <<i0, q - 2>>
      <4>1. CASE q = 2 BY <3>1, <4>1
      <4>2. CASE q > 2
        <5>1. q - 1 \in 2..m /\ q - 1 # n + 2 /\ (q - 1) - 1 = q - 2 BY <3>1, <4>2
        <5>2. Stream(L + (q - 1))' = <<i0, (q - 1) - 1>> BY <5>1
        <5> QED BY <3>1, <4>2, <5>1, <5>2
      <4> QED BY <3>1, <4>1, <4>2
    <3>4. CASE q = n + 2
      <4>1. Stream(k)' = FLAG /\ Stream(k - 1)' = <<i0, n>> /\ n \in 1..n BY <3>2, <3>3, <3>4
      <4> QED BY <4>1 DEF Follows, Ends
    <3>5. CASE q # n + 2
      <4> DEFINE j == q - 1
      <4>1. j \in 1..n /\ (q = 2 <=> j = 1) /\ q - 2 = j - 1 BY <3>1, <3>5
      <4>2. Stream(k)' = <<i0, j>> /\ Stream(k - 1)' = IF j = 1 THEN FLAG ELSE <<i0, j - 1>>
        BY <3>2, <3>3, <3>5, <4>1
      <4> HIDE DEF j
      <4> QED BY <4>1, <4>2 DEF Follows
    <3> QED BY <3>4, <3>5
  <2> QED BY <2>1, <2>2, <2>3
<1>5. Ends(sent, Stream(Len(line)))'
  <2>1. CASE m = 1 BY <2>1 DEF Ends
  <2>2. CASE m = n + 2
    <3>1. m \in 2..m BY <2>2
    <3> QED BY <2>2, <3>1 DEF Ends
  <2>3. CASE m # 1 /\ m # n + 2
    <3>1. m \in 2..m /\ m - 1 \in 1..n BY <2>3
    <3>2. Stream(Len(line))' = <<i0, m - 1>> BY <2>3, <3>1
    <3> QED BY <2>3, <3>1, <3>2 DEF Ends
  <2> QED BY <2>1, <2>2, <2>3
<1>6. g_last_byte' \in {FLAG, Zero} \/ OfFrame(sent, g_last_byte)'
  <2>1. g_last_byte' = g_last_byte OBVIOUS
  <2> QED BY <1>1, <2>1 DEF Order
<1> QED BY <1>4, <1>5, <1>6 DEF Order

-----------------------------------------------------------------------------
(* What the reader makes of them.                                          *)

\* The items of a sequence.
LEMMA Items ==
  ASSUME NEW S, NEW a \in Seq(S)
  PROVE  Len(a) \in Nat /\ DOMAIN a = 1..Len(a) /\ \A k \in DOMAIN a : a[k] \in S
OBVIOUS

\* Frames have numbers and lengths.
LEMMA FrameTypes ==
  ASSUME TypeOK
  PROVE  /\ Len(sent) \in Nat /\ DOMAIN sent = 1..Len(sent)
         /\ \A i \in DOMAIN sent : /\ sent[i].length \in 1..LL_MAX_FRAME_SZ - 2
                                   /\ sent[i].whole \in BOOLEAN
                                   /\ sent[i].length \in Nat
<1>1. sent \in Seq([length : Lengths, whole : BOOLEAN]) BY DEF TypeOK
<1>2. \A i \in DOMAIN sent : sent[i].length \in Lengths /\ sent[i].whole \in BOOLEAN
  <2>1. \A i \in DOMAIN sent : sent[i] \in [length : Lengths, whole : BOOLEAN]
    BY <1>1, Items
  <2> QED BY <2>1
<1>3. \A n \in Lengths : n \in 1..LL_MAX_FRAME_SZ - 2 /\ n \in Nat BY BufferAssumption
<1> QED BY <1>1, <1>2, <1>3

LEMMA ContentItems ==
  ASSUME NEW i, NEW n \in Nat
  PROVE  /\ DOMAIN Content(i, n) = 1..n
         /\ \A j \in 1..n : Content(i, n)[j] = <<i, j>>
BY DEF Content

\* The first byte of a frame comes to a reader that waits for it.
LEMMA FirstByte ==
  ASSUME TypeOK, Order, InStep, at # "none", line # <<>>, NEW i \in DOMAIN sent,
         line[1] = <<i, 1>>
  PROVE  at = "frame" /\ buffer = <<>>
<1>1. Follows(sent, g_last_byte, line[1])
  <2>1. 1 \in 1..Len(line) BY DEF TypeOK
  <2> QED BY <2>1 DEF Order, Stream
<1>2. i >= 1 BY FrameTypes
<1>3. g_last_byte = FLAG BY <1>1, <1>2 DEF Follows, FLAG, Zero
<1> QED BY <1>3 DEF InStep, TypeOK

\* What follows on a flag.
LEMMA ByteAfterFlag ==
  ASSUME TypeOK, Order, line # <<>>, g_last_byte = FLAG, line[1] # FLAG
  PROVE  \E i \in DOMAIN sent : line[1] = <<i, 1>>
<1>1. Follows(sent, g_last_byte, line[1])
  <2>1. 1 \in 1..Len(line) BY DEF TypeOK
  <2> QED BY <2>1 DEF Order, Stream
<1>2. FLAG # Zero BY DEF FLAG, Zero
<1>3. PICK i \in DOMAIN sent : \E j \in 1..sent[i].length :
        line[1] = <<i, j>> /\ g_last_byte = IF j = 1 THEN FLAG ELSE <<i, j - 1>>
  BY <1>1, <1>2 DEF Follows
<1>4. i >= 1 BY FrameTypes
<1>5. PICK j \in 1..sent[i].length :
        line[1] = <<i, j>> /\ g_last_byte = IF j = 1 THEN FLAG ELSE <<i, j - 1>>
  BY <1>3
<1>6. j = 1 BY <1>4, <1>5 DEF FLAG
<1> QED BY <1>5, <1>6

\* The last byte of what is in the buffer.
LEMMA LastOfBuffer ==
  ASSUME TypeOK, Order, InStep, NEW i \in DOMAIN sent, InProgress(i)
  PROVE  /\ Len(buffer) \in 1..sent[i].length
         /\ g_last_byte = <<i, Len(buffer)>>
<1>1. Len(buffer) \in Nat /\ Len(buffer) >= 1 BY DEF InProgress, TypeOK
<1>2. buffer[Len(buffer)] = <<i, Len(buffer)>> BY <1>1, ContentItems DEF InProgress
<1>3. g_last_byte = <<i, Len(buffer)>> BY <1>2 DEF InStep, InProgress
<1>4. g_last_byte # FLAG /\ g_last_byte # Zero
  <2>1. i >= 1 BY FrameTypes
  <2> QED BY <1>3, <2>1 DEF FLAG, Zero
<1>5. OfFrame(sent, g_last_byte) BY <1>4 DEF Order
<1> QED BY <1>3, <1>5 DEF OfFrame

\* What follows on it: the next of its frame, or the end of what was written.
LEMMA NextByte ==
  ASSUME TypeOK, Order, InStep, line # <<>>, NEW i \in DOMAIN sent, InProgress(i)
  PROVE  \/ line[1] = FLAG /\ (sent[i].whole => Len(buffer) = sent[i].length)
         \/ line[1] = <<i, Len(buffer) + 1>> /\ Len(buffer) + 1 \in 1..sent[i].length
<1> DEFINE n == Len(buffer)
<1>1. n \in Nat /\ n \in 1..sent[i].length /\ g_last_byte = <<i, n>> /\ i >= 1
  BY LastOfBuffer, FrameTypes DEF TypeOK
<1> HIDE DEF n
<1>2. Follows(sent, g_last_byte, line[1])
  <2>1. 1 \in 1..Len(line) BY DEF TypeOK
  <2> QED BY <2>1 DEF Order, Stream
<1>3. g_last_byte # FLAG /\ g_last_byte # Zero BY <1>1 DEF FLAG, Zero
<1>4. CASE line[1] = FLAG /\ Ends(sent, g_last_byte)
  <2>1. PICK h \in DOMAIN sent : \E j \in 1..sent[h].length :
          g_last_byte = <<h, j>> /\ (sent[h].whole => j = sent[h].length)
    BY <1>3, <1>4 DEF Ends
  <2>2. h = i BY <1>1, <2>1
  <2>3. sent[i].whole => n = sent[i].length BY <1>1, <2>1, <2>2
  <2> QED BY <1>4, <2>3 DEF n
<1>5. CASE \E h \in DOMAIN sent : \E j \in 1..sent[h].length :
             line[1] = <<h, j>> /\ g_last_byte = IF j = 1 THEN FLAG ELSE <<h, j - 1>>
  <2>1. PICK h \in DOMAIN sent : \E j \in 1..sent[h].length :
             line[1] = <<h, j>> /\ g_last_byte = IF j = 1 THEN FLAG ELSE <<h, j - 1>>
    BY <1>5
  <2>2. PICK j \in 1..sent[h].length :
             line[1] = <<h, j>> /\ g_last_byte = IF j = 1 THEN FLAG ELSE <<h, j - 1>>
    BY <2>1
  <2>3. g_last_byte = <<h, j - 1>> BY <1>3, <2>2
  <2>4. h = i /\ j = n + 1 BY <1>1, <2>2, <2>3
  <2> QED BY <2>2, <2>4 DEF n
<1> QED BY <1>2, <1>3, <1>4, <1>5 DEF Follows

\* An item more.
LEMMA Added ==
  ASSUME NEW S, NEW a \in Seq(S), NEW x \in S
  PROVE  /\ Append(a, x) \in Seq(S) /\ Len(Append(a, x)) = Len(a) + 1 /\ Len(a) \in Nat
         /\ DOMAIN Append(a, x) = 1..Len(a) + 1
         /\ \A k \in 1..Len(a) : Append(a, x)[k] = a[k]
         /\ Append(a, x)[Len(a) + 1] = x
OBVIOUS

\* A byte more of its frame.
LEMMA ContentGrows ==
  ASSUME NEW i \in Nat, NEW n \in Nat
  PROVE  Append(Content(i, n), <<i, n + 1>>) = Content(i, n + 1)
<1> DEFINE c == Content(i, n)
<1>1. c \in Seq(Nat \X Nat) /\ Len(c) = n /\ \A j \in 1..n : c[j] = <<i, j>> BY DEF Content
<1>2. <<i, n + 1>> \in Nat \X Nat OBVIOUS
<1> HIDE DEF c
<1>3. /\ DOMAIN Append(c, <<i, n + 1>>) = 1..n + 1
      /\ \A j \in 1..n + 1 : Append(c, <<i, n + 1>>)[j] = <<i, j>>
      /\ Append(c, <<i, n + 1>>) \in Seq(Nat \X Nat)
  <2>1. /\ Append(c, <<i, n + 1>>) \in Seq(Nat \X Nat)
        /\ DOMAIN Append(c, <<i, n + 1>>) = 1..n + 1
        /\ \A j \in 1..n : Append(c, <<i, n + 1>>)[j] = c[j]
        /\ Append(c, <<i, n + 1>>)[n + 1] = <<i, n + 1>>
    BY <1>1, <1>2, Added
  <2> QED BY <1>1, <2>1
<1>4. Append(c, <<i, n + 1>>) = [j \in 1..n + 1 |-> <<i, j>>]
  <2> DEFINE d == Append(c, <<i, n + 1>>)
  <2>1. d = [j \in DOMAIN d |-> d[j]] BY <1>3
  <2> HIDE DEF d
  <2>2. DOMAIN d = 1..n + 1 /\ \A j \in 1..n + 1 : d[j] = <<i, j>> BY <1>3 DEF d
  <2>3. d = [j \in 1..n + 1 |-> <<i, j>>] BY <2>1, <2>2
  <2> QED BY <2>3 DEF d
<1> QED BY <1>4 DEF c, Content

-----------------------------------------------------------------------------
(* A byte read, or read once more by an error, keeps the invariant.        *)

\* The types of what Store changes.
LEMMA StoreType ==
  ASSUME TypeOK, at # "none", NEW b \in Byte, Store(b)
  PROVE  /\ at' \in {"none", "flag", "frame"}
         /\ g_last_byte' \in Byte
         /\ buffer' \in Seq(Byte \ {FLAG})
         /\ Len(buffer') + (IF at' = "frame" THEN 1 ELSE 0) < LL_MAX_FRAME_SZ
         /\ alarm' \in [armed : BOOLEAN, g_timeout_alarm : BOOLEAN, missed : BOOLEAN]
         /\ received' \in Seq(Seq(Byte))
<1>1. g_last_byte' = b /\ (Stored(b) \/ CutOff(b) \/ Opened(b) \/ Handover(b) \/ Overfull(b))
  BY StoreOutcome
<1>2. /\ at \in {"none", "flag", "frame"} /\ buffer \in Seq(Byte \ {FLAG})
      /\ alarm \in [armed : BOOLEAN, g_timeout_alarm : BOOLEAN, missed : BOOLEAN]
      /\ received \in Seq(Seq(Byte))
      /\ Len(buffer) + (IF at = "frame" THEN 1 ELSE 0) < LL_MAX_FRAME_SZ
  BY DEF TypeOK
<1>3. Armed \in [armed : BOOLEAN, g_timeout_alarm : BOOLEAN, missed : BOOLEAN]
  BY DEF Armed, Silent
<1>4. CASE Stored(b)
  <2>1. b \in Byte \ {FLAG} BY <1>4 DEF Stored
  <2>2. buffer' \in Seq(Byte \ {FLAG}) /\ Len(buffer') = Len(buffer) + 1 /\ Len(buffer) \in Nat
    BY <1>2, <1>4, <2>1, Added DEF Stored
  <2>3. Len(buffer') + (IF at' = "frame" THEN 1 ELSE 0) < LL_MAX_FRAME_SZ
    BY <1>2, <1>4, <2>2, BufferAssumption DEF Stored, maxc
  <2> QED BY <1>1, <1>2, <1>4, <2>2, <2>3 DEF Stored
<1>5. CASE ~Stored(b)
  <2>1. buffer' = <<>> /\ at' \in {"none", "flag", "frame"}
    BY <1>1, <1>5 DEF CutOff, Opened, Handover, Overfull
  <2>2. Len(buffer') + (IF at' = "frame" THEN 1 ELSE 0) < LL_MAX_FRAME_SZ
    BY <2>1, BufferAssumption
  <2>3. alarm' = alarm \/ alarm' = Armed
    BY <1>1, <1>5 DEF CutOff, Opened, Handover, Overfull
  <2>4. received' \in Seq(Seq(Byte))
    <3>1. buffer \in Seq(Byte) BY <1>2
    <3>2. received' = received \/ received' = Append(received, buffer)
      BY <1>1, <1>5 DEF CutOff, Opened, Handover, Overfull
    <3> DEFINE S == Seq(Byte)
    <3>3. received \in Seq(S) /\ buffer \in S BY <1>2, <3>1
    <3> HIDE DEF S
    <3>4. received' \in Seq(S) BY <3>2, <3>3, Added
    <3> QED BY <3>4 DEF S
  <2> QED BY <1>1, <1>2, <1>3, <2>1, <2>2, <2>3, <2>4
<1> QED BY <1>4, <1>5

LEMMA StoreAlarm ==
  ASSUME TypeOK, AlarmInv, at # "none", NEW b \in Byte, Store(b), UNCHANGED using_timeout
  PROVE  AlarmInv'
<1>1. Stored(b) \/ CutOff(b) \/ Opened(b) \/ Handover(b) \/ Overfull(b) BY StoreOutcome
<1>2. alarm' = alarm \/ alarm' = IF using_timeout THEN Armed ELSE alarm
  BY <1>1 DEF Stored, CutOff, Opened, Handover, Overfull
<1> QED BY <1>2 DEF AlarmInv, Armed, Silent

\* The reader stays in step, with the byte after the last or with a copy of it.
LEMMA StoreInStep ==
  ASSUME TypeOK, Order, InStep, at # "none", NEW b \in Byte, Store(b), UNCHANGED sent,
         b = g_last_byte \/ (line # <<>> /\ b = line[1]),
         errors' = errors \/ errors' = errors + 1,
         errors' = errors => line # <<>> /\ b = line[1]
  PROVE  InStep'
<1>1. g_last_byte' = b /\ (Stored(b) \/ CutOff(b) \/ Opened(b) \/ Handover(b) \/ Overfull(b))
  BY StoreOutcome
<1>2. buffer \in Seq(Byte) /\ errors \in Nat BY BoundsAssumption DEF TypeOK
<1>3. CASE Stored(b)
  <2> USE <1>3 DEF Stored
  <2>1. at' \in {"flag", "frame"} /\ b # FLAG BY DEF TypeOK
  <2>2. buffer' \in Seq(Byte) /\ Len(buffer') = Len(buffer) + 1 /\ buffer'[Len(buffer')] = b
    BY <1>2, Added
  <2>3. buffer' # <<>> BY <1>2, <2>2
  <2>4. ASSUME at = "frame", errors' = 0
        PROVE  \E i \in DOMAIN sent : buffer' = Content(i, Len(buffer'))
    <3>1. errors = 0 /\ line # <<>> /\ b = line[1] BY <1>2, <2>4
    <3>2. CASE buffer = <<>>
      <4>1. PICK i \in DOMAIN sent : b = <<i, 1>>
        <5>1. g_last_byte = FLAG BY <2>4, <3>2 DEF InStep
        <5> QED BY <2>1, <3>1, <5>1, ByteAfterFlag
      <4>2. buffer' = <<<<i, 1>>>> /\ Len(buffer') = 1 BY <3>2, <4>1
      <4>3. Content(i, 1) = <<<<i, 1>>>> BY DEF Content
      <4> QED BY <4>2, <4>3
    <3>3. CASE buffer # <<>>
      <4>1. PICK i \in DOMAIN sent : buffer = Content(i, Len(buffer))
        BY <2>4, <3>1, <3>3 DEF InStep
      <4>2. InProgress(i) BY <2>4, <3>3, <4>1 DEF InProgress
      <4>3. b = <<i, Len(buffer) + 1>> BY <2>1, <3>1, <4>2, NextByte
      <4>4. i \in Nat /\ Len(buffer) \in Nat BY <1>2, FrameTypes
      <4> QED BY <2>2, <4>1, <4>3, <4>4, ContentGrows
    <3> QED BY <3>2, <3>3
  <2>5. sent' = sent /\ at' = at OBVIOUS
  <2>6. FLAG # b BY <2>1
  <2> QED BY <1>1, <2>1, <2>2, <2>3, <2>4, <2>5, <2>6 DEF InStep
<1>4. CASE ~Stored(b)
  <2>1. buffer' = <<>> /\ (at' = "frame" => b = FLAG) /\ (at' = "flag" => b # FLAG)
    BY <1>1, <1>4 DEF CutOff, Opened, Handover, Overfull
  <2> QED BY <1>1, <2>1 DEF InStep
<1> QED BY <1>3, <1>4

\* What it hands over without an error is a frame, or what was written of it.
LEMMA StoreWhole ==
  ASSUME TypeOK, Order, InStep, WholeFrames, at # "none", NEW b \in Byte, Store(b), UNCHANGED sent,
         errors' = errors \/ errors' = errors + 1,
         errors' = errors => line # <<>> /\ b = line[1]
  PROVE  WholeFrames'
<1>1. Stored(b) \/ CutOff(b) \/ Opened(b) \/ Handover(b) \/ Overfull(b)
  BY StoreOutcome
<1>2. SUFFICES ASSUME errors' = 0
      PROVE  \A k \in DOMAIN received' : \E i \in DOMAIN sent : \E n \in 1..sent[i].length :
               received'[k] = Content(i, n) /\ (sent[i].whole => n = sent[i].length)
  BY DEF WholeFrames
<1>3. errors = 0 /\ line # <<>> /\ b = line[1] BY <1>2, BoundsAssumption DEF TypeOK
<1>4. \A k \in DOMAIN received : \E i \in DOMAIN sent : \E n \in 1..sent[i].length :
        received[k] = Content(i, n) /\ (sent[i].whole => n = sent[i].length)
  BY <1>3 DEF WholeFrames
<1>5. CASE received' = received BY <1>4, <1>5
<1>6. CASE Handover(b)
  <2>1. PICK i \in DOMAIN sent : buffer = Content(i, Len(buffer))
    BY <1>3, <1>6 DEF InStep, Handover
  <2>2. InProgress(i) BY <1>6, <2>1 DEF InProgress, Handover
  <2>3. Len(buffer) \in 1..sent[i].length BY <2>2, LastOfBuffer
  <2>4. i >= 1 BY FrameTypes
  <2>5. sent[i].whole => Len(buffer) = sent[i].length
    BY <1>3, <1>6, <2>2, <2>4, NextByte DEF Handover, FLAG
  <2>6. buffer \in Seq(Byte) /\ received \in Seq(Seq(Byte)) BY DEF TypeOK
  <2>7. received' = Append(received, buffer) BY <1>6 DEF Handover
  <2>8. /\ DOMAIN received' = 1..Len(received) + 1 /\ DOMAIN received = 1..Len(received)
        /\ \A k \in 1..Len(received) : received'[k] = received[k]
        /\ received'[Len(received) + 1] = buffer
        /\ Len(received) \in Nat
    BY <2>6, <2>7, Added, Items
  <2>9. ASSUME NEW k \in DOMAIN received'
        PROVE  \E h \in DOMAIN sent : \E n \in 1..sent[h].length :
                 received'[k] = Content(h, n) /\ (sent[h].whole => n = sent[h].length)
    <3>1. CASE k \in DOMAIN received BY <1>4, <2>8, <3>1
    <3>2. CASE k = Len(received) + 1 BY <2>1, <2>3, <2>5, <2>8, <3>2
    <3> QED BY <2>8, <3>1, <3>2
  <2> QED BY <2>9
<1> QED BY <1>1, <1>5, <1>6 DEF Stored, CutOff, Opened, Overfull

-----------------------------------------------------------------------------
(* What is lost.                                                           *)

LEMMA LostTypes ==
  TypeOK => /\ Lost \subseteq DOMAIN sent /\ IsFiniteSet(Lost) /\ Cardinality(Lost) \in Nat
            /\ Pending \in 0..1
<1> SUFFICES ASSUME TypeOK
             PROVE  /\ Lost \subseteq DOMAIN sent /\ IsFiniteSet(Lost)
                    /\ Cardinality(Lost) \in Nat /\ Pending \in 0..1
  OBVIOUS
<1>1. Lost \subseteq 1..Len(sent) /\ Len(sent) \in Nat BY FrameTypes DEF Lost, Dropped
<1>2. IsFiniteSet(1..Len(sent)) BY <1>1, FS_Interval
<1>3. IsFiniteSet(Lost) BY <1>1, <1>2, FS_Subset
<1> QED BY <1>1, <1>3, FrameTypes, FS_CardinalityType DEF Pending

LEMMA LostTypesNext ==
  (TypeOK => IsFiniteSet(Lost) /\ Cardinality(Lost) \in Nat /\ Pending \in 0..1)'
<1>1. TypeOK => IsFiniteSet(Lost) /\ Cardinality(Lost) \in Nat /\ Pending \in 0..1
  BY LostTypes
<1> QED BY <1>1, PTL

\* Sets that grow by one element at most.
LEMMA OneMore ==
  ASSUME NEW S, IsFiniteSet(S), NEW T, NEW x, T \subseteq S \cup {x}
  PROVE  Cardinality(T) <= Cardinality(S) + 1
<1>1. IsFiniteSet(S \cup {x}) /\ Cardinality(S \cup {x}) <= Cardinality(S) + 1
  <2>1. Cardinality(S) \in Nat BY FS_CardinalityType
  <2> QED BY <2>1, FS_AddElement
<1>2. Cardinality(T) <= Cardinality(S \cup {x}) /\ IsFiniteSet(T) BY <1>1, FS_Subset
<1> QED BY <1>1, <1>2, FS_CardinalityType

\* One frame at a time is in progress.
LEMMA InProgressIsOne ==
  ASSUME TypeOK, NEW i, InProgress(i)
  PROVE  i = buffer[1][1]
<1>1. 1 \in 1..Len(buffer) /\ Len(buffer) \in Nat BY DEF InProgress, TypeOK
<1>2. buffer[1] = <<i, 1>> BY <1>1, ContentItems DEF InProgress
<1> QED BY <1>2

\* A step that takes neither frames nor bytes away loses the one in progress, or none.
LEMMA Losses ==
  ASSUME TypeOK, TypeOK',
         \A i \in DOMAIN sent' : sent'[i].whole =>
           \/ i \in DOMAIN sent /\ sent'[i] = sent[i]
                /\ (OnLine(i) => OnLine(i)' \/ InProgress(i)')
                /\ (Handed(i) => Handed(i)')
           \/ OnLine(i)'
  PROVE  /\ \A i \in Lost' : i \in Lost \/ (i \in DOMAIN sent /\ InProgress(i)
                                              /\ ~InProgress(i)' /\ sent[i].whole /\ ~Handed(i)')
         /\ Cardinality(Lost') <= Cardinality(Lost) + 1
         /\ Lost' \subseteq Lost => Cardinality(Lost') <= Cardinality(Lost)
<1>1. ASSUME NEW i \in Lost'
      PROVE  i \in Lost \/ (i \in DOMAIN sent /\ InProgress(i)
                              /\ ~InProgress(i)' /\ sent[i].whole /\ ~Handed(i)')
  <2>1. /\ i \in DOMAIN sent' /\ sent'[i].whole /\ ~Handed(i)' /\ ~OnLine(i)' /\ ~InProgress(i)'
    BY DEF Lost, Dropped
  <2>2. i \in DOMAIN sent /\ sent[i].whole /\ ~OnLine(i) /\ ~Handed(i) BY <2>1
  <2> QED BY <2>1, <2>2 DEF Lost, Dropped
<1>2. Lost' \subseteq Lost \cup {buffer[1][1]} BY <1>1, InProgressIsOne
<1>3. IsFiniteSet(Lost) /\ IsFiniteSet(Lost')
  BY LostTypes, LostTypesNext
<1>4. Cardinality(Lost') <= Cardinality(Lost) + 1 BY <1>2, <1>3, OneMore
<1>5. Lost' \subseteq Lost => Cardinality(Lost') <= Cardinality(Lost) BY <1>3, FS_Subset
<1> QED BY <1>1, <1>4, <1>5

\* What was handed over stays so, and a byte of the line other than the first on it.
LEMMA HandedStays ==
  ASSUME TypeOK, NEW i \in DOMAIN sent, UNCHANGED sent,
         received' = received \/ received' = Append(received, buffer), Handed(i)
  PROVE  Handed(i)'
<1> DEFINE S == Seq(Byte)
<1>1. received \in Seq(S) /\ buffer \in S BY DEF TypeOK
<1> HIDE DEF S
<1>2. PICK k \in DOMAIN received : received[k] = Content(i, sent[i].length) BY DEF Handed
<1>3. k \in DOMAIN received' /\ received'[k] = received[k]
  <2>1. k \in 1..Len(received) BY <1>1, <1>2, Items
  <2> QED BY <1>1, <1>2, <2>1, Added
<1>4. sent' = sent OBVIOUS
<1>5. received'[k] = Content(i, sent[i].length) BY <1>2, <1>3
<1> QED BY <1>3, <1>4, <1>5 DEF Handed

LEMMA OnLineStays ==
  ASSUME TypeOK, line # <<>>, line' = Tail(line), NEW i, OnLine(i), line[1] # <<i, 1>>
  PROVE  OnLine(i)'
<1>1. PICK k \in 1..Len(line) : line[k] = <<i, 1>> BY DEF OnLine
<1>2. k # 1 BY <1>1
<1>3. /\ Len(line') = Len(line) - 1 /\ \A q \in 1..Len(line') : line'[q] = line[q + 1]
      /\ Len(line) \in Nat
  BY DEF TypeOK
<1>4. k - 1 \in 1..Len(line') /\ (k - 1) + 1 = k BY <1>1, <1>2, <1>3
<1>5. line'[k - 1] = <<i, 1>> BY <1>1, <1>3, <1>4
<1> QED BY <1>4, <1>5 DEF OnLine

\* A byte read costs a frame only when the alarm has rung.
LEMMA ReadAccounts ==
  ASSUME IInv, TypeOK', read_byte
  PROVE  Accounts'
<1> DEFINE b == line[1]
<1>1. /\ TypeOK /\ Order /\ InStep /\ AlarmInv /\ Accounts
      /\ at # "none" /\ line # <<>> /\ line' = Tail(line)
      /\ UNCHANGED <<using_timeout, sent, alarms, errors>>
  BY DEF IInv, read_byte
<1>2. Store(b) /\ b \in Byte BY <1>1 DEF read_byte, TypeOK
<1> HIDE DEF b
<1>3. g_last_byte' = b /\ (Stored(b) \/ CutOff(b) \/ Opened(b) \/ Handover(b) \/ Overfull(b))
  BY <1>1, <1>2, StoreOutcome
<1>4. \A i \in DOMAIN sent : Handed(i) => Handed(i)'
  <2>1. received' = received \/ received' = Append(received, buffer)
    BY <1>3 DEF Stored, CutOff, Opened, Handover, Overfull
  <2> QED BY <1>1, <2>1, HandedStays
<1>5. ASSUME NEW i \in DOMAIN sent, OnLine(i) PROVE OnLine(i)' \/ InProgress(i)'
  <2>1. CASE b # <<i, 1>> BY <1>1, <1>5, <2>1, OnLineStays DEF b
  <2>2. CASE b = <<i, 1>>
    <3>1. at = "frame" /\ buffer = <<>> BY <1>1, <2>2, FirstByte DEF b
    <3>2. b # FLAG
      <4>1. i >= 1 BY <1>1, FrameTypes
      <4> QED BY <2>2, <4>1 DEF FLAG
    <3>3. Len(buffer) + 1 # maxc BY <3>1, BufferAssumption DEF maxc
    <3>4. Stored(b) BY <1>3, <3>2, <3>3 DEF CutOff, Opened, Handover, Overfull
    <3>5. at' = "frame" /\ buffer' = <<<<i, 1>>>> BY <2>2, <3>1, <3>4 DEF Stored
    <3>6. Content(i, Len(buffer')) = <<<<i, 1>>>> BY <3>5 DEF Content
    <3>7. InProgress(i)' BY <3>5, <3>6 DEF InProgress, Content
    <3> QED BY <3>7
  <2> QED BY <2>1, <2>2
<1>6. /\ \A i \in Lost' : i \in Lost \/ (i \in DOMAIN sent /\ InProgress(i)
                                           /\ ~InProgress(i)' /\ sent[i].whole /\ ~Handed(i)')
      /\ Cardinality(Lost') <= Cardinality(Lost) + 1
      /\ Lost' \subseteq Lost => Cardinality(Lost') <= Cardinality(Lost)
  <2>1. sent' = sent BY <1>1
  <2> QED BY <1>1, <1>4, <1>5, <2>1, Losses
<1>7. /\ Cardinality(Lost) \in Nat /\ Pending \in 0..1 /\ Pending' \in 0..1
      /\ Cardinality(Lost') \in Nat
  BY <1>1, LostTypes, LostTypesNext
<1>8. alarms' + errors' = alarms + errors /\ alarms + errors \in Nat
  BY <1>1, BoundsAssumption DEF TypeOK
<1>9. CASE CutOff(b)
  <2>1. Pending = 1 /\ Pending' = 0 BY <1>1, <1>9 DEF CutOff, TimedOut, Pending
  <2> QED BY <1>1, <1>6, <1>7, <1>8, <2>1 DEF Accounts
<1>10. CASE ~CutOff(b)
  <2>1. ASSUME NEW i \in DOMAIN sent, InProgress(i), ~InProgress(i)', sent[i].whole, ~Handed(i)'
        PROVE  FALSE
    <3>1. i \in Nat /\ i >= 1 /\ sent[i].length \in 1..LL_MAX_FRAME_SZ - 2 BY <1>1, FrameTypes
    <3>2. Len(buffer) \in Nat /\ Len(buffer) >= 1 /\ buffer = Content(i, Len(buffer))
          /\ at = "frame" /\ buffer # <<>>
      BY <1>1, <2>1 DEF InProgress, TypeOK
    <3>3. CASE b = FLAG /\ Len(buffer) = sent[i].length
      <4>1. Handover(b) BY <1>3, <1>10, <3>2, <3>3 DEF Stored, Opened, Overfull
      <4>2. received' = Append(received, buffer) /\ sent' = sent BY <1>1, <4>1 DEF Handover
      <4> DEFINE S == Seq(Byte)
      <4>3. received \in Seq(S) /\ buffer \in S BY <1>1 DEF TypeOK
      <4> HIDE DEF S
      <4>4. DOMAIN received' = 1..Len(received) + 1 /\ Len(received) \in Nat
            /\ received'[Len(received) + 1] = buffer
        BY <4>2, <4>3, Added
      <4>5. Len(received) + 1 \in DOMAIN received' BY <4>4
      <4>6. buffer = Content(i, sent[i].length) BY <3>2, <3>3
      <4>7. \E k \in DOMAIN received' : received'[k] = Content(i, sent[i].length)
        BY <4>4, <4>5, <4>6
      <4>8. Handed(i)' BY <4>2, <4>7 DEF Handed
      <4> QED BY <2>1, <4>8
    <3>4. CASE b = <<i, Len(buffer) + 1>> /\ Len(buffer) + 1 \in 1..sent[i].length
      <4>1. b # FLAG BY <3>1, <3>4 DEF FLAG
      <4>2. Len(buffer) + 1 # maxc BY <3>1, <3>2, <3>4, BufferAssumption DEF maxc
      <4>3. Stored(b) BY <1>3, <4>1, <4>2 DEF CutOff, Opened, Handover, Overfull
      <4>4. buffer' = Content(i, Len(buffer) + 1) /\ at' = "frame"
        BY <3>1, <3>2, <3>4, <4>3, ContentGrows DEF Stored
      <4>5. Len(buffer') = Len(buffer) + 1 /\ buffer' # <<>>
        <5>1. buffer \in Seq(Byte) BY <1>1 DEF TypeOK
        <5>2. Len(buffer') = Len(buffer) + 1 /\ Len(buffer) \in Nat
          BY <1>2, <4>3, <5>1, Added DEF Stored
        <5> QED BY <5>2
      <4>6. InProgress(i)' BY <4>4, <4>5 DEF InProgress, Content
      <4> QED BY <2>1, <4>6
    <3> QED BY <1>1, <2>1, <3>3, <3>4, NextByte DEF b
  <2>2. Lost' \subseteq Lost BY <1>6, <2>1
  <2>3. Pending' <= Pending
    <3>1. \/ alarm' = alarm /\ (at' = at \/ at' = "none" \/ ~TimedOut(alarm))
          \/ alarm' = (IF using_timeout THEN Armed ELSE alarm) /\ ~TimedOut(alarm)
      BY <1>3, <1>10 DEF Stored, Opened, Handover, Overfull
    <3>2. ~TimedOut(alarm) => ~alarm.g_timeout_alarm
      BY <1>1 DEF TimedOut, AlarmInv, Silent
    <3>3. ~Armed.g_timeout_alarm BY DEF Armed, Silent
    <3> QED BY <1>1, <3>1, <3>2, <3>3 DEF Pending
  <2> QED BY <1>1, <1>6, <1>7, <1>8, <2>2, <2>3 DEF Accounts
<1> QED BY <1>9, <1>10

LEMMA StepRead == ASSUME IInv, read_byte PROVE IInv'
<1>1. /\ TypeOK /\ Order /\ InStep /\ AlarmInv /\ WholeFrames /\ Len(sent) <= MaxFrames
      /\ at # "none" /\ line # <<>> /\ line' = Tail(line) /\ Store(Head(line))
      /\ UNCHANGED <<using_timeout, sent, alarms, errors>>
  BY DEF IInv, read_byte
<1> DEFINE b == line[1]
<1>2. Store(b) /\ b \in Byte /\ Head(line) = b BY <1>1 DEF TypeOK
<1> HIDE DEF b
<1>3. line' \in Seq(Byte) BY <1>1 DEF TypeOK
<1>4. TypeOK'
  <2>1. /\ at' \in {"none", "flag", "frame"}
        /\ g_last_byte' \in Byte
        /\ buffer' \in Seq(Byte \ {FLAG})
        /\ Len(buffer') + (IF at' = "frame" THEN 1 ELSE 0) < LL_MAX_FRAME_SZ
        /\ alarm' \in [armed : BOOLEAN, g_timeout_alarm : BOOLEAN, missed : BOOLEAN]
        /\ received' \in Seq(Seq(Byte))
    BY <1>1, <1>2, StoreType
  <2> QED BY <1>1, <1>3, <2>1 DEF TypeOK
<1>5. g_last_byte' = Head(line) BY <1>1, <1>2, StoreOutcome
<1>6. Order' BY <1>1, <1>5, TakeOrder
<1>7. AlarmInv' BY <1>1, <1>2, StoreAlarm
<1>8. InStep' BY <1>1, <1>2, StoreInStep DEF b
<1>9. WholeFrames' BY <1>1, <1>2, StoreWhole DEF b
<1>10. Accounts' BY <1>4, ReadAccounts
<1> QED BY <1>1, <1>4, <1>6, <1>7, <1>8, <1>9, <1>10 DEF IInv

LEMMA SameOrder ==
  ASSUME Order, UNCHANGED <<line, sent, g_last_byte>>
  PROVE  Order'
<1>1. line' = line /\ sent' = sent /\ g_last_byte' = g_last_byte OBVIOUS
<1> QED BY <1>1 DEF Order, Stream

\* When the line and what was handed over are as they were, what is lost was in
\* progress.
LEMMA SameLine ==
  ASSUME TypeOK, TypeOK', UNCHANGED <<line, sent>>,
         received' = received \/ received' = Append(received, buffer)
  PROVE  /\ Cardinality(Lost') <= Cardinality(Lost) + 1
         /\ (\A i : InProgress(i) => InProgress(i)') => Cardinality(Lost') <= Cardinality(Lost)
<1>1. sent' = sent /\ line' = line OBVIOUS
<1>2. \A i \in DOMAIN sent : Handed(i) => Handed(i)' BY HandedStays
<1>3. \A i : OnLine(i) => OnLine(i)' BY <1>1 DEF OnLine
<1>4. /\ \A i \in Lost' : i \in Lost \/ (i \in DOMAIN sent /\ InProgress(i)
                                           /\ ~InProgress(i)' /\ sent[i].whole /\ ~Handed(i)')
      /\ Cardinality(Lost') <= Cardinality(Lost) + 1
      /\ Lost' \subseteq Lost => Cardinality(Lost') <= Cardinality(Lost)
  BY <1>1, <1>2, <1>3, Losses
<1> QED BY <1>4

LEMMA StepError == ASSUME IInv, read_error PROVE IInv'
<1>1. /\ TypeOK /\ Order /\ InStep /\ AlarmInv /\ WholeFrames /\ Len(sent) <= MaxFrames
      /\ at # "none" /\ Store(g_last_byte) /\ errors < MaxErrors /\ errors' = errors + 1
      /\ g_last_byte \in Byte /\ errors \in Nat /\ alarms \in Nat
      /\ UNCHANGED <<using_timeout, line, sent, alarms>>
  BY BoundsAssumption DEF IInv, read_error, TypeOK
<1> DEFINE b == g_last_byte
<1>2. Store(b) /\ b \in Byte BY <1>1
<1>3. g_last_byte' = b /\ (Stored(b) \/ CutOff(b) \/ Opened(b) \/ Handover(b) \/ Overfull(b))
  BY <1>1, <1>2, StoreOutcome
<1>4. TypeOK'
  <2>1. /\ at' \in {"none", "flag", "frame"}
        /\ g_last_byte' \in Byte
        /\ buffer' \in Seq(Byte \ {FLAG})
        /\ Len(buffer') + (IF at' = "frame" THEN 1 ELSE 0) < LL_MAX_FRAME_SZ
        /\ alarm' \in [armed : BOOLEAN, g_timeout_alarm : BOOLEAN, missed : BOOLEAN]
        /\ received' \in Seq(Seq(Byte))
    BY <1>1, <1>2, StoreType
  <2>2. errors' \in 0..MaxErrors BY <1>1, BoundsAssumption
  <2> QED BY <1>1, <2>1, <2>2 DEF TypeOK
<1>5. Order' BY <1>1, <1>3, SameOrder
<1>6. AlarmInv' BY <1>1, <1>2, StoreAlarm
<1>7. errors' # errors BY <1>1
<1>8. InStep' BY <1>1, <1>2, <1>7, StoreInStep
<1>9. WholeFrames' BY <1>1, <1>2, <1>7, StoreWhole
<1>10. Accounts'
  <2>1. received' = received \/ received' = Append(received, buffer)
    BY <1>3 DEF Stored, CutOff, Opened, Handover, Overfull
  <2>2. Cardinality(Lost') <= Cardinality(Lost) + 1 BY <1>1, <1>4, <2>1, SameLine
  <2>3. Pending' <= Pending
    <3>1. \/ alarm' = alarm /\ (at' = at \/ at' = "none" \/ ~TimedOut(alarm))
          \/ alarm' = (IF using_timeout THEN Armed ELSE alarm) /\ ~TimedOut(alarm)
      BY <1>3 DEF Stored, CutOff, Opened, Handover, Overfull
    <3>2. ~TimedOut(alarm) => ~alarm.g_timeout_alarm
      BY <1>1 DEF TimedOut, AlarmInv, Silent
    <3>3. ~Armed.g_timeout_alarm BY DEF Armed, Silent
    <3> QED BY <1>1, <3>1, <3>2, <3>3 DEF Pending
  <2>4. /\ Cardinality(Lost) \in Nat /\ Pending \in 0..1 /\ Pending' \in 0..1
        /\ Cardinality(Lost') \in Nat /\ Accounts
    BY <1>1, <1>4, LostTypes, LostTypesNext DEF IInv
  <2> QED BY <1>1, <2>2, <2>3, <2>4 DEF Accounts
<1> QED BY <1>1, <1>4, <1>5, <1>6, <1>8, <1>9, <1>10 DEF IInv

-----------------------------------------------------------------------------
(* The other steps.                                                        *)

LEMMA StepWrite == ASSUME IInv, serial_port_write PROVE IInv'
<1>1. /\ TypeOK /\ Order /\ InStep /\ AlarmInv /\ WholeFrames /\ Accounts
      /\ Len(sent) < MaxFrames
      /\ UNCHANGED <<at, using_timeout, g_last_byte, buffer, alarm, received, alarms, errors>>
  BY DEF IInv, serial_port_write
<1>2. PICK n \in Lengths :
        \E m \in 1..Len(Frame(Len(sent) + 1, n)) :
          /\ line' = line \o Written(Len(sent) + 1, n, m)
          /\ sent' = Append(sent, [length |-> n, whole |-> m = Len(Frame(Len(sent) + 1, n))])
  BY DEF serial_port_write, Frame, Written
<1> DEFINE i0 == Len(sent) + 1
<1>3. i0 \in 1..MaxFrames /\ i0 \in Nat /\ n \in 1..LL_MAX_FRAME_SZ - 2 /\ n \in Nat
  BY <1>1, BufferAssumption, BoundsAssumption, FrameTypes
<1>4. Len(Frame(i0, n)) = n + 2
  <2>1. 1 \in 1..n + 2 BY <1>3
  <2> HIDE DEF i0
  <2> QED BY <1>3, <2>1, FrameBytes
<1>5. PICK m \in 1..n + 2 :
          /\ line' = line \o Written(i0, n, m)
          /\ sent' = Append(sent, [length |-> n, whole |-> m = n + 2])
  BY <1>2, <1>4
<1> DEFINE r == [length |-> n, whole |-> m = n + 2]
           w == Written(i0, n, m)
<1>6. /\ Len(sent') = i0
      /\ DOMAIN sent = 1..Len(sent) /\ DOMAIN sent' = 1..i0
      /\ \A i \in DOMAIN sent : sent'[i] = sent[i] /\ i \in DOMAIN sent'
      /\ i0 \in DOMAIN sent' /\ sent'[i0] = r
      /\ sent' \in Seq([length : Lengths, whole : BOOLEAN])
  <2>1. r \in [length : Lengths, whole : BOOLEAN] /\ sent' = Append(sent, r) BY <1>5
  <2> HIDE DEF r
  <2>2. sent \in Seq([length : Lengths, whole : BOOLEAN]) BY <1>1 DEF TypeOK
  <2>3. sent' \in Seq([length : Lengths, whole : BOOLEAN]) BY <2>1, <2>2, Added
  <2> QED BY <1>1, <2>1, <2>3, OlderFrames
<1>7. sent'[i0].length = n /\ (sent'[i0].whole <=> m = n + 2) BY <1>6
<1>8. /\ Len(w) = m /\ w[1] = FLAG
      /\ \A q \in 2..m : w[q] = IF q = n + 2 THEN FLAG ELSE <<i0, q - 1>>
      /\ w \in Seq(Byte)
  <2>1. FLAG \in Byte /\ \A j \in 1..n : <<i0, j>> \in Byte
    <3>1. \A j \in 1..n : j \in 1..LL_MAX_FRAME_SZ BY <1>3, BufferAssumption
    <3> QED BY <1>3, <3>1 DEF Byte
  <2> HIDE DEF i0
  <2> QED BY <1>3, <2>1, FrameBytes, ZenonT(60)
<1>9. line' = line \o w BY <1>5
<1> HIDE DEF i0, r, w
<1> PICK L : L = Len(line) OBVIOUS
<1>10. line \in Seq(Byte) /\ line' \in Seq(Byte) BY <1>1, <1>8, <1>9, Joined DEF TypeOK
<1>11. /\ L \in Nat /\ Len(line') = L + m
       /\ \A k \in 0..L : Stream(k)' = Stream(k)
       /\ \A q \in 1..m : Stream(L + q)' = w[q]
  <2>1. g_last_byte' = g_last_byte BY <1>1
  <2> QED BY <1>8, <1>9, <1>10, <2>1, WriteStream
<1>12. TypeOK' BY <1>1, <1>6, <1>10 DEF TypeOK
<1>13. Order'
  <2>1. Stream(L + 1)' = FLAG
    <3>1. 1 \in 1..m OBVIOUS
    <3> QED BY <1>8, <1>11, <3>1
  <2>2. \A q \in 2..m : Stream(L + q)' = IF q = n + 2 THEN FLAG ELSE <<i0, q - 1>>
    <3>1. \A q \in 2..m : q \in 1..m OBVIOUS
    <3> QED BY <1>8, <1>11, <3>1
  <2>3. n >= 1 BY <1>3
  <2>4. UNCHANGED g_last_byte BY <1>1
  <2>5. \A i \in DOMAIN sent : sent'[i] = sent[i] /\ i \in DOMAIN sent' BY <1>6
  <2>6. i0 \in DOMAIN sent' /\ sent'[i0].length = n /\ (sent'[i0].whole => m = n + 2)
    BY <1>6, <1>7
  <2>7. L \in Nat /\ L = Len(line) /\ Len(line') = L + m BY <1>11
  <2>8. \A k \in 0..L : Stream(k)' = Stream(k) BY <1>11
  <2>9. Order /\ n \in Nat /\ m \in 1..n + 2 BY <1>1, <1>3
  <2> QED BY <2>1, <2>2, <2>3, <2>4, <2>5, <2>6, <2>7, <2>8, <2>9, WriteOrder
<1>14. AlarmInv' BY <1>1 DEF AlarmInv
<1>15. InStep'
  <2>1. at' = at /\ buffer' = buffer /\ g_last_byte' = g_last_byte /\ errors' = errors BY <1>1
  <2> QED BY <1>1, <1>6, <2>1 DEF InStep
<1>16. WholeFrames'
  <2>1. received' = received /\ errors' = errors BY <1>1
  <2> QED BY <1>1, <1>6, <2>1 DEF WholeFrames
<1>17. Accounts'
  <2>1. ASSUME NEW i \in DOMAIN sent', sent'[i].whole
        PROVE  \/ i \in DOMAIN sent /\ sent'[i] = sent[i]
                    /\ (OnLine(i) => OnLine(i)' \/ InProgress(i)')
                    /\ (Handed(i) => Handed(i)')
               \/ OnLine(i)'
    <3>1. CASE i = i0
      <4>1. m = n + 2 /\ 2 \in 2..m /\ 2 \in 1..m /\ 2 # n + 2 BY <1>3, <1>7, <2>1, <3>1
      <4>2. Stream(L + 2)' = <<i0, 1>>
        <5>1. Stream(L + 2)' = w[2] BY <1>11, <4>1
        <5>2. \A q \in 2..m : w[q] = IF q = n + 2 THEN FLAG ELSE <<i0, q - 1>> BY <1>8
        <5>3. ASSUME NEW q \in 2..m, q = 2 PROVE w[q] = <<i0, 1>>
          <6>1. q # n + 2 /\ q - 1 = 1 BY <4>1, <5>3
          <6>2. w[q] = <<i0, q - 1>> BY <5>2, <6>1
          <6> QED BY <6>1, <6>2
        <5> QED BY <4>1, <5>1, <5>3
      <4>3. L + 2 \in 1..Len(line') /\ L + 2 # 0 BY <1>11, <4>1
      <4>4. line'[L + 2] = <<i, 1>> BY <3>1, <4>2, <4>3 DEF Stream
      <4> QED BY <4>3, <4>4 DEF OnLine
    <3>2. CASE i # i0
      <4>1. i \in DOMAIN sent /\ sent'[i] = sent[i]
        <5>1. i \in 1..i0 /\ i0 = Len(sent) + 1 BY <1>6 DEF i0
        <5> QED BY <1>3, <1>6, <3>2, <5>1
      <4>2. ASSUME OnLine(i) PROVE OnLine(i)'
        <5>1. PICK k \in 1..L : line[k] = <<i, 1>> BY <4>2 DEF OnLine
        <5>2. Stream(k)' = Stream(k) /\ k # 0 /\ k \in 1..Len(line') BY <1>11
        <5>3. line'[k] = <<i, 1>> BY <5>1, <5>2 DEF Stream
        <5> QED BY <5>2, <5>3 DEF OnLine
      <4>3. received' = received BY <1>1
      <4>4. Handed(i) => Handed(i)' BY <4>1, <4>3 DEF Handed
      <4> QED BY <4>1, <4>2, <4>4
    <3> QED BY <3>1, <3>2
  <2>2. \A i : InProgress(i) => InProgress(i)'
    <3>1. at' = at /\ buffer' = buffer BY <1>1
    <3> QED BY <3>1 DEF InProgress, Content
  <2>3. /\ \A i \in Lost' : i \in Lost \/ (i \in DOMAIN sent /\ InProgress(i)
                                             /\ ~InProgress(i)' /\ sent[i].whole /\ ~Handed(i)')
        /\ Lost' \subseteq Lost => Cardinality(Lost') <= Cardinality(Lost)
    BY <1>1, <1>12, <2>1, Losses
  <2>4. Cardinality(Lost') <= Cardinality(Lost) BY <2>2, <2>3
  <2>5. Pending' = Pending BY <1>1 DEF Pending
  <2>6. /\ Cardinality(Lost) \in Nat /\ Pending \in 0..1 /\ alarms \in Nat /\ errors \in Nat
        /\ Cardinality(Lost') \in Nat
    BY <1>1, <1>12, LostTypes, LostTypesNext, BoundsAssumption DEF TypeOK
  <2> QED BY <1>1, <2>4, <2>5, <2>6 DEF Accounts
<1>18. Len(sent') <= MaxFrames BY <1>3, <1>6
<1> QED BY <1>12, <1>13, <1>14, <1>15, <1>16, <1>17, <1>18 DEF IInv

LEMMA StepReceive == ASSUME IInv, f_receive_frame PROVE IInv'
<1>1. /\ TypeOK /\ Order /\ InStep /\ AlarmInv /\ WholeFrames /\ Accounts
      /\ Len(sent) <= MaxFrames
      /\ at = "none" /\ using_timeout' \in {using_timeout, TRUE}
      /\ alarm' = (IF using_timeout' THEN Armed ELSE alarm)
      /\ at' = LoopAfter(g_last_byte) /\ buffer' = <<>>
      /\ UNCHANGED <<g_last_byte, line, sent, received, alarms, errors>>
  BY DEF IInv, f_receive_frame
<1>2. /\ Armed \in [armed : BOOLEAN, g_timeout_alarm : BOOLEAN, missed : BOOLEAN]
      /\ ~Armed.g_timeout_alarm
  BY DEF Armed, Silent
<1>3. TypeOK'
  <2>1. at' \in {"flag", "frame"} BY <1>1 DEF LoopAfter
  <2>2. using_timeout' \in BOOLEAN BY <1>1 DEF TypeOK
  <2>3. alarm' \in [armed : BOOLEAN, g_timeout_alarm : BOOLEAN, missed : BOOLEAN]
    BY <1>1, <1>2, <2>2 DEF TypeOK
  <2>4. buffer' \in Seq(Byte \ {FLAG}) /\ Len(buffer') = 0 BY <1>1
  <2>5. Len(buffer') + (IF at' = "frame" THEN 1 ELSE 0) < LL_MAX_FRAME_SZ
    BY <2>4, BufferAssumption
  <2> QED BY <1>1, <2>1, <2>2, <2>3, <2>4, <2>5 DEF TypeOK
<1>4. Order' BY <1>1, SameOrder
<1>5. AlarmInv' BY <1>1, <1>2 DEF AlarmInv, TypeOK
<1>6. InStep' BY <1>1 DEF InStep, LoopAfter
<1>7. WholeFrames'
  <2>1. received' = received /\ errors' = errors /\ sent' = sent BY <1>1
  <2> QED BY <1>1, <2>1 DEF WholeFrames
<1>8. Accounts'
  <2>1. \A i : ~InProgress(i) BY <1>1 DEF InProgress
  <2>2. received' = received /\ UNCHANGED <<line, sent>> BY <1>1
  <2>3. Cardinality(Lost') <= Cardinality(Lost) BY <1>1, <1>3, <2>1, <2>2, SameLine
  <2>4. Pending' = 0
    <3>1. CASE using_timeout' BY <1>1, <1>2, <3>1 DEF Pending
    <3>2. CASE ~using_timeout'
      <4>1. ~using_timeout BY <1>1, <3>2 DEF TypeOK
      <4>2. alarm' = Silent BY <1>1, <3>2, <4>1 DEF AlarmInv
      <4> QED BY <4>2 DEF Pending, Silent
    <3> QED BY <3>1, <3>2
  <2>5. /\ Cardinality(Lost) \in Nat /\ Pending \in 0..1 /\ alarms \in Nat /\ errors \in Nat
        /\ Cardinality(Lost') \in Nat
    BY <1>1, <1>3, LostTypes, LostTypesNext, BoundsAssumption DEF TypeOK
  <2> QED BY <1>1, <2>3, <2>4, <2>5 DEF Accounts
<1> QED BY <1>1, <1>3, <1>4, <1>5, <1>6, <1>7, <1>8 DEF IInv

LEMMA StepInterrupt == ASSUME IInv, interrupt PROVE IInv'
<1>1. /\ TypeOK /\ Order /\ InStep /\ AlarmInv /\ WholeFrames /\ Accounts
      /\ Len(sent) <= MaxFrames
      /\ at # "none" /\ alarm.armed /\ alarms < MaxAlarms /\ alarms' = alarms + 1
      /\ ReadReturns(<<>>, g_last_byte, Rung)
      /\ UNCHANGED <<using_timeout, line, sent, errors>>
  BY DEF IInv, interrupt, Ring
<1>2. using_timeout BY <1>1 DEF AlarmInv, Silent
<1>3. TimedOut(Rung) BY <1>2 DEF TimedOut, Rung, Silent
<1>4. g_last_byte' = g_last_byte /\ Returns(<<>>, Rung) BY <1>1, <1>3 DEF ReadReturns
<1>5. at' = "none" /\ buffer' = <<>> /\ alarm' = Rung /\ received' = received
  BY <1>1, <1>4 DEF Returns, TypeOK
<1>6. Rung \in [armed : BOOLEAN, g_timeout_alarm : BOOLEAN, missed : BOOLEAN] /\ ~Rung.armed
  BY DEF Rung, Silent
<1>7. TypeOK' BY <1>1, <1>4, <1>5, <1>6, BufferAssumption, BoundsAssumption DEF TypeOK
<1>8. Order' BY <1>1, <1>4, SameOrder
<1>9. AlarmInv' BY <1>1, <1>2, <1>5, <1>6 DEF AlarmInv
<1>10. InStep' BY <1>5 DEF InStep
<1>11. WholeFrames'
  <2>1. errors' = errors /\ sent' = sent BY <1>1
  <2> QED BY <1>1, <1>5, <2>1 DEF WholeFrames
<1>12. Accounts'
  <2>1. UNCHANGED <<line, sent>> BY <1>1
  <2>2. Cardinality(Lost') <= Cardinality(Lost) + 1 BY <1>1, <1>5, <1>7, <2>1, SameLine
  <2>3. Pending = 0 /\ Pending' = 0 BY <1>1, <1>5 DEF Pending, AlarmInv
  <2>4. /\ Cardinality(Lost) \in Nat /\ alarms \in Nat /\ errors \in Nat
        /\ Cardinality(Lost') \in Nat
    BY <1>1, <1>7, LostTypes, LostTypesNext, BoundsAssumption DEF TypeOK
  <2> QED BY <1>1, <2>2, <2>3, <2>4 DEF Accounts
<1> QED BY <1>1, <1>7, <1>8, <1>9, <1>10, <1>11, <1>12 DEF IInv

LEMMA StepUnheard == ASSUME IInv, ring_unheard PROVE IInv'
<1>1. /\ TypeOK /\ Order /\ InStep /\ AlarmInv /\ WholeFrames /\ Accounts
      /\ Len(sent) <= MaxFrames
      /\ alarm.armed /\ alarms < MaxAlarms /\ alarms' = alarms + 1
      /\ alarm' = [Rung EXCEPT !.missed = at # "none"]
      /\ UNCHANGED <<at, using_timeout, g_last_byte, buffer, line, sent, received, errors>>
  BY DEF IInv, ring_unheard, Ring
<1>2. using_timeout BY <1>1 DEF AlarmInv, Silent
<1>3. alarm' \in [armed : BOOLEAN, g_timeout_alarm : BOOLEAN, missed : BOOLEAN] /\ ~alarm'.armed
  BY <1>1 DEF Rung, Silent
<1>4. TypeOK' BY <1>1, <1>3, BoundsAssumption DEF TypeOK
<1>5. Order' BY <1>1, SameOrder
<1>6. AlarmInv' BY <1>1, <1>2, <1>3 DEF AlarmInv
<1>7. InStep'
  <2>1. at' = at /\ buffer' = buffer /\ g_last_byte' = g_last_byte /\ errors' = errors
        /\ sent' = sent
    BY <1>1
  <2> QED BY <1>1, <2>1 DEF InStep
<1>8. WholeFrames'
  <2>1. received' = received /\ errors' = errors /\ sent' = sent BY <1>1
  <2> QED BY <1>1, <2>1 DEF WholeFrames
<1>9. Accounts'
  <2>1. \A i : InProgress(i) => InProgress(i)'
    <3>1. at' = at /\ buffer' = buffer BY <1>1
    <3> QED BY <3>1 DEF InProgress, Content
  <2>2. received' = received /\ UNCHANGED <<line, sent>> BY <1>1
  <2>3. Cardinality(Lost') <= Cardinality(Lost) BY <1>1, <1>4, <2>1, <2>2, SameLine
  <2>4. Pending = 0 BY <1>1 DEF Pending, AlarmInv
  <2>5. /\ Cardinality(Lost) \in Nat /\ Pending' \in 0..1 /\ alarms \in Nat /\ errors \in Nat
        /\ Cardinality(Lost') \in Nat
    BY <1>1, <1>4, LostTypes, LostTypesNext, BoundsAssumption DEF TypeOK
  <2> QED BY <1>1, <2>3, <2>4, <2>5 DEF Accounts
<1> QED BY <1>1, <1>4, <1>5, <1>6, <1>7, <1>8, <1>9 DEF IInv

LEMMA InitIInv == Init => IInv
<1> SUFFICES ASSUME Init PROVE IInv OBVIOUS
<1>1. TypeOK
  <2>1. FLAG \in Byte /\ Zero \in Byte BY DEF Byte
  <2>2. line \in Seq(Byte)
    <3>1. line = <<>> \/ line = <<Zero>> \/ line = <<Zero, FLAG>> BY DEF Init
    <3>2. <<>> \in Seq(Byte) /\ <<Zero>> \in Seq(Byte) /\ <<Zero, FLAG>> \in Seq(Byte) BY <2>1
    <3> QED BY <3>1, <3>2
  <2>3. Silent \in [armed : BOOLEAN, g_timeout_alarm : BOOLEAN, missed : BOOLEAN] BY DEF Silent
  <2>4. at = "none" /\ buffer \in Seq(Byte \ {FLAG}) /\ Len(buffer) = 0 BY DEF Init
  <2>5. sent \in Seq([length : Lengths, whole : BOOLEAN]) /\ received \in Seq(Seq(Byte))
    BY DEF Init
  <2>6. alarms \in 0..MaxAlarms /\ errors \in 0..MaxErrors BY BoundsAssumption DEF Init
  <2>7. using_timeout \in BOOLEAN /\ g_last_byte \in Byte
        /\ alarm \in [armed : BOOLEAN, g_timeout_alarm : BOOLEAN, missed : BOOLEAN]
    BY <2>1, <2>3 DEF Init
  <2>8. Len(buffer) + (IF at = "frame" THEN 1 ELSE 0) < LL_MAX_FRAME_SZ
    BY <2>4, BufferAssumption
  <2> QED BY <2>2, <2>4, <2>5, <2>6, <2>7, <2>8 DEF TypeOK
<1>2. Len(sent) <= MaxFrames BY BoundsAssumption DEF Init
<1>3. Order
  <2>1. g_last_byte = Zero BY DEF Init
  <2>2. CASE line = <<>> BY <2>1, <2>2 DEF Order, Stream, Ends
  <2>3. CASE line = <<Zero>>
    <3>1. Len(line) = 1 /\ line[1] = Zero BY <2>3
    <3> QED BY <2>1, <3>1 DEF Order, Stream, Ends, Follows
  <2>4. CASE line = <<Zero, FLAG>>
    <3>1. Len(line) = 2 /\ line[1] = Zero /\ line[2] = FLAG BY <2>4
    <3> QED BY <2>1, <3>1 DEF Order, Stream, Ends, Follows
  <2> QED BY <2>2, <2>3, <2>4 DEF Init
<1>4. AlarmInv BY DEF Init, AlarmInv, Silent
<1>5. InStep BY DEF Init, InStep
<1>6. WholeFrames BY DEF Init, WholeFrames
<1>7. Accounts
  <2>1. Lost = {} BY DEF Lost, Dropped, Init
  <2>2. Cardinality(Lost) = 0 BY <2>1, FS_EmptySet
  <2>3. Pending = 0 BY DEF Pending, Init
  <2> QED BY <2>2, <2>3 DEF Accounts, Init
<1> QED BY <1>1, <1>2, <1>3, <1>4, <1>5, <1>6, <1>7 DEF IInv

LEMMA StepIInv == IInv /\ [Next]_vars => IInv'
<1> SUFFICES ASSUME IInv, [Next]_vars PROVE IInv' OBVIOUS
<1>1. CASE UNCHANGED vars
  <2>1. /\ at' = at /\ using_timeout' = using_timeout /\ g_last_byte' = g_last_byte
        /\ buffer' = buffer /\ alarm' = alarm /\ line' = line /\ sent' = sent
        /\ received' = received /\ alarms' = alarms /\ errors' = errors
    BY <1>1 DEF vars
  <2>2. TypeOK' /\ Len(sent') <= MaxFrames BY <2>1 DEF IInv, TypeOK
  <2>3. Order' BY <2>1, SameOrder DEF IInv
  <2>4. AlarmInv' /\ InStep' /\ WholeFrames' BY <2>1 DEF IInv, AlarmInv, InStep, WholeFrames
  <2>5. Accounts'
    <3>1. Lost' = Lost BY <2>1 DEF Lost, Dropped, Handed, OnLine, InProgress, Content
    <3>2. Pending' = Pending BY <2>1 DEF Pending
    <3> QED BY <2>1, <3>1, <3>2 DEF IInv, Accounts
  <2> QED BY <2>2, <2>3, <2>4, <2>5 DEF IInv
<1> QED BY <1>1, StepWrite, StepReceive, StepRead, StepError, StepInterrupt, StepUnheard DEF Next

-----------------------------------------------------------------------------
(* What follows.                                                           *)

LEMMA AlwaysIInv == Spec => []IInv
<1>1. Init => IInv BY InitIInv
<1>2. IInv /\ [Next]_vars => IInv' BY StepIInv
<1> QED BY <1>1, <1>2, PTL DEF Spec

\* The type invariant of the reader: its buffer never overflows.
THEOREM SerialFramingTypes == Spec => []TypeOK
<1>1. IInv => TypeOK BY DEF IInv
<1> QED BY <1>1, AlwaysIInv, PTL

\* As long as no read fails, what the parser gets is a frame as it was written, or
\* as much of it as was, whatever the lengths, the alarms and the truncations.
THEOREM FramesAreWhole == Spec => []WholeFrames
<1>1. IInv => WholeFrames BY DEF IInv
<1> QED BY <1>1, AlwaysIInv, PTL

LEMMA IInvOneFrameEach == IInv => OneFrameEach
<1> SUFFICES ASSUME IInv, line = <<>>, buffer = <<>>
             PROVE  Cardinality(Dropped) <= alarms + errors
  BY DEF OneFrameEach
<1>1. TypeOK /\ Accounts BY DEF IInv
<1>2. \A i : ~OnLine(i) /\ ~InProgress(i)
  <2>1. Len(line) = 0 OBVIOUS
  <2> QED BY <2>1 DEF OnLine, InProgress
<1>3. Lost = Dropped BY <1>2 DEF Lost
<1>4. Cardinality(Lost) \in Nat /\ Pending \in 0..1 BY <1>1, LostTypes
<1>5. alarms \in Nat /\ errors \in Nat BY <1>1, BoundsAssumption DEF TypeOK
<1> QED BY <1>1, <1>3, <1>4, <1>5 DEF Accounts

\* An alarm or a failed read costs one frame at most, and nothing else costs one.
THEOREM OneFrameIsLost == Spec => []OneFrameEach
BY AlwaysIInv, IInvOneFrameEach, PTL
=============================================================================
