-------------------------- MODULE SerialLinkProofs --------------------------
(***************************************************************************)
(* The receiver takes the messages that were sent, in order.  Everything   *)
(* under way is one stream of bytes: the word in stored_x, the queue, the  *)
(* receive FIFO and the line.                                              *)
(***************************************************************************)
EXTENDS SerialLink, WordsProofs, WellFoundedInduction

(* Only such messages are sent.                                            *)
LEMMA SentAreTaken == Messages \subseteq Taken
  BY LinkAssumption DEF Taken, Word16

-----------------------------------------------------------------------------
(* The stream.                                                             *)

RxByte == [byte : Bytes8, error : BOOLEAN]

Types ==
  /\ line \in Seq(Bytes8) /\ inQueue \in Seq(Bytes8) /\ rx \in Seq(RxByte)
  /\ stored_x \in Word16 /\ is_stored_x \in BOOLEAN
  /\ sentlog \in Seq(Taken) /\ applied \in Seq(Taken) /\ hurt \in BOOLEAN

(* What the code cannot see to: the UART has not overrun, and the queue    *)
(* has room for what the next interrupt collects.                          *)
RoomLeft == overrun = FALSE /\ Len(inQueue) + Len(rx) <= Capacity

(* The damaged bytes of a FIFO, its bytes, and the word kept.              *)
DamagedIn(r) == {i \in DOMAIN r : r[i].error}
BytesIn(r) == [i \in DOMAIN r |-> r[i].byte]
Kept(is, x) == IF is THEN BytesOf(x) ELSE << >>

Damaged == DamagedIn(rx)
RxBytes == BytesIn(rx)
Stored  == Kept(is_stored_x, stored_x)
Stream  == Cat(Cat(Stored, inQueue), Cat(RxBytes, line))

(* The bytes of the receive FIFO.                                          *)
LEMMA BytesInType ==
  ASSUME NEW r \in Seq(RxByte)
  PROVE  /\ BytesIn(r) \in Seq(Bytes8) /\ Len(BytesIn(r)) = Len(r) /\ Len(r) \in Nat
         /\ DOMAIN r = 1 .. Len(r)
         /\ \A i \in 1 .. Len(r) : BytesIn(r)[i] = r[i].byte /\ r[i] \in RxByte
<1>1. /\ Len(r) \in Nat /\ DOMAIN r = 1 .. Len(r)
      /\ \A i \in 1 .. Len(r) : r[i] \in RxByte
  OBVIOUS
<1>2. \A i \in 1 .. Len(r) : r[i].byte \in Bytes8
  BY <1>1 DEF RxByte
<1>3. BytesIn(r) = [i \in 1 .. Len(r) |-> r[i].byte]
  BY <1>1 DEF BytesIn
<1>4. QED
  BY <1>1, <1>2, <1>3

(* And the word kept.                                                      *)
LEMMA KeptType ==
  ASSUME NEW is \in BOOLEAN, NEW x \in Word16
  PROVE  Kept(is, x) \in Seq(Bytes8)
<1>1. CASE is
  BY <1>1, TwoBytes DEF Kept
<1>2. CASE ~is
  BY <1>2 DEF Kept
<1>3. QED
  BY <1>1, <1>2

(* sp_ih collects every byte when none of them is damaged.                 *)
LEMMA CollectsAll ==
  ASSUME Types, RoomLeft, Damaged = {}
  PROVE  /\ Collected = inQueue \o RxBytes /\ Collected \in Seq(Bytes8)
         /\ sp_ih => rx' = << >>
<1>1. /\ RxBytes \in Seq(Bytes8) /\ Len(RxBytes) = Len(rx) /\ Len(rx) \in Nat
      /\ DOMAIN rx = 1 .. Len(rx)
  BY BytesInType DEF Types, RxBytes
<1>2. Readable = Len(rx)
  BY DEF Readable, Damaged, DamagedIn, RoomLeft
<1>3. [i \in 1 .. Readable |-> rx[i].byte] = RxBytes
  BY <1>1, <1>2 DEF RxBytes, BytesIn
<1>4. inQueue \in Seq(Bytes8) /\ Len(inQueue) + Len(RxBytes) <= Capacity
  BY <1>1 DEF Types, RoomLeft
<1>5. Enqueued(inQueue, RxBytes) = inQueue \o RxBytes
  BY <1>1, <1>4, Fits
<1>6. Collected = inQueue \o RxBytes
  BY <1>3, <1>5 DEF Collected
<1>7. SubSeq(rx, Len(rx) + 2, Len(rx)) = << >>
  BY <1>1, SubSeqEmpty
<1>8. inQueue \o RxBytes \in Seq(Bytes8)
  BY <1>1, <1>4
<1>9. QED
  BY <1>2, <1>6, <1>7, <1>8 DEF sp_ih

(* What sp_int takes off the stream is a whole message or nothing.         *)
LEMMA Takes ==
  ASSUME Types, Collected \in Seq(Bytes8), NoWord \/ Quit \/ StoreFirst \/ Apply
  PROVE  /\ stored_x' \in Word16 /\ is_stored_x' \in BOOLEAN /\ inQueue' \in Seq(Bytes8)
         /\ \/ applied' = applied /\ Stored \o Collected = Stored' \o inQueue'
            \/ \E m \in Taken : /\ applied' = Append(applied, m)
                                /\ Stored \o Collected = Bytes(m) \o (Stored' \o inQueue')
<1>0. Stored \in Seq(Bytes8) /\ stored_x \in Word16 /\ is_stored_x \in BOOLEAN
  BY KeptType DEF Types, Stored
<1>e. \A s \in Seq(Bytes8) : << >> \o s = s
  BY ConcatEmptySeq
<1>1. ASSUME HasFirst
      PROVE  /\ First \in Word16 /\ Left \in Seq(Bytes8)
             /\ Stored \o Collected = BytesOf(First) \o Left
  <2>1. CASE is_stored_x
    BY <1>0, <2>1 DEF First, Left, Stored, Kept
  <2>2. CASE ~is_stored_x
    <3>1. WordReady(Collected) /\ First = NextWord(Collected) /\ Left = AfterWord(Collected)
          /\ Stored = << >>
      BY <1>1, <2>2 DEF HasFirst, First, Left, Stored, Kept
    <3>2. /\ NextWord(Collected) \in Word16 /\ AfterWord(Collected) \in Seq(Bytes8)
          /\ Collected = BytesOf(NextWord(Collected)) \o AfterWord(Collected)
      BY <3>1, ReadWord
    <3>3. Stored \o Collected = Collected
      BY <1>e, <3>1
    <3>4. QED
      BY <3>1, <3>2, <3>3
  <2>3. QED
    BY <2>1, <2>2
<1>2. CASE NoWord
  <2>1. /\ ~is_stored_x /\ inQueue' = Collected /\ is_stored_x' = is_stored_x
        /\ stored_x' = stored_x /\ applied' = applied
    BY <1>2 DEF NoWord, HasFirst
  <2>2. Stored = << >> /\ Stored' = << >>
    BY <2>1 DEF Stored, Kept
  <2>3. QED
    BY <1>0, <2>1, <2>2
<1>3. CASE Quit
  <2>1. /\ HasFirst /\ First = signal1 /\ applied' = Append(applied, <<signal1>>)
        /\ inQueue' = Left /\ is_stored_x' = FALSE /\ stored_x' = stored_x
    BY <1>3 DEF Quit
  <2>2. Stored' = << >> /\ Stored' \o inQueue' = Left
    BY <1>1, <1>e, <2>1 DEF Stored, Kept
  <2>3. Bytes(<<signal1>>) = BytesOf(signal1) /\ <<signal1>> \in Taken
    BY DEF Bytes, Taken
  <2>4. Stored \o Collected = Bytes(<<signal1>>) \o (Stored' \o inQueue')
    BY <1>1, <2>1, <2>2, <2>3
  <2>5. QED
    BY <1>0, <1>1, <2>1, <2>3, <2>4
<1>4. CASE StoreFirst
  <2>1. /\ HasFirst /\ inQueue' = Left /\ stored_x' = First /\ is_stored_x' = TRUE
        /\ applied' = applied
    BY <1>4 DEF StoreFirst
  <2>2. Stored' = BytesOf(First)
    BY <2>1 DEF Stored, Kept
  <2>3. QED
    BY <1>1, <2>1, <2>2
<1>5. CASE Apply
  <2> DEFINE m == <<First, NextWord(Left)>>
  <2>1. /\ HasFirst /\ First # signal1 /\ WordReady(Left) /\ applied' = Append(applied, m)
        /\ inQueue' = AfterWord(Left) /\ is_stored_x' = FALSE /\ stored_x' = stored_x
    BY <1>5 DEF Apply
  <2>2. /\ NextWord(Left) \in Word16 /\ AfterWord(Left) \in Seq(Bytes8)
        /\ Left = BytesOf(NextWord(Left)) \o AfterWord(Left)
    BY <1>1, <2>1, ReadWord
  <2>3. m \in Taken /\ Bytes(m) = BytesOf(First) \o BytesOf(NextWord(Left))
    BY <1>1, <2>1, <2>2 DEF Taken, Bytes
  <2>4. Stored' \o inQueue' = AfterWord(Left)
    BY <1>e, <2>1, <2>2 DEF Stored, Kept
  <2>5. BytesOf(First) \in Seq(Bytes8) /\ BytesOf(NextWord(Left)) \in Seq(Bytes8)
    BY <1>1, <2>1, <2>2, TwoBytes
  <2>6. BytesOf(First) \o (BytesOf(NextWord(Left)) \o AfterWord(Left))
          = (BytesOf(First) \o BytesOf(NextWord(Left))) \o AfterWord(Left)
    <3> DEFINE a == BytesOf(First)
               b == BytesOf(NextWord(Left))
               c == AfterWord(Left)
    <3>1. a \in Seq(Bytes8) /\ b \in Seq(Bytes8) /\ c \in Seq(Bytes8)
      BY <2>2, <2>5
    <3> HIDE DEF a, b, c
    <3>2. (a \o b) \o c = a \o (b \o c)
      BY <3>1, ConcatAssociative, SMTT(30)
    <3>3. QED
      BY <3>2 DEF a, b, c
  <2> HIDE DEF m
  <2>7. Stored \o Collected = Bytes(m) \o (Stored' \o inQueue')
    BY <1>1, <2>1, <2>2, <2>3, <2>4, <2>6
  <2>8. QED
    BY <1>0, <2>1, <2>2, <2>3, <2>7
<1>6. QED
  BY <1>2, <1>3, <1>4, <1>5

-----------------------------------------------------------------------------
(* A byte less.                                                            *)

(* What RemoveAt leaves, byte by byte.                                     *)
LEMMA Removed ==
  ASSUME NEW s \in Seq(Bytes8), NEW i \in 1 .. Len(s)
  PROVE  /\ RemoveAt(s, i) \in Seq(Bytes8) /\ Len(RemoveAt(s, i)) = Len(s) - 1
         /\ \A j \in 1 .. Len(s) - 1 : RemoveAt(s, i)[j] = IF j < i THEN s[j] ELSE s[j + 1]
<1> DEFINE u == SubSeq(s, 1, i - 1)
           v == SubSeq(s, i + 1, Len(s))
<1>1. /\ u \in Seq(Bytes8) /\ Len(u) = i - 1
      /\ \A j \in 1 .. i - 1 : u[j] = s[j]
  OBVIOUS
<1>2. /\ v \in Seq(Bytes8) /\ Len(v) = Len(s) - i
      /\ \A j \in 1 .. Len(s) - i : v[j] = s[i + j]
  <2>1. \A j \in i + 1 .. Len(s) : s[j] \in Bytes8
    OBVIOUS
  <2>2. i + 1 \in Int /\ Len(s) \in Int
    OBVIOUS
  <2>3. /\ v \in Seq(Bytes8) /\ Len(v) = IF i + 1 <= Len(s) THEN Len(s) - (i + 1) + 1 ELSE 0
        /\ \A j \in 1 .. Len(s) - (i + 1) + 1 : v[j] = s[(i + 1) + j - 1]
    BY <2>1, <2>2, SubSeqProperties
  <2> HIDE DEF v
  <2>4. Len(v) = Len(s) - i
    BY <2>3
  <2>5. ASSUME NEW j \in 1 .. Len(s) - i
        PROVE  v[j] = s[i + j]
    <3>1. j \in 1 .. Len(s) - (i + 1) + 1 /\ (i + 1) + j - 1 = i + j
      BY <2>2
    <3>2. QED
      BY <2>3, <3>1
  <2>6. QED
    BY <2>3, <2>4, <2>5
<1>3. RemoveAt(s, i) = u \o v
  BY DEF RemoveAt
<1> HIDE DEF u, v
<1>4. /\ u \o v \in Seq(Bytes8) /\ Len(u \o v) = Len(u) + Len(v)
      /\ \A j \in 1 .. Len(u) + Len(v) : (u \o v)[j] = IF j <= Len(u) THEN u[j] ELSE v[j - Len(u)]
  BY <1>1, <1>2, ConcatProperties, Zenon
<1>5. Len(u) + Len(v) = Len(s) - 1
  BY <1>1, <1>2
<1>6. ASSUME NEW j \in 1 .. Len(s) - 1
      PROVE  (u \o v)[j] = IF j < i THEN s[j] ELSE s[j + 1]
  <2>1. CASE j < i
    <3>1. j \in 1 .. i - 1 /\ j <= Len(u)
      BY <1>1, <2>1
    <3>2. QED
      BY <1>1, <1>4, <1>5, <2>1, <3>1
  <2>2. CASE ~(j < i)
    <3>1. ~(j <= Len(u)) /\ j - Len(u) \in 1 .. Len(s) - i /\ i + (j - Len(u)) = j + 1
      BY <1>1, <2>2
    <3>2. QED
      BY <1>2, <1>4, <1>5, <2>2, <3>1
  <2>3. QED
    BY <2>1, <2>2
<1>7. QED
  BY <1>3, <1>4, <1>5, <1>6

(* A byte taken out of the first part of a stream.                         *)
LEMMA RemoveLeft ==
  ASSUME NEW s \in Seq(Bytes8), NEW t \in Seq(Bytes8), NEW i \in 1 .. Len(s)
  PROVE  i \in 1 .. Len(s \o t) /\ RemoveAt(s \o t, i) = RemoveAt(s, i) \o t
<1> DEFINE r == RemoveAt(s, i)
           w == s \o t
           p == RemoveAt(w, i)
<1>1. /\ r \in Seq(Bytes8) /\ Len(r) = Len(s) - 1
      /\ \A j \in 1 .. Len(s) - 1 : r[j] = IF j < i THEN s[j] ELSE s[j + 1]
  BY Removed
<1>2. /\ w \in Seq(Bytes8) /\ Len(w) = Len(s) + Len(t)
      /\ \A j \in 1 .. Len(s) + Len(t) : w[j] = IF j <= Len(s) THEN s[j] ELSE t[j - Len(s)]
  BY ConcatProperties, Zenon
<1>3. Len(s) \in Nat /\ Len(t) \in Nat /\ i \in Nat /\ i >= 1 /\ i <= Len(s)
  OBVIOUS
<1> HIDE DEF w
<1>4. i \in 1 .. Len(w)
  BY <1>2, <1>3
<1>5. /\ p \in Seq(Bytes8) /\ Len(p) = Len(w) - 1
      /\ \A j \in 1 .. Len(w) - 1 : p[j] = IF j < i THEN w[j] ELSE w[j + 1]
  BY <1>2, <1>4, Removed
<1> HIDE DEF r, p
<1>6. /\ r \o t \in Seq(Bytes8) /\ Len(r \o t) = Len(r) + Len(t)
      /\ \A j \in 1 .. Len(r) + Len(t) : (r \o t)[j] = IF j <= Len(r) THEN r[j] ELSE t[j - Len(r)]
  BY <1>1, ConcatProperties, Zenon
<1>7. Len(p) = Len(r \o t) /\ Len(r) + Len(t) = Len(w) - 1
  BY <1>1, <1>2, <1>3, <1>5, <1>6
<1>8. ASSUME NEW j \in 1 .. Len(w) - 1
      PROVE  p[j] = (r \o t)[j]
  <2>1. CASE j < i
    <3>1. j \in 1 .. Len(s) - 1 /\ j \in 1 .. Len(s) + Len(t) /\ j <= Len(s) /\ j <= Len(r)
      BY <1>1, <1>3, <2>1
    <3>2. p[j] = s[j]
      BY <1>2, <1>5, <2>1, <3>1
    <3>3. QED
      BY <1>1, <1>6, <1>7, <2>1, <3>1, <3>2
  <2>2. CASE ~(j < i) /\ j <= Len(r)
    <3>1. j \in 1 .. Len(s) - 1 /\ j + 1 \in 1 .. Len(s) + Len(t) /\ j + 1 <= Len(s)
      BY <1>1, <1>3, <2>2
    <3>2. p[j] = s[j + 1]
      BY <1>2, <1>5, <2>2, <3>1
    <3>3. QED
      BY <1>1, <1>6, <1>7, <2>2, <3>1, <3>2
  <2>3. CASE ~(j < i) /\ ~(j <= Len(r))
    <3>1. /\ j + 1 \in 1 .. Len(s) + Len(t) /\ ~(j + 1 <= Len(s))
          /\ (j + 1) - Len(s) = j - Len(r)
      BY <1>1, <1>2, <1>3, <2>3
    <3>2. QED
      BY <1>2, <1>5, <1>6, <1>7, <2>3, <3>1
  <2>4. QED
    BY <2>1, <2>2, <2>3
<1>9. p = r \o t
  BY <1>5, <1>6, <1>7, <1>8, SeqEqual
<1>10. QED
  BY <1>4, <1>9 DEF p, r, w

(* And out of the second.                                                  *)
LEMMA RemoveRight ==
  ASSUME NEW t \in Seq(Bytes8), NEW s \in Seq(Bytes8), NEW i \in 1 .. Len(s)
  PROVE  /\ Len(t) + i \in 1 .. Len(t \o s)
         /\ RemoveAt(t \o s, Len(t) + i) = t \o RemoveAt(s, i)
<1> DEFINE r == RemoveAt(s, i)
           w == t \o s
           k == Len(t) + i
           p == RemoveAt(w, k)
<1>1. /\ r \in Seq(Bytes8) /\ Len(r) = Len(s) - 1
      /\ \A j \in 1 .. Len(s) - 1 : r[j] = IF j < i THEN s[j] ELSE s[j + 1]
  BY Removed
<1>2. /\ w \in Seq(Bytes8) /\ Len(w) = Len(t) + Len(s)
      /\ \A j \in 1 .. Len(t) + Len(s) : w[j] = IF j <= Len(t) THEN t[j] ELSE s[j - Len(t)]
  BY ConcatProperties, Zenon
<1>3. Len(s) \in Nat /\ Len(t) \in Nat /\ i \in Nat /\ i >= 1 /\ i <= Len(s)
  OBVIOUS
<1> HIDE DEF w
<1>4. k \in 1 .. Len(w)
  BY <1>2, <1>3
<1>k. k \in Nat /\ k = Len(t) + i
  BY <1>3
<1> HIDE DEF k
<1>5. /\ p \in Seq(Bytes8) /\ Len(p) = Len(w) - 1
      /\ \A j \in 1 .. Len(w) - 1 : p[j] = IF j < k THEN w[j] ELSE w[j + 1]
  BY <1>2, <1>4, Removed
<1> HIDE DEF r, p
<1>6. /\ t \o r \in Seq(Bytes8) /\ Len(t \o r) = Len(t) + Len(r)
      /\ \A j \in 1 .. Len(t) + Len(r) : (t \o r)[j] = IF j <= Len(t) THEN t[j] ELSE r[j - Len(t)]
  BY <1>1, ConcatProperties, Zenon
<1>7. Len(p) = Len(t \o r) /\ Len(t) + Len(r) = Len(w) - 1
  BY <1>1, <1>2, <1>3, <1>5, <1>6
<1>8. ASSUME NEW j \in 1 .. Len(w) - 1
      PROVE  p[j] = (t \o r)[j]
  <2>1. CASE j <= Len(t)
    <3>1. j < k /\ j \in 1 .. Len(t) + Len(s)
      BY <1>k, <1>2, <1>3, <2>1
    <3>2. QED
      BY <1>2, <1>5, <1>6, <1>7, <2>1, <3>1
  <2>2. CASE ~(j <= Len(t)) /\ j < k
    <3>1. j \in 1 .. Len(t) + Len(s) /\ j - Len(t) \in 1 .. Len(s) - 1 /\ j - Len(t) < i
      BY <1>k, <1>2, <1>3, <2>2
    <3>2. QED
      BY <1>1, <1>2, <1>5, <1>6, <1>7, <2>2, <3>1
  <2>3. CASE ~(j <= Len(t)) /\ ~(j < k)
    <3>1. /\ j + 1 \in 1 .. Len(t) + Len(s) /\ ~(j + 1 <= Len(t)) /\ ~(j - Len(t) < i)
          /\ j - Len(t) \in 1 .. Len(s) - 1 /\ (j + 1) - Len(t) = (j - Len(t)) + 1
      BY <1>k, <1>2, <1>3, <2>3
    <3>2. p[j] = s[(j - Len(t)) + 1]
      BY <1>2, <1>5, <2>3, <3>1
    <3>3. QED
      BY <1>1, <1>6, <1>7, <2>3, <3>1, <3>2
  <2>4. QED
    BY <2>1, <2>2, <2>3
<1>9. p = t \o r
  BY <1>5, <1>6, <1>7, <1>8, SeqEqual
<1>10. QED
  BY <1>4, <1>9 DEF p, r, w, k

(* The bytes behind a damaged one.                                         *)
LEMMA BehindDamage ==
  ASSUME NEW r \in Seq(RxByte), NEW e \in 1 .. Len(r), DamagedIn(r) = {e}
  PROVE  LET v == SubSeq(r, e + 1, Len(r))
         IN  /\ v \in Seq(RxByte) /\ DamagedIn(v) = {}
             /\ BytesIn(v) = SubSeq(BytesIn(r), e + 1, Len(r))
<1> DEFINE v == SubSeq(r, e + 1, Len(r))
           b == BytesIn(r)
           u == SubSeq(b, e + 1, Len(r))
<1>1. /\ b \in Seq(Bytes8) /\ Len(b) = Len(r) /\ Len(r) \in Nat /\ DOMAIN r = 1 .. Len(r)
      /\ \A i \in 1 .. Len(r) : b[i] = r[i].byte /\ r[i] \in RxByte
  BY BytesInType
<1>2. e + 1 \in Int /\ Len(r) \in Int /\ e \in Nat /\ e >= 1 /\ e <= Len(r)
  BY <1>1
<1>3. \A i \in e + 1 .. Len(r) : r[i] \in RxByte /\ i \in 1 .. Len(r)
  BY <1>1, <1>2
<1> HIDE DEF b
<1>4. \A i \in e + 1 .. Len(r) : b[i] \in Bytes8
  BY <1>1, <1>3
<1>5. /\ v \in Seq(RxByte) /\ Len(v) = IF e + 1 <= Len(r) THEN Len(r) - (e + 1) + 1 ELSE 0
      /\ \A i \in 1 .. Len(r) - (e + 1) + 1 : v[i] = r[(e + 1) + i - 1]
  BY <1>2, <1>3, SubSeqProperties
<1>6. /\ u \in Seq(Bytes8) /\ Len(u) = IF e + 1 <= Len(r) THEN Len(r) - (e + 1) + 1 ELSE 0
      /\ \A i \in 1 .. Len(r) - (e + 1) + 1 : u[i] = b[(e + 1) + i - 1]
  BY <1>2, <1>4, SubSeqProperties
<1> HIDE DEF v, u
<1>7. Len(v) = Len(r) - e /\ Len(u) = Len(r) - e
  BY <1>2, <1>5, <1>6
<1>8. ASSUME NEW i \in 1 .. Len(r) - e
      PROVE  /\ v[i] = r[e + i] /\ u[i] = b[e + i]
             /\ e + i \in 1 .. Len(r) /\ e + i # e
  <2>1. /\ i \in 1 .. Len(r) - (e + 1) + 1 /\ (e + 1) + i - 1 = e + i
        /\ e + i \in 1 .. Len(r) /\ e + i # e
    BY <1>2
  <2>2. QED
    BY <1>5, <1>6, <2>1
<1>9. /\ BytesIn(v) \in Seq(Bytes8) /\ Len(BytesIn(v)) = Len(v) /\ DOMAIN v = 1 .. Len(v)
      /\ \A i \in 1 .. Len(v) : BytesIn(v)[i] = v[i].byte
  BY <1>5, BytesInType
<1>10. DamagedIn(v) = {}
  <2>1. SUFFICES ASSUME NEW i \in 1 .. Len(v), v[i].error PROVE FALSE
    BY <1>9 DEF DamagedIn
  <2>2. i \in 1 .. Len(r) - e
    BY <1>7
  <2>3. r[e + i].error /\ e + i \in 1 .. Len(r) /\ e + i # e
    BY <1>8, <2>1, <2>2
  <2>4. e + i \in DamagedIn(r)
    BY <1>1, <2>3 DEF DamagedIn
  <2>5. QED
    BY <2>3, <2>4
<1>11. ASSUME NEW i \in 1 .. Len(u)
       PROVE  BytesIn(v)[i] = u[i]
  <2>1. i \in 1 .. Len(r) - e /\ i \in 1 .. Len(v)
    BY <1>7
  <2>2. BytesIn(v)[i] = r[e + i].byte /\ u[i] = b[e + i] /\ e + i \in 1 .. Len(r)
    BY <1>8, <1>9, <2>1
  <2>3. QED
    BY <1>1, <2>2
<1>12. BytesIn(v) = u
  BY <1>6, <1>7, <1>9, <1>11, SeqEqual
<1>13. QED
  BY <1>5, <1>10, <1>12 DEF v, u, b

(* A damaged byte ends the loop of sp_ih: those before it are collected,   *)
(* it is dropped, and those behind it stay.                                *)
LEMMA CollectsDamaged ==
  ASSUME Types, RoomLeft, NEW e, Damaged = {e}
  PROVE  /\ e \in 1 .. Len(RxBytes)
         /\ Collected = inQueue \o SubSeq(RxBytes, 1, e - 1) /\ Collected \in Seq(Bytes8)
         /\ SubSeq(RxBytes, 1, e - 1) \in Seq(Bytes8)
         /\ sp_ih => rx' = SubSeq(rx, e + 1, Len(rx))
<1> DEFINE u == SubSeq(RxBytes, 1, e - 1)
<1>1. /\ RxBytes \in Seq(Bytes8) /\ Len(RxBytes) = Len(rx) /\ Len(rx) \in Nat
      /\ DOMAIN rx = 1 .. Len(rx) /\ \A i \in 1 .. Len(rx) : RxBytes[i] = rx[i].byte
  BY BytesInType DEF Types, RxBytes
<1>2. e \in 1 .. Len(rx) /\ e \in Nat
  BY <1>1 DEF Damaged, DamagedIn
<1>3. Min({e}) = e
  <2>1. e <= e
    BY <1>2
  <2>2. \E x \in {e} : \A y \in {e} : x <= y
    BY <2>1
  <2>3. Min({e}) \in {e}
    BY <2>2, Zenon DEF Min
  <2>4. QED
    BY <2>3
<1>4. Readable = e - 1
  BY <1>3 DEF Readable, Damaged, DamagedIn, RoomLeft
<1>5. /\ u \in Seq(Bytes8) /\ Len(u) = e - 1 /\ \A i \in 1 .. e - 1 : u[i] = RxBytes[i]
  <2>1. e - 1 \in 0 .. Len(RxBytes)
    BY <1>1, <1>2
  <2>2. QED
    BY <1>1, <1>2, <2>1
<1> HIDE DEF u
<1>6. [i \in 1 .. Readable |-> rx[i].byte] = u
  <2> DEFINE f == [i \in 1 .. Readable |-> rx[i].byte]
  <2>1. ASSUME NEW i \in 1 .. e - 1
        PROVE  f[i] = u[i] /\ u[i] \in Bytes8
    <3>1. i \in 1 .. Len(rx) /\ i \in 1 .. Readable /\ i \in 1 .. Len(u)
      BY <1>1, <1>2, <1>4, <1>5
    <3>2. QED
      BY <1>1, <1>5, <3>1
  <2>2. e - 1 \in Nat
    BY <1>2
  <2>3. f = [i \in 1 .. e - 1 |-> rx[i].byte]
    BY <1>4
  <2>4. u = [i \in 1 .. e - 1 |-> u[i]]
    BY <1>5, <2>2
  <2>5. \A i \in 1 .. e - 1 : rx[i].byte = u[i]
    BY <2>1, <2>3
  <2> HIDE DEF f
  <2>6. f = u
    BY <2>3, <2>4, <2>5
  <2>7. QED
    BY <2>6 DEF f
<1>7. inQueue \in Seq(Bytes8) /\ Len(inQueue) + Len(u) <= Capacity
  <2>1. inQueue \in Seq(Bytes8) /\ Len(inQueue) + Len(rx) <= Capacity
    BY DEF Types, RoomLeft
  <2>2. Capacity \in Nat
    BY WordAssumption
  <2>3. QED
    BY <1>1, <1>2, <1>5, <2>1, <2>2
<1>8. Enqueued(inQueue, u) = inQueue \o u
  BY <1>5, <1>7, Fits
<1>9. Collected = inQueue \o u
  BY <1>6, <1>8 DEF Collected
<1>10. inQueue \o u \in Seq(Bytes8)
  BY <1>5, <1>7
<1>11. (e - 1) + 2 = e + 1
  BY <1>2
<1>12. sp_ih => rx' = SubSeq(rx, e + 1, Len(rx))
  BY <1>4, <1>11 DEF sp_ih
<1>13. QED
  BY <1>1, <1>2, <1>5, <1>9, <1>10, <1>12 DEF u

(* The FIFO with one more byte.                                            *)
LEMMA OneMore ==
  ASSUME NEW r \in Seq(RxByte), NEW x \in RxByte
  PROVE  /\ Append(r, x) \in Seq(RxByte) /\ BytesIn(Append(r, x)) = Append(BytesIn(r), x.byte)
         /\ DamagedIn(Append(r, x)) = DamagedIn(r) \cup (IF x.error THEN {Len(r) + 1} ELSE {})
<1> DEFINE a == Append(r, x)
           b == Append(BytesIn(r), x.byte)
<1>1. /\ BytesIn(r) \in Seq(Bytes8) /\ Len(BytesIn(r)) = Len(r) /\ Len(r) \in Nat
      /\ DOMAIN r = 1 .. Len(r) /\ \A i \in 1 .. Len(r) : BytesIn(r)[i] = r[i].byte
  BY BytesInType
<1>2. x.byte \in Bytes8
  BY DEF RxByte
<1>3. /\ a \in Seq(RxByte) /\ Len(a) = Len(r) + 1 /\ a[Len(r) + 1] = x
      /\ \A i \in 1 .. Len(r) : a[i] = r[i]
  OBVIOUS
<1>4. /\ b \in Seq(Bytes8) /\ Len(b) = Len(r) + 1 /\ b[Len(r) + 1] = x.byte
      /\ \A i \in 1 .. Len(r) : b[i] = BytesIn(r)[i]
  BY <1>1, <1>2
<1> HIDE DEF a, b
<1>5. /\ BytesIn(a) \in Seq(Bytes8) /\ Len(BytesIn(a)) = Len(a)
      /\ DOMAIN a = 1 .. Len(a) /\ \A i \in 1 .. Len(a) : BytesIn(a)[i] = a[i].byte
  BY <1>3, BytesInType
<1>6. ASSUME NEW i \in 1 .. Len(a)
      PROVE  i \in 1 .. Len(r) \/ i = Len(r) + 1
  BY <1>1, <1>3
<1>7. \A i \in 1 .. Len(a) : BytesIn(a)[i] = b[i]
  BY <1>1, <1>3, <1>4, <1>5, <1>6
<1>8. BytesIn(a) = b
  <2>1. Len(BytesIn(a)) = Len(b)
    BY <1>3, <1>4, <1>5
  <2>2. \A i \in 1 .. Len(BytesIn(a)) : BytesIn(a)[i] = b[i]
    BY <1>5, <1>7
  <2>3. QED
    BY <1>4, <1>5, <2>1, <2>2, SeqEqual
<1>9. Len(r) + 1 \in DOMAIN a /\ \A i \in DOMAIN r : i \in DOMAIN a /\ a[i] = r[i]
  BY <1>1, <1>3, <1>5
<1>10. \A i \in DOMAIN a : i \in DOMAIN r \/ i = Len(r) + 1
  BY <1>1, <1>5, <1>6
<1>11. DamagedIn(a) = DamagedIn(r) \cup (IF x.error THEN {Len(r) + 1} ELSE {})
  BY <1>3, <1>9, <1>10 DEF DamagedIn
<1>12. QED
  BY <1>3, <1>8, <1>11 DEF a, b

-----------------------------------------------------------------------------
(* What the steps do to the stream.                                        *)

(* The types, and at most one byte of the FIFO is damaged.                 *)
AtMostOne == Damaged = {} \/ \E e \in Damaged : Damaged = {e}
Sound == Types /\ AtMostOne /\ (hurt = FALSE => Damaged = {})

(* The stream is a sequence of bytes.                                      *)
LEMMA StreamType ==
  ASSUME Types
  PROVE  /\ Stream \in Seq(Bytes8) /\ Stored \in Seq(Bytes8)
         /\ inQueue \in Seq(Bytes8) /\ RxBytes \in Seq(Bytes8) /\ line \in Seq(Bytes8)
<1>1. /\ Stored \in Seq(Bytes8) /\ inQueue \in Seq(Bytes8) /\ RxBytes \in Seq(Bytes8)
      /\ line \in Seq(Bytes8)
  BY KeptType, BytesInType DEF Types, Stored, RxBytes
<1>2. Stream \in Seq(Bytes8)
  BY <1>1, CatLaws DEF Stream
<1>3. QED
  BY <1>1, <1>2

(* A message sent ends the stream.                                         *)
LEMMA SendStep ==
  ASSUME Sound, NEW m \in Messages, Transmit(m)
  PROVE  /\ Sound' /\ Damaged' = Damaged /\ applied' = applied /\ hurt' = hurt
         /\ sentlog' = Append(sentlog, m) /\ m \in Taken
         /\ Stream' = Cat(Stream, Bytes(m))
<1>1. /\ line' = Cat(line, Bytes(m)) /\ sentlog' = Append(sentlog, m) /\ rx' = rx
      /\ inQueue' = inQueue /\ stored_x' = stored_x /\ is_stored_x' = is_stored_x
      /\ applied' = applied /\ hurt' = hurt
  BY DEF Transmit, Cat
<1>2. m \in Taken /\ Bytes(m) \in Seq(Bytes8)
  BY SentAreTaken, MessageBytes
<1>3. /\ Stored \in Seq(Bytes8) /\ inQueue \in Seq(Bytes8) /\ RxBytes \in Seq(Bytes8)
      /\ line \in Seq(Bytes8)
  BY StreamType DEF Sound
<1>4. Cat(line, Bytes(m)) \in Seq(Bytes8) /\ Append(sentlog, m) \in Seq(Taken)
  BY <1>2, <1>3, CatLaws DEF Sound, Types
<1>5. Types'
  BY <1>1, <1>4 DEF Sound, Types
<1>6. Damaged' = Damaged /\ RxBytes' = RxBytes /\ Stored' = Stored
  BY <1>1 DEF Damaged, RxBytes, Stored
<1>7. Sound'
  BY <1>1, <1>5, <1>6 DEF Sound, AtMostOne
<1>8. Stream' = Cat(Cat(Stored, inQueue), Cat(RxBytes, Cat(line, Bytes(m))))
  BY <1>1, <1>6 DEF Stream
<1>9. Stream' = Cat(Stream, Bytes(m))
  <2>1. Cat(Stored, inQueue) \in Seq(Bytes8) /\ Cat(RxBytes, line) \in Seq(Bytes8)
    BY <1>3, CatLaws
  <2>2. Cat(RxBytes, Cat(line, Bytes(m))) = Cat(Cat(RxBytes, line), Bytes(m))
    BY <1>2, <1>3, CatLaws
  <2>3. Stream' = Cat(Cat(Stored, inQueue), Cat(Cat(RxBytes, line), Bytes(m)))
    BY <1>8, <2>2
  <2>4. QED
    BY <1>2, <2>1, <2>3, CatLaws DEF Stream
<1>10. QED
  BY <1>1, <1>2, <1>6, <1>7, <1>9

(* A byte that arrives stays where it is in the stream.                    *)
LEMMA ArriveStep ==
  ASSUME Sound, RoomLeft', NEW error \in BOOLEAN, error => ~hurt, ArriveWith(error)
  PROVE  /\ Sound' /\ applied' = applied /\ sentlog' = sentlog
         /\ hurt' = FALSE => hurt = FALSE
         /\ hurt /\ Damaged = {} => hurt' /\ Damaged' = {}
         /\ Stream' = Stream
<1> DEFINE x == [byte |-> Head(line), error |-> error]
<1>1. /\ line # << >> /\ line' = Tail(line) /\ rx' = Append(rx, x)
      /\ inQueue' = inQueue /\ stored_x' = stored_x /\ is_stored_x' = is_stored_x
      /\ applied' = applied /\ sentlog' = sentlog /\ hurt' = (hurt \/ error)
  BY DEF ArriveWith, RoomLeft
<1>2. /\ Stored \in Seq(Bytes8) /\ inQueue \in Seq(Bytes8) /\ RxBytes \in Seq(Bytes8)
      /\ line \in Seq(Bytes8) /\ rx \in Seq(RxByte) /\ hurt \in BOOLEAN
  BY StreamType DEF Sound, Types
<1>3. /\ Head(line) \in Bytes8 /\ Tail(line) \in Seq(Bytes8)
      /\ Append(RxBytes, Head(line)) \in Seq(Bytes8)
      /\ Append(RxBytes, Head(line)) \o Tail(line) = RxBytes \o line
  BY <1>1, <1>2, Shifts
<1>4. x \in RxByte /\ x.byte = Head(line) /\ x.error = error
  BY <1>3 DEF RxByte
<1> HIDE DEF x
<1>5. /\ Append(rx, x) \in Seq(RxByte) /\ BytesIn(Append(rx, x)) = Append(BytesIn(rx), x.byte)
      /\ DamagedIn(Append(rx, x)) = DamagedIn(rx) \cup (IF x.error THEN {Len(rx) + 1} ELSE {})
  BY <1>2, <1>4, OneMore
<1>6. /\ RxBytes' = Append(RxBytes, Head(line)) /\ Stored' = Stored
      /\ Damaged' = Damaged \cup (IF error THEN {Len(rx) + 1} ELSE {})
  BY <1>1, <1>4, <1>5 DEF RxBytes, Damaged, Stored
<1>7. Types'
  BY <1>1, <1>2, <1>3, <1>5 DEF Sound, Types
<1>8. AtMostOne' /\ (hurt' = FALSE => Damaged' = {} /\ hurt = FALSE)
      /\ (hurt /\ Damaged = {} => hurt' /\ Damaged' = {})
  <2>1. CASE error
    <3>1. Damaged = {} /\ hurt = FALSE
      BY <1>2, <2>1 DEF Sound
    <3>2. Damaged' = {Len(rx) + 1} /\ hurt' = TRUE
      BY <1>1, <1>6, <2>1, <3>1
    <3>3. QED
      BY <3>1, <3>2 DEF AtMostOne
  <2>2. CASE ~error
    <3>1. Damaged' = Damaged /\ hurt' = hurt
      BY <1>1, <1>2, <1>6, <2>2
    <3>2. QED
      BY <1>2, <3>1 DEF Sound, AtMostOne
  <2>3. QED
    BY <2>1, <2>2
<1>9. Cat(RxBytes', line') = Cat(RxBytes, line)
  BY <1>1, <1>3, <1>6 DEF Cat
<1>10. Stream' = Stream
  BY <1>1, <1>6, <1>9 DEF Stream
<1>11. QED
  BY <1>1, <1>7, <1>8, <1>10 DEF Sound

(* What sp_int makes of the stream: it takes nothing or one message off    *)
(* it, after a damaged byte, if one is there, has gone.                    *)
LEMMA HandleStep ==
  ASSUME Sound, RoomLeft, sp_int
  PROVE  /\ Sound' /\ Damaged' = {} /\ sentlog' = sentlog /\ hurt' = hurt
         /\ \E w \in Seq(Bytes8) :
              /\ \/ w = Stream
                 \/ /\ hurt = TRUE /\ Damaged # {}
                    /\ \E i \in 1 .. Len(Stream) : w = RemoveAt(Stream, i)
              /\ \/ applied' = applied /\ Stream' = w
                 \/ \E m \in Taken : applied' = Append(applied, m) /\ w = Cat(Bytes(m), Stream')
<1>1. /\ sp_ih /\ (NoWord \/ Quit \/ StoreFirst \/ Apply)
      /\ line' = line /\ sentlog' = sentlog /\ hurt' = hurt
  BY DEF sp_int
<1>2. /\ Types /\ Stored \in Seq(Bytes8) /\ inQueue \in Seq(Bytes8) /\ RxBytes \in Seq(Bytes8)
      /\ line \in Seq(Bytes8) /\ rx \in Seq(RxByte) /\ hurt \in BOOLEAN
  BY StreamType DEF Sound, Types
<1>3. /\ Collected \in Seq(Bytes8) /\ rx' \in Seq(RxByte) /\ RxBytes' \in Seq(Bytes8)
      /\ Damaged' = {}
      /\ \/ Damaged = {} /\ Cat(Collected, RxBytes') = Cat(inQueue, RxBytes)
         \/ /\ Damaged # {}
            /\ \E i \in 1 .. Len(RxBytes) :
                 Cat(Collected, RxBytes') = Cat(inQueue, RemoveAt(RxBytes, i))
  <2>1. CASE Damaged = {}
    <3>1. Collected = Cat(inQueue, RxBytes) /\ Collected \in Seq(Bytes8) /\ rx' = << >>
      BY <1>1, <1>2, <2>1, CollectsAll DEF Cat
    <3>2. RxBytes' = << >> /\ Damaged' = {} /\ << >> \in Seq(RxByte) /\ << >> \in Seq(Bytes8)
      BY <3>1 DEF RxBytes, BytesIn, Damaged, DamagedIn
    <3>3. Cat(Collected, RxBytes') = Cat(inQueue, RxBytes)
      BY <3>1, <3>2, CatLaws
    <3>4. QED
      BY <2>1, <3>1, <3>2, <3>3
  <2>2. CASE Damaged # {}
    <3>1. PICK e : Damaged = {e}
      BY <2>2 DEF Sound, AtMostOne
    <3> DEFINE u == SubSeq(RxBytes, 1, e - 1)
               v == SubSeq(RxBytes, e + 1, Len(rx))
    <3>2. /\ e \in 1 .. Len(RxBytes) /\ u \in Seq(Bytes8)
          /\ Collected = inQueue \o u /\ Collected \in Seq(Bytes8)
          /\ rx' = SubSeq(rx, e + 1, Len(rx))
      BY <1>1, <1>2, <3>1, CollectsDamaged
    <3>3. Len(RxBytes) = Len(rx) /\ e \in 1 .. Len(rx) /\ DamagedIn(rx) = {e}
      BY <1>2, <3>1, <3>2, BytesInType DEF RxBytes, Damaged
    <3>4. /\ rx' \in Seq(RxByte) /\ DamagedIn(rx') = {}
          /\ BytesIn(rx') = SubSeq(BytesIn(rx), e + 1, Len(rx))
      BY <1>2, <3>2, <3>3, BehindDamage
    <3>5. RxBytes' = v /\ Damaged' = {}
      BY <3>4 DEF RxBytes, Damaged
    <3>6. RxBytes' \in Seq(Bytes8)
      BY <3>4, BytesInType DEF RxBytes
    <3>7. RemoveAt(RxBytes, e) = Cat(u, v)
      BY <3>3 DEF RemoveAt, Cat
    <3>8. v \in Seq(Bytes8)
      BY <3>5, <3>6
    <3>9. Collected = Cat(inQueue, u)
      BY <3>2 DEF Cat
    <3> HIDE DEF u, v
    <3>10. Cat(Collected, RxBytes') = Cat(inQueue, RemoveAt(RxBytes, e))
      BY <1>2, <3>2, <3>5, <3>7, <3>8, <3>9, CatLaws
    <3>11. QED
      BY <2>2, <3>2, <3>4, <3>5, <3>6, <3>10
  <2>3. QED
    BY <2>1, <2>2
<1>4. /\ stored_x' \in Word16 /\ is_stored_x' \in BOOLEAN /\ inQueue' \in Seq(Bytes8)
      /\ \/ applied' = applied /\ Cat(Stored, Collected) = Cat(Stored', inQueue')
         \/ \E m \in Taken : /\ applied' = Append(applied, m)
                             /\ Cat(Stored, Collected) = Cat(Bytes(m), Cat(Stored', inQueue'))
  BY <1>1, <1>2, <1>3, Takes DEF Cat
<1>5. Stored' \in Seq(Bytes8)
  BY <1>4, KeptType DEF Stored
<1>6. applied' \in Seq(Taken)
  <2>1. applied \in Seq(Taken)
    BY <1>2 DEF Types
  <2>2. \A m \in Taken : Append(applied, m) \in Seq(Taken)
    BY <2>1
  <2>3. QED
    BY <1>4, <2>1, <2>2, Zenon
<1>7. Types'
  BY <1>1, <1>2, <1>3, <1>4, <1>6 DEF Types
<1>8. Sound'
  BY <1>3, <1>7 DEF Sound, AtMostOne
<1> DEFINE w == Cat(Cat(Stored, Collected), Cat(RxBytes', line))
<1>9. /\ Cat(Stored, Collected) \in Seq(Bytes8) /\ Cat(RxBytes', line) \in Seq(Bytes8)
      /\ Cat(Collected, RxBytes') \in Seq(Bytes8) /\ Cat(inQueue, RxBytes) \in Seq(Bytes8)
      /\ Cat(Stored', inQueue') \in Seq(Bytes8)
  BY <1>2, <1>3, <1>4, <1>5, CatLaws
<1>10. \A a, b, c, d \in Seq(Bytes8) : Cat(Cat(a, b), Cat(c, d)) = Cat(a, Cat(Cat(b, c), d))
  <2>1. SUFFICES ASSUME NEW a \in Seq(Bytes8), NEW b \in Seq(Bytes8),
                        NEW c \in Seq(Bytes8), NEW d \in Seq(Bytes8)
                 PROVE  Cat(Cat(a, b), Cat(c, d)) = Cat(a, Cat(Cat(b, c), d))
    OBVIOUS
  <2>2. Cat(c, d) \in Seq(Bytes8) /\ Cat(Cat(b, c), d) = Cat(b, Cat(c, d))
    BY CatLaws
  <2>3. Cat(Cat(a, b), Cat(c, d)) = Cat(a, Cat(b, Cat(c, d)))
    BY <2>2, CatLaws
  <2>4. QED
    BY <2>2, <2>3
<1>11. w \in Seq(Bytes8) /\ w = Cat(Stored, Cat(Cat(Collected, RxBytes'), line))
  BY <1>2, <1>3, <1>9, <1>10, CatLaws, SMTT(30)
<1>12. Stream = Cat(Stored, Cat(Cat(inQueue, RxBytes), line)) /\ Stream \in Seq(Bytes8)
  BY <1>2, <1>10, StreamType DEF Stream
<1>13. Stream' = Cat(Cat(Stored', inQueue'), Cat(RxBytes', line))
  BY <1>1 DEF Stream
<1>14. w = Stream \/ (hurt = TRUE /\ Damaged # {} /\ \E i \in 1 .. Len(Stream) : w = RemoveAt(Stream, i))
  <2>1. CASE Damaged = {}
    BY <1>3, <1>11, <1>12, <2>1
  <2>2. CASE Damaged # {}
    <3>1. PICK i \in 1 .. Len(RxBytes) :
            Cat(Collected, RxBytes') = Cat(inQueue, RemoveAt(RxBytes, i))
      BY <1>3, <2>2
    <3> DEFINE q == Cat(inQueue, RxBytes)
               s == Cat(q, line)
               j == Len(inQueue) + i
               k == Len(Stored) + j
    <3>2. q \in Seq(Bytes8) /\ s \in Seq(Bytes8)
      BY <1>2, CatLaws
    <3>3. j \in 1 .. Len(q) /\ RemoveAt(q, j) = Cat(inQueue, RemoveAt(RxBytes, i))
      BY <1>2, RemoveRight DEF Cat
    <3> HIDE DEF q, j
    <3>4. j \in 1 .. Len(s) /\ RemoveAt(s, j) = Cat(RemoveAt(q, j), line)
      BY <1>2, <3>2, <3>3, RemoveLeft DEF Cat
    <3> HIDE DEF s
    <3>5. k \in 1 .. Len(Cat(Stored, s)) /\ RemoveAt(Cat(Stored, s), k) = Cat(Stored, RemoveAt(s, j))
      BY <1>2, <3>2, <3>4, RemoveRight DEF Cat
    <3> HIDE DEF k
    <3>6. Stream = Cat(Stored, s)
      BY <1>12 DEF s, q
    <3>7. w = RemoveAt(Stream, k)
      BY <1>11, <3>1, <3>3, <3>4, <3>5, <3>6
    <3>8. hurt = TRUE
      BY <1>2, <2>2 DEF Sound
    <3>9. QED
      BY <2>2, <3>5, <3>6, <3>7, <3>8
  <2>3. QED
    BY <2>1, <2>2
<1>15. \/ applied' = applied /\ Stream' = w
       \/ \E m \in Taken : applied' = Append(applied, m) /\ w = Cat(Bytes(m), Stream')
  <2>1. CASE applied' = applied /\ Cat(Stored, Collected) = Cat(Stored', inQueue')
    BY <1>13, <2>1
  <2>2. ASSUME NEW m \in Taken, applied' = Append(applied, m),
               Cat(Stored, Collected) = Cat(Bytes(m), Cat(Stored', inQueue'))
        PROVE  w = Cat(Bytes(m), Stream')
    <3>1. Bytes(m) \in Seq(Bytes8)
      BY MessageBytes
    <3>2. w = Cat(Cat(Bytes(m), Cat(Stored', inQueue')), Cat(RxBytes', line))
      BY <2>2
    <3>3. QED
      BY <1>9, <1>13, <3>1, <3>2, CatLaws
  <2>3. QED
    BY <1>4, <2>1, <2>2
<1> HIDE DEF w
<1>16. QED
  BY <1>1, <1>3, <1>8, <1>11, <1>14, <1>15

-----------------------------------------------------------------------------
(* The receiver takes what the sender sent.                                *)

(* Until a byte is damaged: the messages taken are the first ones of the   *)
(* match, and the stream says the others.  The match is all that was sent, *)
(* up to signal1 if that was sent; once it is taken, nothing more is.      *)
FirstOnes(taken, log) ==
  Len(taken) <= Len(log) /\ \A i \in 1 .. Len(taken) : taken[i] = log[i]
Said(log) ==
  /\ FirstOnes(applied, log) /\ FirstOnes(log, sentlog) /\ (log = sentlog \/ Ended(log))
  /\ Coded(Stream, log, Len(applied))
NotEnded == mainState = "GAME" => \A i \in 1 .. Len(applied) : applied[i] # <<signal1>>
InOrder == NotEnded /\ (hurt = FALSE => \E log \in Seq(Taken) : Said(log))

(* At first nothing was sent.                                              *)
LEMMA LinkStarts == Init => Sound /\ InOrder
<1>1. SUFFICES ASSUME Init PROVE Sound /\ InOrder
  OBVIOUS
<1>2. 0 \in Word16
  BY WordAssumption DEF Word16
<1>3. Types
  <2>1. << >> \in Seq(Bytes8) /\ << >> \in Seq(RxByte) /\ << >> \in Seq(Taken)
    OBVIOUS
  <2>2. QED
    BY <1>1, <1>2, <2>1, Zenon DEF Init, Types
<1>4. Damaged = {}
  BY <1>1 DEF Init, Damaged, DamagedIn
<1>5. Stored = << >> /\ inQueue = << >> /\ line = << >> /\ RxBytes = << >>
  BY <1>1 DEF Init, Stored, Kept, RxBytes, BytesIn
<1>6. << >> \in Seq(Bytes8)
  OBVIOUS
<1>7. Stream = << >>
  BY <1>5, <1>6, CatLaws DEF Stream
<1>8. Coded(<< >>, << >>, 0)
  <2>1. Len(<< >>) = 0 /\ 0 = 4 * (0 - 0)
    OBVIOUS
  <2>2. 1 .. 0 - 1 = {} /\ 0 .. 0 - 0 - 1 = {}
    OBVIOUS
  <2>3. CodedLen(<< >>, << >>, 0)
    BY <2>1 DEF CodedLen, Ended
  <2>4. OnlyLast(<< >>)
    BY <2>1, <2>2 DEF OnlyLast
  <2>5. QED
    BY <2>1, <2>2, <2>3, <2>4 DEF Coded
<1>9. InOrder
  <2>1. applied = << >> /\ sentlog = << >> /\ Len(<< >>) = 0 /\ 1 .. 0 = {} /\ << >> \in Seq(Taken)
    BY <1>1 DEF Init
  <2>2. Said(<< >>)
    BY <1>7, <1>8, <2>1 DEF Said, FirstOnes
  <2>3. NotEnded
    BY <2>1 DEF NotEnded
  <2>4. QED
    BY <2>1, <2>2, <2>3 DEF InOrder
<1>10. QED
  BY <1>3, <1>4, <1>9 DEF Sound, AtMostOne

(* No step breaks the order.                                               *)
LEMMA LinkKept ==
  ASSUME Sound, InOrder, RoomLeft, RoomLeft', [Next]_vars
  PROVE  Sound' /\ InOrder'
<1>0. /\ Types /\ Stream \in Seq(Bytes8) /\ sentlog \in Seq(Taken) /\ applied \in Seq(Taken)
      /\ Len(sentlog) \in Nat /\ Len(applied) \in Nat
  BY StreamType DEF Sound, Types
<1>1. ASSUME NEW m \in Messages, Transmit(m)
      PROVE  Sound' /\ InOrder'
  <2>1. /\ Sound' /\ applied' = applied /\ hurt' = hurt
        /\ sentlog' = Append(sentlog, m) /\ m \in Taken /\ Stream' = Stream \o Bytes(m)
    BY <1>1, SendStep DEF Cat
  <2>2. NotEnded'
    BY <1>1, <2>1 DEF InOrder, NotEnded, Transmit
  <2>3. ASSUME NEW log \in Seq(Taken), Said(log), Ended(log)
        PROVE  Said(log)'
    <3>1. Len(applied) \in 0 .. Len(log) /\ Bytes(m) \in Seq(Bytes8)
      BY <1>0, <2>1, <2>3, MessageBytes DEF Said, FirstOnes
    <3>2. Coded(Stream', log, Len(applied))
      BY <1>0, <2>1, <2>3, <3>1, EndIgnoresMore DEF Said
    <3>3. FirstOnes(log, Append(sentlog, m))
      BY <1>0, <2>1, <2>3 DEF Said, FirstOnes
    <3>4. QED
      BY <2>1, <2>3, <3>2, <3>3 DEF Said
  <2>4. ASSUME Said(sentlog), ~Ended(sentlog), NEW l, l = Append(sentlog, m)
        PROVE  Said(l)'
    <3>1. Len(applied) \in 0 .. Len(sentlog)
      BY <1>0, <2>4 DEF Said, FirstOnes
    <3>2. Coded(Stream', l, Len(applied))
      BY <1>0, <2>1, <2>4, <3>1, SendsNext DEF Said
    <3>3. FirstOnes(applied, l)
      BY <1>0, <2>1, <2>4 DEF Said, FirstOnes
    <3>4. FirstOnes(l, l)
      BY <1>0, <2>1, <2>4 DEF FirstOnes
    <3>5. sentlog' = l /\ applied' = applied
      BY <2>1, <2>4
    <3>6. QED
      BY <3>2, <3>3, <3>4, <3>5 DEF Said
  <2>5. ASSUME hurt = FALSE
        PROVE  \E log \in Seq(Taken) : Said(log)'
    <3>1. PICK log \in Seq(Taken) : Said(log)
      BY <2>5 DEF InOrder
    <3>2. CASE Ended(log)
      BY <2>3, <3>1, <3>2
    <3>3. CASE ~Ended(log)
      <4>1. log = sentlog
        BY <3>1, <3>3 DEF Said
      <4>2. PICK l \in Seq(Taken) : l = Append(sentlog, m)
        <5>1. Append(sentlog, m) \in Seq(Taken)
          BY <1>0, <2>1
        <5>2. QED
          BY <5>1, Zenon
      <4>3. Said(l)'
        BY <2>4, <3>1, <3>3, <4>1, <4>2
      <4>4. QED
        BY <4>2, <4>3
    <3>4. QED
      BY <3>2, <3>3
  <2>6. QED
    BY <2>1, <2>2, <2>5 DEF InOrder
<1>2. ASSUME NEW error \in BOOLEAN, error => ~hurt, ArriveWith(error)
      PROVE  Sound' /\ InOrder'
  <2>1. /\ Sound' /\ applied' = applied /\ sentlog' = sentlog /\ Stream' = Stream
        /\ hurt' = FALSE => hurt = FALSE
    BY <1>2, ArriveStep
  <2>2. mainState' = mainState
    BY <1>2 DEF ArriveWith
  <2>3. QED
    BY <2>1, <2>2 DEF InOrder, NotEnded, Said
<1>3. CASE Arrive
  BY <1>2, <1>3 DEF Arrive
<1>4. CASE ArriveDamaged
  BY <1>2, <1>4 DEF ArriveDamaged
<1>5. CASE sp_int
  <2>1. /\ Sound' /\ sentlog' = sentlog /\ hurt' = hurt
        /\ \E w \in Seq(Bytes8) :
              /\ \/ w = Stream
                 \/ /\ hurt = TRUE /\ Damaged # {}
                    /\ \E i \in 1 .. Len(Stream) : w = RemoveAt(Stream, i)
              /\ \/ applied' = applied /\ Stream' = w
                 \/ \E m \in Taken : applied' = Append(applied, m) /\ w = Cat(Bytes(m), Stream')
    BY <1>5, HandleStep
  <2>2. mainState = "GAME" /\ NotEnded'
    <3>1. /\ mainState = "GAME" /\ \A i \in 1 .. Len(applied) : applied[i] # <<signal1>>
      BY <1>5 DEF sp_int, InOrder, NotEnded
    <3>2. CASE applied' = applied
      BY <3>1, <3>2 DEF NotEnded
    <3>3. CASE Quit
      BY <3>1, <3>3 DEF Quit, NotEnded
    <3>4. CASE Apply
      <4>1. PICK k : applied' = Append(applied, k) /\ k # <<signal1>>
        <5>1. <<First, NextWord(Left)>> # <<signal1>>
          OBVIOUS
        <5>2. QED
          BY <3>4, <5>1 DEF Apply
      <4>2. \A i \in 1 .. Len(applied') : applied'[i] = k \/ \E j \in 1 .. Len(applied) : applied'[i] = applied[j]
        BY <1>0, <4>1
      <4>3. QED
        BY <3>1, <4>1, <4>2 DEF NotEnded
    <3>5. QED
      BY <1>5, <3>1, <3>2, <3>3, <3>4 DEF sp_int, NoWord, StoreFirst
  <2>3. SUFFICES ASSUME hurt = FALSE
                 PROVE  \E log \in Seq(Taken) : Said(log)'
    BY <2>1, <2>2 DEF InOrder
  <2>4. PICK log \in Seq(Taken) : Said(log)
    BY <2>3 DEF InOrder
  <2>5. \/ applied' = applied /\ Stream' = Stream
        \/ \E m \in Taken : applied' = Append(applied, m) /\ Stream = Cat(Bytes(m), Stream')
    BY <2>1, <2>3
  <2>6. CASE applied' = applied /\ Stream' = Stream
    BY <2>1, <2>4, <2>6 DEF Said
  <2>7. ASSUME NEW m \in Taken, applied' = Append(applied, m), Stream = Cat(Bytes(m), Stream')
        PROVE  Said(log)'
    <3> DEFINE v == Stream'
               n == Len(applied)
    <3>1. v \in Seq(Bytes8)
      <4>1. Stored' \in Seq(Bytes8) /\ RxBytes' \in Seq(Bytes8)
        BY <2>1, KeptType, BytesInType DEF Sound, Types, Stored, RxBytes
      <4>2. inQueue' \in Seq(Bytes8) /\ line' \in Seq(Bytes8)
        BY <2>1 DEF Sound, Types
      <4>3. QED
        BY <4>1, <4>2, CatLaws DEF Stream
    <3>2. Stream = Bytes(m) \o v
      BY <2>7 DEF Cat
    <3>3. n \in 0 .. Len(log) /\ Len(log) \in Nat
      BY <1>0, <2>4 DEF Said, FirstOnes
    <3>4. Coded(Stream, log, n)
      BY <2>4 DEF Said
    <3>5. Ended(log) => n < Len(log)
      <4>1. SUFFICES ASSUME Ended(log), n = Len(log) PROVE FALSE
        BY <3>3
      <4>2. log # << >> /\ Len(log) \in 1 .. Len(applied) /\ applied[Len(log)] = log[Len(log)]
        BY <1>0, <2>4, <3>3, <4>1 DEF Said, FirstOnes, Ended
      <4>3. QED
        BY <2>2, <4>1, <4>2 DEF InOrder, NotEnded, Ended
    <3> HIDE DEF v, n
    <3>6. n < Len(log) /\ m = log[n + 1] /\ Coded(v, log, n + 1)
      BY <1>0, <3>1, <3>2, <3>3, <3>4, <3>5, TakesNext
    <3>7. Len(applied') = n + 1 /\ applied'[n + 1] = m /\ \A i \in 1 .. n : applied'[i] = applied[i]
      BY <1>0, <2>7 DEF n
    <3>8. \A i \in 1 .. n + 1 : i \in 1 .. n \/ i = n + 1
      BY <3>3
    <3>9. \A i \in 1 .. n + 1 : applied'[i] = log[i]
      BY <2>4, <3>6, <3>7, <3>8 DEF Said, FirstOnes, n
    <3>10. FirstOnes(applied', log)
      BY <3>3, <3>6, <3>7, <3>9 DEF FirstOnes
    <3>11. QED
      BY <2>1, <2>4, <3>6, <3>7, <3>10 DEF Said, v
  <2>8. QED
    BY <2>4, <2>5, <2>6, <2>7
<1>6. CASE UNCHANGED vars
  <2>1. /\ Types' = Types /\ Damaged' = Damaged /\ hurt' = hurt /\ applied' = applied
        /\ sentlog' = sentlog /\ Stream' = Stream /\ mainState' = mainState
    BY <1>6 DEF vars, Types, Damaged, Stream, Stored, RxBytes
  <2>2. QED
    BY <2>1 DEF Sound, AtMostOne, InOrder, NotEnded, Said
<1>7. QED
  BY <1>1, <1>3, <1>4, <1>5, <1>6 DEF Next

(* What was taken in order is a prefix of what was sent.                   *)
LEMMA FirstOnesArePrefix ==
  ASSUME Sound, InOrder
  PROVE  AppliedInOrder
<1>1. SUFFICES ASSUME hurt = FALSE PROVE IsPrefix(applied, sentlog)
  BY DEF AppliedInOrder, Sound, Types
<1>2. applied \in Seq(Taken) /\ sentlog \in Seq(Taken) /\ FirstOnes(applied, sentlog)
  <2>1. applied \in Seq(Taken) /\ sentlog \in Seq(Taken)
    BY DEF Sound, Types
  <2>2. PICK log \in Seq(Taken) : FirstOnes(applied, log) /\ FirstOnes(log, sentlog)
    BY <1>1 DEF InOrder, Said
  <2>3. QED
    BY <2>1, <2>2 DEF FirstOnes
<1> DEFINE u == SubSeq(sentlog, 1, Len(applied))
<1>3. /\ u \in Seq(Taken) /\ Len(u) = Len(applied)
      /\ \A i \in 1 .. Len(applied) : u[i] = sentlog[i]
  BY <1>2 DEF FirstOnes
<1> HIDE DEF u
<1>4. u = applied
  BY <1>2, <1>3, SeqEqual DEF FirstOnes
<1>5. SubSeq(applied, 1, Len(applied)) = applied
  BY <1>2, SubSeqFull
<1>6. QED
  BY <1>2, <1>4, <1>5 DEF IsPrefix, FirstOnes, u

(* While the UART does not overrun and the queue has room, the receiver    *)
(* takes exactly the messages that were sent, whole and in order, until a  *)
(* byte is damaged: however the bytes of transmit_puck_change,             *)
(* transmit_ball_speed and send_signal fall to the interrupts, sp_int      *)
(* never joins words of two messages.                                      *)
THEOREM TakenAsSent == Spec /\ []RoomLeft => []AppliedInOrder
<1>1. Init => Sound /\ InOrder
  BY LinkStarts
<1>2. (Sound /\ InOrder) /\ RoomLeft /\ RoomLeft' /\ [Next]_vars => (Sound /\ InOrder)'
  BY LinkKept
<1>3. Sound /\ InOrder => AppliedInOrder
  BY FirstOnesArePrefix
<1>4. QED
  BY <1>1, <1>2, <1>3, PTL DEF Spec

-----------------------------------------------------------------------------
(* A sender that stops in time.                                            *)

(* The bytes under way are at most those of the messages sent.             *)
FewBytes ==
  /\ overrun = FALSE
  /\ Len(Stream) <= 4 * Len(sentlog) /\ Len(sentlog) <= MaxMessages

(* The parts of the stream are no longer than the stream.                  *)
LEMMA StreamLength ==
  ASSUME Types
  PROVE  /\ Len(inQueue) + Len(rx) + Len(line) <= Len(Stream)
         /\ Len(inQueue) \in Nat /\ Len(rx) \in Nat /\ Len(line) \in Nat /\ Len(Stream) \in Nat
<1>1. /\ Stored \in Seq(Bytes8) /\ inQueue \in Seq(Bytes8) /\ RxBytes \in Seq(Bytes8)
      /\ line \in Seq(Bytes8) /\ Stream \in Seq(Bytes8)
  BY StreamType
<1>2. Len(RxBytes) = Len(rx)
  BY BytesInType DEF Types, RxBytes
<1>3. /\ Cat(Stored, inQueue) \in Seq(Bytes8) /\ Len(Cat(Stored, inQueue)) = Len(Stored) + Len(inQueue)
      /\ Cat(RxBytes, line) \in Seq(Bytes8) /\ Len(Cat(RxBytes, line)) = Len(RxBytes) + Len(line)
  BY <1>1, CatLaws
<1>4. Len(Stream) = Len(Cat(Stored, inQueue)) + Len(Cat(RxBytes, line))
  BY <1>3, CatLaws DEF Stream
<1>5. /\ Len(Stored) \in Nat /\ Len(inQueue) \in Nat /\ Len(RxBytes) \in Nat /\ Len(line) \in Nat
      /\ Len(Stream) \in Nat
  BY <1>1
<1>6. QED
  BY <1>2, <1>3, <1>4, <1>5

(* Few bytes leave room.                                                   *)
LEMMA FewFit ==
  ASSUME Types, FewBytes, 4 * MaxMessages <= FifoDepth, 4 * MaxMessages <= Capacity
  PROVE  /\ RoomLeft /\ Len(Stream) <= Capacity /\ Len(Stream) <= FifoDepth
<1>1. Len(sentlog) \in Nat /\ MaxMessages \in Nat /\ Capacity \in Nat /\ FifoDepth \in Nat
  BY WordAssumption, LinkAssumption DEF Types
<1>2. Len(Stream) <= 4 * MaxMessages /\ Len(Stream) \in Nat
  BY <1>1, StreamLength DEF FewBytes
<1>3. Len(Stream) <= Capacity /\ Len(Stream) <= FifoDepth
  BY <1>1, <1>2
<1>4. Len(inQueue) + Len(rx) <= Capacity
  BY <1>1, <1>2, <1>3, StreamLength
<1>5. QED
  BY <1>3, <1>4 DEF RoomLeft, FewBytes

(* With few messages there is always room.                                 *)
LEMMA RoomKept ==
  ASSUME 4 * MaxMessages <= FifoDepth, 4 * MaxMessages <= Capacity,
         Sound, FewBytes, [Next]_vars
  PROVE  Sound' /\ FewBytes'
<1>0. /\ Types /\ Stream \in Seq(Bytes8) /\ Len(Stream) \in Nat /\ sentlog \in Seq(Taken)
      /\ Len(sentlog) \in Nat /\ MaxMessages \in Nat /\ Capacity \in Nat /\ FifoDepth \in Nat
  BY StreamType, WordAssumption, LinkAssumption DEF Sound, Types
<1>1. ASSUME NEW m \in Messages, Transmit(m)
      PROVE  Sound' /\ FewBytes'
  <2>1. Sound' /\ sentlog' = Append(sentlog, m) /\ m \in Taken /\ Stream' = Cat(Stream, Bytes(m))
    BY <1>1, SendStep
  <2>2. Len(sentlog') = Len(sentlog) + 1 /\ Len(sentlog) < MaxMessages /\ overrun' = overrun
    BY <1>0, <1>1, <2>1 DEF Transmit
  <2>3. Len(Stream') <= Len(Stream) + 4 /\ Len(Stream') \in Nat
    <3>1. Bytes(m) \in Seq(Bytes8)
      BY <2>1, MessageBytes
    <3>2. Stream' \in Seq(Bytes8)
      BY <1>0, <2>1, <3>1, CatLaws
    <3>3. QED
      BY <1>0, <2>1, <3>2, MessageLength
  <2>4. Len(Stream') <= 4 * Len(sentlog') /\ Len(sentlog') <= MaxMessages
    BY <1>0, <2>2, <2>3 DEF FewBytes
  <2>5. QED
    BY <2>1, <2>2, <2>4 DEF FewBytes
<1>2. ASSUME NEW error \in BOOLEAN, error => ~hurt, ArriveWith(error)
      PROVE  Sound' /\ FewBytes'
  <2>1. /\ Len(inQueue) + Len(rx) + Len(line) <= Len(Stream)
        /\ Len(inQueue) \in Nat /\ Len(rx) \in Nat /\ Len(line) \in Nat
    BY <1>0, StreamLength
  <2>2. Len(Stream) <= Capacity /\ Len(Stream) <= FifoDepth
    BY <1>0, FewFit
  <2>3. Len(line) >= 1
    BY <1>0, <1>2, <2>1 DEF ArriveWith, Types
  <2>4. Len(rx) < FifoDepth /\ Len(inQueue) + (Len(rx) + 1) <= Capacity
    BY <1>0, <2>1, <2>2, <2>3
  <2>5. overrun' = FALSE /\ inQueue' = inQueue
        /\ rx' = Append(rx, [byte |-> Head(line), error |-> error])
    BY <1>2, <2>4 DEF ArriveWith, FewBytes
  <2>6. Len(rx') = Len(rx) + 1
    BY <1>0, <2>5 DEF Types
  <2>7. RoomLeft'
    BY <2>4, <2>5, <2>6 DEF RoomLeft
  <2>8. Sound' /\ sentlog' = sentlog /\ Stream' = Stream
    BY <1>2, <2>7, ArriveStep
  <2>9. QED
    BY <2>5, <2>8 DEF FewBytes
<1>3. CASE Arrive
  BY <1>2, <1>3 DEF Arrive
<1>4. CASE ArriveDamaged
  BY <1>2, <1>4 DEF ArriveDamaged
<1>5. CASE sp_int
  <2>1. RoomLeft
    BY <1>0, FewFit
  <2>2. /\ Sound' /\ sentlog' = sentlog
        /\ \E w \in Seq(Bytes8) :
              /\ \/ w = Stream
                 \/ /\ hurt = TRUE /\ Damaged # {}
                    /\ \E i \in 1 .. Len(Stream) : w = RemoveAt(Stream, i)
              /\ \/ applied' = applied /\ Stream' = w
                 \/ \E m \in Taken : applied' = Append(applied, m) /\ w = Cat(Bytes(m), Stream')
    BY <1>5, <2>1, HandleStep
  <2>3. PICK w \in Seq(Bytes8) :
              /\ \/ w = Stream
                 \/ \E i \in 1 .. Len(Stream) : w = RemoveAt(Stream, i)
              /\ \/ Stream' = w
                 \/ \E m \in Taken : w = Cat(Bytes(m), Stream')
    BY <2>2, Zenon
  <2>4. Len(w) \in Nat /\ Len(w) <= Len(Stream)
    <3>1. CASE w = Stream
      BY <1>0, <3>1
    <3>2. ASSUME NEW i \in 1 .. Len(Stream), w = RemoveAt(Stream, i)
          PROVE  Len(w) <= Len(Stream)
      <4>1. Len(w) = Len(Stream) - 1
        BY <1>0, <3>2, Removed
      <4>2. QED
        BY <1>0, <4>1
    <3>3. QED
      BY <2>3, <3>1, <3>2
  <2>5. Stream' \in Seq(Bytes8)
    <3>1. Stored' \in Seq(Bytes8) /\ RxBytes' \in Seq(Bytes8)
      BY <2>2, KeptType, BytesInType DEF Sound, Types, Stored, RxBytes
    <3>2. inQueue' \in Seq(Bytes8) /\ line' \in Seq(Bytes8)
      BY <2>2 DEF Sound, Types
    <3>3. QED
      BY <3>1, <3>2, CatLaws DEF Stream
  <2>6. Len(Stream') \in Nat /\ Len(Stream') <= Len(w)
    <3>1. CASE Stream' = w
      BY <2>4, <3>1
    <3>2. ASSUME NEW m \in Taken, w = Cat(Bytes(m), Stream')
          PROVE  Len(Stream') <= Len(w)
      BY <2>5, <3>2, MessageLength
    <3>3. QED
      BY <2>3, <2>5, <3>1, <3>2
  <2>7. Len(Stream') <= 4 * Len(sentlog') /\ Len(sentlog') <= MaxMessages
    BY <1>0, <2>2, <2>4, <2>6 DEF FewBytes
  <2>8. overrun' = FALSE
    BY <1>5 DEF sp_int, sp_ih
  <2>9. QED
    BY <2>2, <2>7, <2>8 DEF FewBytes
<1>6. CASE UNCHANGED vars
  <2>1. /\ Types' = Types /\ Damaged' = Damaged /\ hurt' = hurt /\ overrun' = overrun
        /\ sentlog' = sentlog /\ Stream' = Stream
    BY <1>6 DEF vars, Types, Damaged, Stream, Stored, RxBytes
  <2>2. QED
    BY <2>1 DEF Sound, AtMostOne, FewBytes
<1>7. QED
  BY <1>1, <1>3, <1>4, <1>5, <1>6 DEF Next

(* When the UART and the queue can hold all that is sent, nothing overruns *)
(* and the queue of sp_ih never drops a byte.                              *)
THEOREM RoomForFew ==
  ASSUME 4 * MaxMessages <= FifoDepth, 4 * MaxMessages <= Capacity
  PROVE  Spec => []RoomLeft
<1>1. Init => Sound /\ FewBytes
  <2>1. SUFFICES ASSUME Init PROVE Sound /\ FewBytes
    OBVIOUS
  <2>2. Sound /\ sentlog = << >> /\ overrun = FALSE
    BY <2>1, LinkStarts DEF Init
  <2>3. Stored = << >> /\ inQueue = << >> /\ line = << >> /\ RxBytes = << >>
    BY <2>1 DEF Init, Stored, Kept, RxBytes, BytesIn
  <2>4. << >> \in Seq(Bytes8)
    OBVIOUS
  <2>5. Stream = << >>
    BY <2>3, <2>4, CatLaws DEF Stream
  <2>6. MaxMessages \in Nat
    BY LinkAssumption
  <2>7. QED
    BY <2>2, <2>5, <2>6 DEF FewBytes
<1>2. (Sound /\ FewBytes) /\ [Next]_vars => (Sound /\ FewBytes)'
  BY RoomKept
<1>3. Sound /\ FewBytes => RoomLeft
  BY FewFit DEF Sound
<1>4. QED
  BY <1>1, <1>2, <1>3, PTL DEF Spec

-----------------------------------------------------------------------------
(* Induction, and the bytes of a log.                                      *)

(* A set of numbers has a least element.                                   *)
LEMMA Least ==
  ASSUME NEW T \in SUBSET Nat, T # {}
  PROVE  \E x \in T : \A y \in T : x <= y
<1>1. \E x \in T : \A y \in T : ~(<<y, x>> \in OpToRel(<, Nat))
  BY NatLessThanWellFounded, WFMin, Zenon
<1>2. \A x, y \in Nat : y < x => <<y, x>> \in OpToRel(<, Nat)
  BY DEF OpToRel
<1>3. PICK x \in T : \A y \in T : ~(<<y, x>> \in OpToRel(<, Nat))
  BY <1>1
<1>4. ASSUME NEW y \in T
      PROVE  x <= y
  <2>1. ~(<<y, x>> \in OpToRel(<, Nat))
    BY <1>3
  <2>2. x \in Nat /\ y \in Nat
    OBVIOUS
  <2>3. ~(y < x)
    BY <1>2, <2>1, <2>2, Zenon
  <2>4. QED
    BY <2>2, <2>3
<1>5. QED
  BY <1>4

(* A set with 0 that is closed under successor has every number.           *)
LEMMA Induction ==
  ASSUME NEW T, 0 \in T, \A n \in Nat : n \in T => n + 1 \in T
  PROVE  Nat \subseteq T
<1> SUFFICES ASSUME ~(Nat \subseteq T) PROVE FALSE
  OBVIOUS
<1>1. PICK x \in Nat \ T : \A y \in Nat \ T : x <= y
  <2>1. Nat \ T # {} /\ Nat \ T \in SUBSET Nat
    OBVIOUS
  <2>2. QED
    BY <2>1, Least
<1>2. x # 0 /\ x - 1 \in Nat /\ x - 1 \notin T
  BY <1>1
<1>3. QED
  BY <1>1, <1>2

(* g has the first concatenations of the sequences in s.                   *)
Steps(g, s, n) == [i \in 1 .. n |-> IF i = 1 THEN s[i] ELSE Cat(g[i - 1], s[i])]
Flat(g, s, n) == g = Steps(g, s, n)

(* FlattenSeq in those terms.                                              *)
LEMMA Unfold ==
  ASSUME NEW s, Len(s) # 0
  PROVE  FlattenSeq(s) = (CHOOSE g : Flat(g, s, Len(s)))[Len(s)]
BY DEF FlattenSeq, Flat, Steps, Cat

(* The elements of such a g.                                               *)
LEMMA FlatAt ==
  ASSUME NEW s, NEW n \in Nat, NEW g, Flat(g, s, n), NEW i \in 1 .. n
  PROVE  g[i] = IF i = 1 THEN s[i] ELSE Cat(g[i - 1], s[i])
<1> DEFINE e(k) == IF k = 1 THEN s[k] ELSE Cat(g[k - 1], s[k])
           f == [k \in 1 .. n |-> e(k)]
<1>1. g = f
  BY DEF Flat, Steps
<1>2. f[i] = e(i)
  OBVIOUS
<1>3. QED
  BY <1>1, <1>2, Zenon

(* There is one.                                                           *)
LEMMA FlatExists ==
  ASSUME NEW s
  PROVE  \A n \in Nat : \E g : Flat(g, s, n)
<1> DEFINE T == {n \in Nat : \E g : Flat(g, s, n)}
<1>1. 0 \in T
  <2> DEFINE g == [i \in 1 .. 0 |-> s[i]]
  <2>1. 1 .. 0 = {}
    OBVIOUS
  <2>2. Flat(g, s, 0)
    BY <2>1 DEF Flat, Steps
  <2>3. QED
    BY <2>2
<1>2. ASSUME NEW n \in Nat, n \in T
      PROVE  n + 1 \in T
  <2>1. PICK g : Flat(g, s, n)
    BY <1>2
  <2> DEFINE h == Steps(g, s, n + 1)
  <2>2. ASSUME NEW i \in 1 .. n
        PROVE  h[i] = g[i]
    <3>1. i \in 1 .. n + 1
      OBVIOUS
    <3>2. h[i] = IF i = 1 THEN s[i] ELSE Cat(g[i - 1], s[i])
      BY <3>1 DEF Steps
    <3>3. QED
      BY <2>1, <3>2, FlatAt
  <2>3. ASSUME NEW i \in 1 .. n + 1
        PROVE  (IF i = 1 THEN s[i] ELSE Cat(g[i - 1], s[i]))
                 = (IF i = 1 THEN s[i] ELSE Cat(h[i - 1], s[i]))
    <3>1. CASE i = 1
      BY <3>1
    <3>2. CASE i # 1
      <4>1. i - 1 \in 1 .. n
        BY <3>2
      <4>2. h[i - 1] = g[i - 1]
        BY <2>2, <4>1
      <4>3. QED
        BY <4>2
    <3>3. QED
      BY <3>1, <3>2
  <2>4. Steps(g, s, n + 1) = Steps(h, s, n + 1)
    <3> HIDE DEF h
    <3>1. QED
      BY <2>3 DEF Steps
  <2>5. Flat(h, s, n + 1)
    BY <2>4 DEF Flat
  <2>6. QED
    BY <2>5
<1>3. Nat \subseteq T
  <2> HIDE DEF T
  <2>1. \A n \in Nat : n \in T => n + 1 \in T
    BY <1>2
  <2>2. QED
    BY <1>1, <2>1, Induction
<1>4. QED
  BY <1>3

(* They agree where their sequences do.                                    *)
LEMMA FlatAgree ==
  ASSUME NEW s, NEW t, NEW n \in Nat, NEW k \in Nat, n <= k, NEW g, NEW h,
         Flat(g, s, n), Flat(h, t, k), \A i \in 1 .. n : s[i] = t[i]
  PROVE  \A i \in 1 .. n : g[i] = h[i]
<1> DEFINE T == {i \in Nat : i \in 1 .. n => g[i] = h[i]}
<1>1. 0 \in T
  OBVIOUS
<1>2. ASSUME NEW i \in Nat, i \in T
      PROVE  i + 1 \in T
  <2>1. SUFFICES ASSUME i + 1 \in 1 .. n PROVE g[i + 1] = h[i + 1]
    OBVIOUS
  <2> DEFINE j == i + 1
  <2>2. j \in 1 .. n /\ j \in 1 .. k /\ j - 1 = i /\ (j # 1 => i \in 1 .. n)
    BY <2>1
  <2>3. s[j] = t[j] /\ (j # 1 => g[i] = h[i])
    BY <1>2, <2>2
  <2> HIDE DEF j
  <2>4. g[j] = IF j = 1 THEN s[j] ELSE Cat(g[j - 1], s[j])
    BY <2>2, FlatAt
  <2>5. h[j] = IF j = 1 THEN t[j] ELSE Cat(h[j - 1], t[j])
    BY <2>2, FlatAt
  <2>6. g[j] = h[j]
    BY <2>2, <2>3, <2>4, <2>5
  <2>7. QED
    BY <2>6 DEF j
<1>3. Nat \subseteq T
  <2> HIDE DEF T
  <2>1. \A i \in Nat : i \in T => i + 1 \in T
    BY <1>2
  <2>2. QED
    BY <1>1, <2>1, Induction
<1>4. QED
  BY <1>3

(* They are bytes where their sequences are.                               *)
LEMMA FlatType ==
  ASSUME NEW s, NEW n \in Nat, NEW g, Flat(g, s, n), \A i \in 1 .. n : s[i] \in Seq(Bytes8)
  PROVE  \A i \in 1 .. n : g[i] \in Seq(Bytes8)
<1> DEFINE T == {i \in Nat : i \in 1 .. n => g[i] \in Seq(Bytes8)}
<1>1. 0 \in T
  OBVIOUS
<1>2. ASSUME NEW i \in Nat, i \in T
      PROVE  i + 1 \in T
  <2>1. SUFFICES ASSUME i + 1 \in 1 .. n PROVE g[i + 1] \in Seq(Bytes8)
    OBVIOUS
  <2> DEFINE j == i + 1
  <2>2. j \in 1 .. n /\ j - 1 = i /\ (j # 1 => i \in 1 .. n)
    BY <2>1
  <2>3. s[j] \in Seq(Bytes8) /\ (j # 1 => g[i] \in Seq(Bytes8))
    BY <1>2, <2>2
  <2> HIDE DEF j
  <2>4. g[j] = IF j = 1 THEN s[j] ELSE Cat(g[j - 1], s[j])
    BY <2>2, FlatAt
  <2>5. g[j] \in Seq(Bytes8)
    <3>1. CASE j = 1
      BY <2>3, <2>4, <3>1
    <3>2. CASE j # 1
      <4>1. g[j] = Cat(g[i], s[j]) /\ g[i] \in Seq(Bytes8)
        BY <2>2, <2>3, <2>4, <3>2
      <4>2. QED
        BY <2>3, <4>1, CatLaws
    <3>3. QED
      BY <3>1, <3>2
  <2>6. QED
    BY <2>5 DEF j
<1>3. Nat \subseteq T
  <2> HIDE DEF T
  <2>1. \A i \in Nat : i \in T => i + 1 \in T
    BY <1>2
  <2>2. QED
    BY <1>1, <2>1, Induction
<1>4. QED
  BY <1>3

(* The bytes of all the messages of a log.                                 *)
LogBytes(log) == FlattenSeq([i \in DOMAIN log |-> Bytes(log[i])])

(* None for an empty log.                                                  *)
LEMMA LogEmpty == LogBytes(<< >>) = << >>
<1> DEFINE s == [i \in DOMAIN << >> |-> Bytes(<< >>[i])]
<1>1. s = << >>
  OBVIOUS
<1> HIDE DEF s
<1>2. FlattenSeq(s) = s
  BY <1>1 DEF FlattenSeq
<1>3. QED
  BY <1>1, <1>2 DEF LogBytes, s

(* A message that joins the log adds its bytes.                            *)
LEMMA LogGrows ==
  ASSUME NEW log \in Seq(Taken), NEW m \in Taken
  PROVE  /\ LogBytes(log) \in Seq(Bytes8)
         /\ LogBytes(Append(log, m)) = Cat(LogBytes(log), Bytes(m))
<1> DEFINE n == Len(log)
           l == Append(log, m)
           s == [i \in DOMAIN log |-> Bytes(log[i])]
           t == [i \in DOMAIN l |-> Bytes(l[i])]
           g == CHOOSE f : Flat(f, s, n)
           h == CHOOSE f : Flat(f, t, n + 1)
<1>1. /\ n \in Nat /\ DOMAIN log = 1 .. n /\ DOMAIN l = 1 .. n + 1
      /\ l[n + 1] = m /\ \A i \in 1 .. n : l[i] = log[i] /\ log[i] \in Taken
  OBVIOUS
<1>2. \A i \in 1 .. n : Bytes(log[i]) \in Seq(Bytes8)
  BY <1>1, MessageBytes
<1>3. Bytes(m) \in Seq(Bytes8)
  BY MessageBytes
<1>4. s \in Seq(Seq(Bytes8)) /\ Len(s) = n /\ \A i \in 1 .. n : s[i] = Bytes(log[i])
  <2> HIDE DEF n
  <2>1. s = [i \in 1 .. n |-> Bytes(log[i])]
    BY <1>1
  <2>2. QED
    BY <1>1, <1>2, <2>1
<1>5. Len(t) = n + 1 /\ t[n + 1] = Bytes(m) /\ \A i \in 1 .. n : t[i] = s[i]
  <2> HIDE DEF n, l
  <2>1. t = [i \in 1 .. n + 1 |-> Bytes(l[i])]
    BY <1>1
  <2>2. n + 1 \in Nat /\ n + 1 \in 1 .. n + 1 /\ \A i \in 1 .. n : i \in 1 .. n + 1
    BY <1>1
  <2>3. t[n + 1] = Bytes(m) /\ \A i \in 1 .. n : t[i] = Bytes(log[i])
    <3> HIDE DEF t, s
    <3>1. QED
      BY <1>1, <2>1, <2>2
  <2>4. Len(t) = n + 1
    BY <2>1, <2>2
  <2>5. QED
    BY <1>4, <2>3, <2>4
<1>6. LogBytes(log) = FlattenSeq(s) /\ LogBytes(l) = FlattenSeq(t)
  BY DEF LogBytes
<1> HIDE DEF n, l, s, t
<1>7. Flat(g, s, n) /\ Flat(h, t, n + 1)
  <2>1. (\E f : Flat(f, s, n)) /\ (\E f : Flat(f, t, n + 1))
    <3>1. n + 1 \in Nat
      BY <1>1
    <3>2. (\A k \in Nat : \E f : Flat(f, s, k)) /\ (\A k \in Nat : \E f : Flat(f, t, k))
      BY FlatExists
    <3>3. QED
      BY <1>1, <3>1, <3>2, Zenon
  <2>2. QED
    BY <2>1, Zenon
<1> HIDE DEF g, h
<1>8. FlattenSeq(t) = h[n + 1]
  <2>1. Len(t) # 0
    BY <1>1, <1>5
  <2>2. QED
    BY <1>5, <2>1, Unfold DEF h
<1>9. h[n + 1] = IF n + 1 = 1 THEN t[n + 1] ELSE Cat(h[n], t[n + 1])
  <2>1. n + 1 \in Nat /\ n + 1 \in 1 .. n + 1 /\ (n + 1) - 1 = n
    BY <1>1
  <2>2. h[n + 1] = IF n + 1 = 1 THEN t[n + 1] ELSE Cat(h[(n + 1) - 1], t[n + 1])
    BY <1>7, <2>1, FlatAt
  <2>3. QED
    BY <2>1, <2>2
<1>10. CASE n = 0
  <2>1. s = << >>
    BY <1>4, <1>10
  <2>2. FlattenSeq(s) = << >>
    BY <2>1 DEF FlattenSeq
  <2>3. h[n + 1] = Bytes(m)
    BY <1>5, <1>9, <1>10
  <2>4. << >> \in Seq(Bytes8) /\ Cat(<< >>, Bytes(m)) = Bytes(m)
    BY <1>3, CatLaws
  <2>5. QED
    BY <1>6, <1>8, <2>2, <2>3, <2>4 DEF l
<1>11. CASE n # 0
  <2>1. FlattenSeq(s) = g[n]
    BY <1>4, <1>11, Unfold DEF g
  <2>2. n \in 1 .. n /\ n + 1 # 1 /\ n + 1 \in Nat /\ n <= n + 1
    BY <1>1, <1>11
  <2>3. \A i \in 1 .. n : g[i] = h[i]
    <3>1. \A i \in 1 .. n : s[i] = t[i]
      BY <1>5
    <3>2. QED
      BY <1>1, <1>7, <2>2, <3>1, FlatAgree
  <2>4. \A i \in 1 .. n : s[i] \in Seq(Bytes8)
    BY <1>2, <1>4
  <2>5. \A i \in 1 .. n : g[i] \in Seq(Bytes8)
    BY <1>1, <1>7, <2>4, FlatType
  <2>6. g[n] \in Seq(Bytes8) /\ h[n] = g[n]
    BY <2>2, <2>3, <2>5
  <2>7. h[n + 1] = Cat(g[n], Bytes(m))
    BY <1>5, <1>9, <2>2, <2>6
  <2>8. QED
    BY <1>6, <1>8, <2>1, <2>6, <2>7 DEF l
<1>12. QED
  BY <1>10, <1>11

-----------------------------------------------------------------------------
(* Every byte is in one place.                                             *)

(* What was taken and what is under way are the bytes sent, or, once a     *)
(* damaged byte was dropped, these but one.                                *)
Held == Cat(LogBytes(applied), Stream)
Conserved ==
  \/ Held = LogBytes(sentlog)
  \/ /\ hurt = TRUE /\ Damaged = {}
     /\ \E i \in 1 .. Len(LogBytes(sentlog)) : Held = RemoveAt(LogBytes(sentlog), i)

(* No step loses a byte, but the one that drops the damaged one.           *)
LEMMA NothingLostKept ==
  ASSUME Sound, Conserved, RoomLeft, RoomLeft', [Next]_vars
  PROVE  Sound' /\ Conserved'
<1> DEFINE A == LogBytes(applied)
           L == LogBytes(sentlog)
<1>0. /\ Types /\ Stream \in Seq(Bytes8) /\ sentlog \in Seq(Taken) /\ applied \in Seq(Taken)
  BY StreamType DEF Sound, Types
<1>t. A \in Seq(Bytes8) /\ L \in Seq(Bytes8)
  <2>1. <<signal1>> \in Taken
    BY DEF Taken
  <2>2. QED
    BY <1>0, <2>1, LogGrows
<1>h. Held = Cat(A, Stream) /\ Held \in Seq(Bytes8)
  BY <1>0, <1>t, CatLaws DEF Held
<1> HIDE DEF A, L
<1>1. ASSUME NEW m \in Messages, Transmit(m)
      PROVE  Sound' /\ Conserved'
  <2>1. /\ Sound' /\ Damaged' = Damaged /\ applied' = applied /\ hurt' = hurt
        /\ sentlog' = Append(sentlog, m) /\ m \in Taken /\ Stream' = Cat(Stream, Bytes(m))
    BY <1>1, SendStep
  <2>2. Bytes(m) \in Seq(Bytes8)
    BY <2>1, MessageBytes
  <2>3. LogBytes(sentlog') = Cat(L, Bytes(m))
    BY <1>0, <2>1, LogGrows DEF L
  <2>4. Held' = Cat(Held, Bytes(m))
    <3>1. Held' = Cat(A, Cat(Stream, Bytes(m)))
      BY <2>1 DEF Held, A
    <3>2. QED
      BY <1>0, <1>t, <1>h, <2>2, <3>1, CatLaws
  <2>5. CASE Held = L
    BY <2>1, <2>3, <2>4, <2>5 DEF Conserved
  <2>6. ASSUME hurt = TRUE, Damaged = {}, NEW i \in 1 .. Len(L), Held = RemoveAt(L, i)
        PROVE  Conserved'
    <3>1. i \in 1 .. Len(Cat(L, Bytes(m))) /\ RemoveAt(Cat(L, Bytes(m)), i) = Cat(RemoveAt(L, i), Bytes(m))
      BY <1>t, <2>2, RemoveLeft DEF Cat
    <3>2. QED
      BY <2>1, <2>3, <2>4, <2>6, <3>1 DEF Conserved
  <2>7. QED
    BY <2>1, <2>5, <2>6 DEF Conserved, L
<1>2. ASSUME NEW error \in BOOLEAN, error => ~hurt, ArriveWith(error)
      PROVE  Sound' /\ Conserved'
  <2>1. /\ Sound' /\ applied' = applied /\ sentlog' = sentlog /\ Stream' = Stream
        /\ hurt /\ Damaged = {} => hurt' /\ Damaged' = {}
    BY <1>2, ArriveStep
  <2>2. Held' = Held /\ LogBytes(sentlog') = LogBytes(sentlog)
    BY <2>1 DEF Held
  <2>3. hurt' = TRUE \/ hurt' = FALSE
    BY <2>1 DEF Sound, Types
  <2>4. QED
    BY <2>1, <2>2, <2>3 DEF Conserved
<1>3. CASE Arrive
  BY <1>2, <1>3 DEF Arrive
<1>4. CASE ArriveDamaged
  BY <1>2, <1>4 DEF ArriveDamaged
<1>5. CASE sp_int
  <2>1. /\ Sound' /\ Damaged' = {} /\ sentlog' = sentlog /\ hurt' = hurt
        /\ \E w \in Seq(Bytes8) :
              /\ \/ w = Stream
                 \/ /\ hurt = TRUE /\ Damaged # {}
                    /\ \E i \in 1 .. Len(Stream) : w = RemoveAt(Stream, i)
              /\ \/ applied' = applied /\ Stream' = w
                 \/ \E m \in Taken : applied' = Append(applied, m) /\ w = Cat(Bytes(m), Stream')
    BY <1>5, HandleStep
  <2>2. PICK w \in Seq(Bytes8) :
              /\ \/ w = Stream
                 \/ /\ hurt = TRUE /\ Damaged # {}
                    /\ \E i \in 1 .. Len(Stream) : w = RemoveAt(Stream, i)
              /\ \/ applied' = applied /\ Stream' = w
                 \/ \E m \in Taken : applied' = Append(applied, m) /\ w = Cat(Bytes(m), Stream')
    BY <2>1
  <2>3. Stream' \in Seq(Bytes8)
    <3>1. Stored' \in Seq(Bytes8) /\ RxBytes' \in Seq(Bytes8)
      BY <2>1, KeptType, BytesInType DEF Sound, Types, Stored, RxBytes
    <3>2. inQueue' \in Seq(Bytes8) /\ line' \in Seq(Bytes8)
      BY <2>1 DEF Sound, Types
    <3>3. QED
      BY <3>1, <3>2, CatLaws DEF Stream
  <2>4. Held' = Cat(A, w)
    <3>1. CASE applied' = applied /\ Stream' = w
      BY <3>1 DEF Held, A
    <3>2. ASSUME NEW m \in Taken, applied' = Append(applied, m), w = Cat(Bytes(m), Stream')
          PROVE  Held' = Cat(A, w)
      <4>1. Bytes(m) \in Seq(Bytes8)
        BY MessageBytes
      <4>2. LogBytes(applied') = Cat(A, Bytes(m))
        BY <1>0, <3>2, LogGrows DEF A
      <4>3. Held' = Cat(Cat(A, Bytes(m)), Stream')
        BY <4>2 DEF Held
      <4>4. QED
        BY <1>t, <2>3, <3>2, <4>1, <4>3, CatLaws
    <3>3. QED
      BY <2>2, <3>1, <3>2
  <2>5. CASE w = Stream
    <3>1. Held' = Held
      BY <1>h, <2>4, <2>5
    <3>2. QED
      BY <2>1, <3>1 DEF Conserved
  <2>6. ASSUME hurt = TRUE, Damaged # {}, NEW i \in 1 .. Len(Stream), w = RemoveAt(Stream, i)
        PROVE  Conserved'
    <3> DEFINE k == Len(A) + i
    <3>1. Cat(A, Stream) = L
      BY <1>h, <2>6 DEF Conserved, L
    <3>2. k \in 1 .. Len(Cat(A, Stream)) /\ RemoveAt(Cat(A, Stream), k) = Cat(A, RemoveAt(Stream, i))
      BY <1>0, <1>t, RemoveRight DEF Cat
    <3> HIDE DEF k
    <3>3. k \in 1 .. Len(L) /\ Held' = RemoveAt(L, k)
      BY <2>4, <2>6, <3>1, <3>2
    <3>4. LogBytes(sentlog') = L /\ hurt' = TRUE
      BY <2>1, <2>6 DEF L
    <3>5. QED
      BY <2>1, <3>3, <3>4 DEF Conserved
  <2>7. QED
    BY <2>1, <2>2, <2>5, <2>6
<1>6. CASE UNCHANGED vars
  <2>1. /\ Types' = Types /\ Damaged' = Damaged /\ hurt' = hurt /\ applied' = applied
        /\ sentlog' = sentlog /\ Stream' = Stream
    BY <1>6 DEF vars, Types, Damaged, Stream, Stored, RxBytes
  <2>2. QED
    BY <2>1 DEF Sound, AtMostOne, Conserved, Held
<1>7. QED
  BY <1>1, <1>3, <1>4, <1>5, <1>6 DEF Next

(* Conserved is what NothingLost says.                                     *)
LEMMA ConservedMeans ==
  ASSUME Sound, Conserved
  PROVE  NothingLost
<1> DEFINE A == LogBytes(applied)
           L == LogBytes(sentlog)
           K == Cat(Cat(Cat(Cat(A, Stored), inQueue), RxBytes), line)
<1>0. /\ Types /\ sentlog \in Seq(Taken) /\ applied \in Seq(Taken) /\ hurt \in BOOLEAN
      /\ Stored \in Seq(Bytes8) /\ inQueue \in Seq(Bytes8) /\ RxBytes \in Seq(Bytes8)
      /\ line \in Seq(Bytes8)
  BY StreamType DEF Sound, Types
<1>1. A \in Seq(Bytes8) /\ L \in Seq(Bytes8)
  <2>1. <<signal1>> \in Taken
    BY DEF Taken
  <2>2. QED
    BY <1>0, <2>1, LogGrows
<1>2. Held = Cat(A, Stream)
  BY DEF Held
<1>3. NothingLost <=> (K = L \/ (hurt /\ \E i \in DOMAIN L : K = RemoveAt(L, i)))
  BY DEF NothingLost, LogBytes, Cat, Stored, Kept, RxBytes, BytesIn
<1> HIDE DEF A, L
<1>4. K = Held
  <2>1. /\ Cat(A, Stored) \in Seq(Bytes8) /\ Cat(Stored, inQueue) \in Seq(Bytes8)
        /\ Cat(RxBytes, line) \in Seq(Bytes8) /\ Cat(Cat(A, Stored), inQueue) \in Seq(Bytes8)
    BY <1>0, <1>1, CatLaws
  <2>2. K = Cat(Cat(Cat(A, Stored), inQueue), Cat(RxBytes, line))
    BY <1>0, <2>1, CatLaws
  <2>3. Cat(Cat(A, Stored), inQueue) = Cat(A, Cat(Stored, inQueue))
    BY <1>0, <1>1, CatLaws
  <2>4. QED
    BY <1>1, <1>2, <2>1, <2>2, <2>3, CatLaws DEF Stream
<1> HIDE DEF K
<1>5. DOMAIN L = 1 .. Len(L)
  BY <1>1
<1>6. QED
  BY <1>0, <1>3, <1>4, <1>5 DEF Conserved, L

(* While the UART does not overrun and the queue has room, every byte that *)
(* was sent is taken, kept in stored_x, in the queue, in the FIFO or on    *)
(* the line, in the order of sending; a damaged byte that ends the loop of *)
(* sp_ih costs itself alone.                                               *)
THEOREM ByteConservation == Spec /\ []RoomLeft => []NothingLost
<1>1. Init => Sound /\ Conserved
  <2>1. SUFFICES ASSUME Init PROVE Sound /\ Conserved
    OBVIOUS
  <2>2. Sound /\ sentlog = << >> /\ applied = << >>
    BY <2>1, LinkStarts DEF Init
  <2>3. Stored = << >> /\ inQueue = << >> /\ line = << >> /\ RxBytes = << >>
    BY <2>1 DEF Init, Stored, Kept, RxBytes, BytesIn
  <2>4. << >> \in Seq(Bytes8)
    OBVIOUS
  <2>5. Stream = << >>
    BY <2>3, <2>4, CatLaws DEF Stream
  <2>6. Held = << >> /\ LogBytes(sentlog) = << >>
    BY <2>2, <2>4, <2>5, LogEmpty, CatLaws DEF Held
  <2>7. QED
    BY <2>2, <2>6 DEF Conserved
<1>2. (Sound /\ Conserved) /\ RoomLeft /\ RoomLeft' /\ [Next]_vars => (Sound /\ Conserved)'
  BY NothingLostKept
<1>3. Sound /\ Conserved => NothingLost
  BY ConservedMeans
<1>4. QED
  BY <1>1, <1>2, <1>3, PTL DEF Spec

(* Both, for a sender whose messages the UART and the queue can hold: the  *)
(* order of the messages and the place of every byte.                      *)
THEOREM FewArriveInOrder ==
  ASSUME 4 * MaxMessages <= FifoDepth, 4 * MaxMessages <= Capacity
  PROVE  Spec => [](AppliedInOrder /\ NothingLost)
BY RoomForFew, TakenAsSent, ByteConservation, PTL
=============================================================================
