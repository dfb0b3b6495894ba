----------------------------- MODULE WordsProofs -----------------------------
(***************************************************************************)
(* Words and messages as bytes: what is cut into bytes is put together     *)
(* again, and a stream of the bytes of some messages, and of nothing else, *)
(* says which messages they are.                                           *)
(***************************************************************************)
EXTENDS Words, SequenceTheorems, TLAPS

Bytes8 == 0 .. B - 1
Word16 == 0 .. B * B - 1

(* A word is its two bytes, and two bytes are one word.                    *)
LEMMA WordOfBytes ==
  ASSUME NEW a \in Bytes8, NEW b \in Bytes8
  PROVE  /\ a + B * b \in Word16
         /\ (a + B * b) % B = a /\ (a + B * b) \div B = b
<1>1. B \in Nat /\ B >= 2 /\ a \in Nat /\ a < B /\ b \in Nat /\ b <= B - 1
  BY WordAssumption DEF Bytes8
<1>2. B * b \in Nat /\ B * b <= B * B - B
  BY <1>1
<1>3. a + B * b \in Word16
  BY <1>1, <1>2 DEF Word16
<1>4. (a + B * b) \div B = b
  BY <1>1, <1>2
<1>5. (a + B * b) % B = a
  BY <1>1, <1>2
<1>6. QED
  BY <1>3, <1>4, <1>5

(* The bytes of a word make it up.                                         *)
LEMMA BytesOfWord ==
  ASSUME NEW w \in Word16
  PROVE  /\ w % B \in Bytes8 /\ w \div B \in Bytes8
         /\ (w % B) + B * (w \div B) = w
<1>1. B \in Nat /\ B >= 2 /\ w \in Nat /\ w <= B * B - 1
  BY WordAssumption DEF Word16
<1>2. w \div B \in Nat /\ w % B \in Nat /\ w % B < B /\ w = B * (w \div B) + (w % B)
  BY <1>1
<1>3. w \div B <= B - 1
  BY <1>1, <1>2
<1>4. QED
  BY <1>1, <1>2, <1>3 DEF Bytes8

(* read_next_signal takes the first two bytes off the queue, as the word   *)
(* they are the bytes of.                                                  *)
LEMMA ReadWord ==
  ASSUME NEW q \in Seq(Bytes8), WordReady(q)
  PROVE  /\ NextWord(q) \in Word16 /\ AfterWord(q) \in Seq(Bytes8)
         /\ q = BytesOf(NextWord(q)) \o AfterWord(q)
<1>1. Len(q) \in Nat /\ Len(q) >= 2 /\ q # << >> /\ q[1] \in Bytes8 /\ q[2] \in Bytes8
  BY DEF WordReady
<1> DEFINE r == Tail(q)
           v == Tail(r)
<1>2. /\ r \in Seq(Bytes8) /\ Len(r) = Len(q) - 1 /\ r # << >> /\ Head(q) = q[1]
      /\ \A i \in 1 .. Len(r) : r[i] = q[i + 1]
  <2>1. r \in Seq(Bytes8) /\ Len(r) = Len(q) - 1
    BY <1>1, HeadTailProperties
  <2>2. Head(q) = q[1] /\ \A i \in 1 .. Len(r) : r[i] = q[i + 1]
    BY <1>1, HeadTailProperties
  <2> HIDE DEF r
  <2>3. r # << >>
    BY <1>1, <2>1
  <2>4. QED
    BY <2>1, <2>2, <2>3
<1>3. Q!Rest(q) = r /\ Q!First(q) = q[1]
  BY <1>1, <1>2 DEF Q!Rest, Q!First
<1> HIDE DEF r
<1>4. /\ v \in Seq(Bytes8) /\ Len(v) = Len(q) - 2 /\ Head(r) = q[2]
      /\ \A i \in 1 .. Len(v) : v[i] = q[i + 2]
  BY <1>1, <1>2
<1>5. AfterWord(q) = v /\ Q!First(r) = q[2]
  BY <1>2, <1>3, <1>4 DEF AfterWord, Q!Rest, Q!First
<1>6. NextWord(q) = q[1] + B * q[2]
  BY <1>3, <1>5 DEF NextWord
<1>7. NextWord(q) \in Word16 /\ BytesOf(NextWord(q)) = <<q[1], q[2]>>
  BY <1>1, <1>6, WordOfBytes DEF BytesOf
<1> HIDE DEF v
<1>8. q = <<q[1], q[2]>> \o v
  <2> DEFINE p == <<q[1], q[2]>>
  <2>1. p \in Seq(Bytes8) /\ Len(p) = 2 /\ p[1] = q[1] /\ p[2] = q[2]
    BY <1>1
  <2> HIDE DEF p
  <2>2. /\ p \o v \in Seq(Bytes8) /\ Len(p \o v) = Len(q)
        /\ \A i \in 1 .. Len(q) : (p \o v)[i] = q[i]
    <3>1. /\ p \o v \in Seq(Bytes8) /\ Len(p \o v) = 2 + Len(v)
          /\ \A i \in 1 .. 2 + Len(v) : (p \o v)[i] = IF i <= 2 THEN p[i] ELSE v[i - 2]
      <4>1. p \in Seq(Bytes8) /\ Len(p) = 2 /\ v \in Seq(Bytes8)
        BY <1>4, <2>1
      <4>2. /\ p \o v \in Seq(Bytes8) /\ Len(p \o v) = Len(p) + Len(v)
            /\ \A i \in 1 .. Len(p) + Len(v) :
                 (p \o v)[i] = IF i <= Len(p) THEN p[i] ELSE v[i - Len(p)]
        BY <4>1, ConcatProperties, Zenon
      <4>3. QED
        BY <4>1, <4>2, Zenon
    <3>2. 2 + Len(v) = Len(q)
      BY <1>1, <1>4
    <3>3. ASSUME NEW i \in 1 .. Len(q)
          PROVE  (p \o v)[i] = q[i]
      <4>1. CASE i <= 2
        <5>1. i = 1 \/ i = 2
          BY <4>1
        <5>2. QED
          BY <2>1, <3>1, <3>2, <4>1, <5>1
      <4>2. CASE ~(i <= 2)
        <5>1. i - 2 \in 1 .. Len(v) /\ (i - 2) + 2 = i
          BY <1>1, <1>4, <4>2
        <5>2. QED
          BY <1>4, <3>1, <3>2, <4>2, <5>1
      <4>3. QED
        BY <4>1, <4>2
    <3>4. QED
      BY <3>1, <3>2, <3>3
  <2>3. p \o v = q
    BY <2>2, SeqEqual
  <2>4. QED
    BY <2>3 DEF p
<1>9. QED
  BY <1>4, <1>5, <1>7, <1>8

(* What may be sent and taken: signal1 alone, or two words of which the    *)
(* first is another one.                                                   *)
Taken == {<<signal1>>} \cup {m \in Word16 \X Word16 : m[1] # signal1}

(* The bytes of a word.                                                    *)
LEMMA TwoBytes ==
  ASSUME NEW w \in Word16
  PROVE  /\ BytesOf(w) \in Seq(Bytes8) /\ Len(BytesOf(w)) = 2
         /\ BytesOf(w)[1] = w % B /\ BytesOf(w)[2] = w \div B
<1>1. w % B \in Bytes8 /\ w \div B \in Bytes8
  BY BytesOfWord
<1>2. QED
  BY <1>1 DEF BytesOf

(* Words with the same bytes are the same.                                 *)
LEMMA SameWord ==
  ASSUME NEW v \in Word16, NEW w \in Word16, v % B = w % B, v \div B = w \div B
  PROVE  v = w
<1>1. v = (v % B) + B * (v \div B) /\ w = (w % B) + B * (w \div B)
  BY BytesOfWord
<1>2. QED
  BY <1>1

(* A message is signal1 or a pair, and its bytes are two or four.          *)
LEMMA Kinds ==
  ASSUME NEW m \in Taken
  PROVE  /\ m = <<signal1>> \/ (Len(m) = 2 /\ m[1] # signal1 /\ m[2] \in Word16 /\ m = <<m[1], m[2]>>)
         /\ m[1] \in Word16 /\ (m = <<signal1>> => Len(m) = 1 /\ m[1] = signal1)
<1>1. signal1 \in Word16
  BY WordAssumption DEF Word16
<1>2. CASE m = <<signal1>>
  BY <1>1, <1>2
<1>3. CASE m # <<signal1>>
  BY <1>3 DEF Taken
<1>4. QED
  BY <1>2, <1>3

(* The bytes of a message.                                                 *)
LEMMA MessageBytes ==
  ASSUME NEW m \in Taken
  PROVE  /\ Bytes(m) \in Seq(Bytes8)
         /\ Bytes(m)[1] = m[1] % B /\ Bytes(m)[2] = m[1] \div B
         /\ Len(Bytes(m)) = IF m = <<signal1>> THEN 2 ELSE 4
         /\ m # <<signal1>> => Bytes(m)[3] = m[2] % B /\ Bytes(m)[4] = m[2] \div B
<1>1. CASE m = <<signal1>>
  <2>1. m[1] \in Word16 /\ Bytes(m) = BytesOf(m[1])
    BY <1>1, Kinds DEF Bytes
  <2>2. QED
    BY <1>1, <2>1, TwoBytes
<1>2. CASE m # <<signal1>>
  <2>1. m[1] \in Word16 /\ m[2] \in Word16 /\ Bytes(m) = BytesOf(m[1]) \o BytesOf(m[2])
    BY <1>2, Kinds DEF Bytes
  <2> DEFINE a == BytesOf(m[1])
             b == BytesOf(m[2])
  <2>2. /\ a \in Seq(Bytes8) /\ Len(a) = 2 /\ a[1] = m[1] % B /\ a[2] = m[1] \div B
        /\ b \in Seq(Bytes8) /\ Len(b) = 2 /\ b[1] = m[2] % B /\ b[2] = m[2] \div B
    BY <2>1, TwoBytes
  <2> HIDE DEF a, b
  <2>3. /\ a \o b \in Seq(Bytes8) /\ Len(a \o b) = 4
        /\ (a \o b)[1] = a[1] /\ (a \o b)[2] = a[2] /\ (a \o b)[3] = b[1] /\ (a \o b)[4] = b[2]
    <3>1. a \in Seq(Bytes8) /\ Len(a) = 2 /\ b \in Seq(Bytes8) /\ Len(b) = 2
      BY <2>2
    <3>2. /\ a \o b \in Seq(Bytes8) /\ Len(a \o b) = 2 + 2
          /\ \A i \in 1 .. 2 + 2 : (a \o b)[i] = IF i <= 2 THEN a[i] ELSE b[i - 2]
      BY <3>1, ConcatProperties, SMTT(30)
    <3>3. QED
      BY <3>2
  <2>4. QED
    BY <1>2, <2>1, <2>2, <2>3 DEF a, b
<1>3. QED
  BY <1>1, <1>2

-----------------------------------------------------------------------------
(* The messages under way.                                                 *)

(* The log after its first n messages is what the bytes of w say: four     *)
(* bytes each, but only two of signal1, which is the last one if it is     *)
(* there at all; the bytes that follow it are no longer of the match.      *)
OnlyLast(log) == \A i \in 1 .. Len(log) - 1 : log[i] # <<signal1>>
Ended(log) == log # << >> /\ log[Len(log)] = <<signal1>>
CodedLen(w, log, n) ==
  IF Ended(log) THEN n < Len(log) => Len(w) >= 4 * (Len(log) - n) - 2
                ELSE Len(w) = 4 * (Len(log) - n)
CodedAt(w, m, k) ==
  /\ w[k + 1] = m[1] % B /\ w[k + 2] = m[1] \div B
  /\ m # <<signal1>> => w[k + 3] = m[2] % B /\ w[k + 4] = m[2] \div B
Coded(w, log, n) ==
  /\ OnlyLast(log) /\ CodedLen(w, log, n)
  /\ \A j \in 0 .. Len(log) - n - 1 : CodedAt(w, log[n + 1 + j], 4 * j)

(* The next message taken off the stream is the next one of the log.       *)
LEMMA TakesNext ==
  ASSUME NEW w \in Seq(Bytes8), NEW v \in Seq(Bytes8), NEW m \in Taken,
         NEW log \in Seq(Taken), NEW n \in 0 .. Len(log),
         Ended(log) => n < Len(log), w = Bytes(m) \o v, Coded(w, log, n)
  PROVE  /\ n < Len(log) /\ m = log[n + 1] /\ Coded(v, log, n + 1)
<1> DEFINE b == Bytes(m)
           g == log[n + 1]
<1>1. /\ b \in Seq(Bytes8) /\ b[1] = m[1] % B /\ b[2] = m[1] \div B
      /\ Len(b) = IF m = <<signal1>> THEN 2 ELSE 4
      /\ m # <<signal1>> => b[3] = m[2] % B /\ b[4] = m[2] \div B
  BY MessageBytes
<1>2. w = b \o v
  OBVIOUS
<1> HIDE DEF b
<1>3. /\ Len(w) = Len(b) + Len(v)
      /\ \A i \in 1 .. Len(b) + Len(v) : w[i] = IF i <= Len(b) THEN b[i] ELSE v[i - Len(b)]
  <2>1. b \in Seq(Bytes8) /\ v \in Seq(Bytes8)
    BY <1>1
  <2>2. /\ Len(b \o v) = Len(b) + Len(v)
        /\ \A i \in 1 .. Len(b) + Len(v) :
             (b \o v)[i] = IF i <= Len(b) THEN b[i] ELSE v[i - Len(b)]
    BY <2>1, ConcatProperties, Zenon
  <2>3. QED
    BY <1>2, <2>2, Zenon
<1>4. Len(v) \in Nat /\ Len(log) \in Nat /\ Len(w) \in Nat /\ n \in Nat /\ n <= Len(log)
  OBVIOUS
<1>5. Len(b) \in {2, 4}
  BY <1>1
<1>6. n < Len(log)
  <2>1. SUFFICES ASSUME ~(n < Len(log)) PROVE FALSE
    OBVIOUS
  <2>2. Len(w) = 4 * (Len(log) - n)
    BY <2>1 DEF Coded, CodedLen
  <2>3. Len(log) = n
    BY <1>4, <2>1
  <2>4. Len(w) = 0
    BY <1>4, <2>2, <2>3
  <2>5. Len(w) = Len(b) + Len(v) /\ (Len(b) = 2 \/ Len(b) = 4)
    BY <1>3, <1>5
  <2>6. \A x \in Nat : 0 # 2 + x /\ 0 # 4 + x
    OBVIOUS
  <2>7. QED
    BY <1>4, <2>4, <2>5, <2>6, Zenon
<1>7. g \in Taken
  BY <1>4, <1>6
<1>8. CodedAt(w, g, 0)
  <2>1. 0 \in 0 .. Len(log) - n - 1 /\ n + 1 + 0 = n + 1 /\ 4 * 0 = 0
    BY <1>4, <1>6
  <2>2. CodedAt(w, log[n + 1 + 0], 4 * 0)
    BY <2>1 DEF Coded
  <2>3. QED
    BY <2>1, <2>2
<1> HIDE DEF g
<1>9. w[1] = b[1] /\ w[2] = b[2] /\ (Len(b) = 4 => w[3] = b[3] /\ w[4] = b[4])
  BY <1>3, <1>4, <1>5
<1>10. w[1] = g[1] % B /\ w[2] = g[1] \div B
       /\ (g # <<signal1>> => w[3] = g[2] % B /\ w[4] = g[2] \div B)
  <2>1. 0 + 1 = 1 /\ 0 + 2 = 2 /\ 0 + 3 = 3 /\ 0 + 4 = 4
    OBVIOUS
  <2>2. QED
    BY <1>8, <2>1 DEF CodedAt
<1>11. m[1] = g[1]
  <2>1. m[1] \in Word16 /\ g[1] \in Word16
    BY <1>7, Kinds
  <2>2. m[1] % B = g[1] % B /\ m[1] \div B = g[1] \div B
    BY <1>1, <1>9, <1>10
  <2>3. QED
    BY <2>1, <2>2, SameWord
<1>12. m = <<signal1>> <=> g = <<signal1>>
  BY <1>7, <1>11, Kinds
<1>13. m = g
  <2>1. CASE m = <<signal1>>
    BY <1>12, <2>1
  <2>2. CASE m # <<signal1>>
    <3>1. m[2] \in Word16 /\ g[2] \in Word16 /\ m = <<m[1], m[2]>> /\ g = <<g[1], g[2]>>
      BY <1>7, <1>12, <2>2, Kinds
    <3>2. Len(b) = 4
      BY <1>1, <2>2
    <3>3. m[2] % B = g[2] % B /\ m[2] \div B = g[2] \div B
      BY <1>1, <1>9, <1>10, <1>12, <2>2, <3>2
    <3>4. m[2] = g[2]
      BY <3>1, <3>3, SameWord
    <3>5. QED
      BY <1>11, <3>1, <3>4
  <2>3. QED
    BY <2>1, <2>2
<1>14. OnlyLast(log) /\ CodedLen(w, log, n)
  BY DEF Coded
<1>15. CASE m = <<signal1>>
  <2>1. Len(log) = n + 1
    <3>1. log[n + 1] = <<signal1>>
      BY <1>13, <1>15 DEF g
    <3>2. n + 1 \notin 1 .. Len(log) - 1
      BY <1>14, <3>1 DEF OnlyLast
    <3>3. QED
      BY <1>4, <1>6, <3>2
  <2>2. Ended(log)
    <3>1. log[Len(log)] = <<signal1>>
      BY <1>13, <1>15, <2>1 DEF g
    <3>2. log # << >>
      BY <1>4, <1>6
    <3>3. QED
      BY <3>1, <3>2 DEF Ended
  <2>3. CodedLen(v, log, n + 1)
    BY <1>4, <2>1, <2>2 DEF CodedLen
  <2>4. 0 .. Len(log) - (n + 1) - 1 = {}
    BY <1>4, <2>1
  <2>5. Coded(v, log, n + 1)
    BY <1>14, <2>3, <2>4 DEF Coded
  <2>6. QED
    BY <1>6, <1>13, <2>5 DEF g
<1>16. CASE m # <<signal1>>
  <2>1. Len(b) = 4
    BY <1>1, <1>16
  <2>2. n + 1 < Len(log) \/ (n + 1 = Len(log) /\ log[Len(log)] # <<signal1>>)
    BY <1>4, <1>6, <1>13, <1>16 DEF g
  <2>3. CodedLen(v, log, n + 1)
    <3>1. CASE Ended(log)
      <4>1. Len(w) >= 4 * (Len(log) - n) - 2
        BY <1>6, <1>14, <3>1 DEF CodedLen
      <4>2. Len(v) >= 4 * (Len(log) - (n + 1)) - 2
        BY <1>3, <1>4, <2>1, <4>1
      <4>3. QED
        BY <3>1, <4>2 DEF CodedLen
    <3>2. CASE ~Ended(log)
      <4>1. Len(w) = 4 * (Len(log) - n)
        BY <1>14, <3>2 DEF CodedLen
      <4>2. Len(v) = 4 * (Len(log) - (n + 1))
        BY <1>3, <1>4, <2>1, <4>1
      <4>3. QED
        BY <3>2, <4>2 DEF CodedLen
    <3>3. QED
      BY <3>1, <3>2
  <2>4. ASSUME NEW j \in 0 .. Len(log) - (n + 1) - 1
        PROVE  CodedAt(v, log[(n + 1) + 1 + j], 4 * j)
    <3> DEFINE h == log[(n + 1) + 1 + j]
    <3>1. /\ j \in Nat /\ j + 1 \in 0 .. Len(log) - n - 1 /\ n + 1 + (j + 1) = (n + 1) + 1 + j
          /\ 4 * (j + 1) = 4 * j + 4
      BY <1>4
    <3>2. CodedAt(w, log[n + 1 + (j + 1)], 4 * (j + 1))
      BY <3>1 DEF Coded
    <3>3. CodedAt(w, h, 4 * j + 4)
      BY <3>1, <3>2
    <3>4. h \in Taken
      BY <1>4, <3>1
    <3> HIDE DEF h
    <3>5. h # <<signal1>> => 4 * j + 4 <= Len(v)
      <4>1. SUFFICES ASSUME h # <<signal1>> PROVE 4 * j + 4 <= Len(v)
        OBVIOUS
      <4>2. CASE j + 1 < Len(log) - n - 1
        BY <1>4, <2>3, <3>1, <4>2 DEF CodedLen
      <4>3. CASE j + 1 = Len(log) - n - 1
        <5>1. (n + 1) + 1 + j = Len(log)
          BY <1>4, <3>1, <4>3
        <5>2. log[Len(log)] # <<signal1>>
          BY <4>1, <5>1 DEF h
        <5>3. Len(v) = 4 * (Len(log) - (n + 1))
          BY <2>3, <5>2 DEF CodedLen, Ended
        <5>4. QED
          BY <1>4, <3>1, <4>3, <5>3
      <4>4. QED
        BY <1>4, <3>1, <4>2, <4>3
    <3>6. 4 * j + 2 <= Len(v)
      BY <1>4, <2>3, <3>1 DEF CodedLen
    <3>7. ASSUME NEW i \in 1 .. 4, 4 * j + i <= Len(v)
          PROVE  v[4 * j + i] = w[(4 * j + 4) + i]
      <4>1. /\ (4 * j + 4) + i \in 1 .. Len(b) + Len(v) /\ ~((4 * j + 4) + i <= Len(b))
            /\ ((4 * j + 4) + i) - Len(b) = 4 * j + i
        BY <1>4, <2>1, <3>1, <3>7
      <4>2. QED
        BY <1>3, <4>1
    <3>8. v[4 * j + 1] = w[(4 * j + 4) + 1] /\ v[4 * j + 2] = w[(4 * j + 4) + 2]
      <4>1. 4 * j + 1 <= Len(v) /\ 4 * j + 2 <= Len(v) /\ 1 \in 1 .. 4 /\ 2 \in 1 .. 4
        BY <1>4, <3>1, <3>6
      <4>2. QED
        BY <3>7, <4>1, Zenon
    <3>9. h # <<signal1>> => v[4 * j + 3] = w[(4 * j + 4) + 3] /\ v[4 * j + 4] = w[(4 * j + 4) + 4]
      <4>1. 3 \in 1 .. 4 /\ 4 \in 1 .. 4 /\ (4 * j + 4 <= Len(v) => 4 * j + 3 <= Len(v))
        BY <1>4, <3>1
      <4>2. QED
        BY <3>5, <3>7, <4>1, Zenon
    <3>10. CodedAt(v, h, 4 * j)
      BY <3>3, <3>8, <3>9, Zenon DEF CodedAt
    <3>11. QED
      BY <3>10 DEF h
  <2>5. Coded(v, log, n + 1)
    BY <1>14, <2>3, <2>4 DEF Coded
  <2>6. QED
    BY <1>6, <1>13, <2>5 DEF g
<1>17. QED
  BY <1>15, <1>16

(* A message that is sent joins the log and the stream.                    *)
LEMMA SendsNext ==
  ASSUME NEW w \in Seq(Bytes8), NEW m \in Taken,
         NEW log \in Seq(Taken), NEW n \in 0 .. Len(log),
         ~Ended(log), Coded(w, log, n)
  PROVE  Coded(w \o Bytes(m), Append(log, m), n)
<1> DEFINE b == Bytes(m)
           l == Append(log, m)
           v == w \o b
<1>1. /\ b \in Seq(Bytes8) /\ b[1] = m[1] % B /\ b[2] = m[1] \div B
      /\ Len(b) = IF m = <<signal1>> THEN 2 ELSE 4
      /\ m # <<signal1>> => b[3] = m[2] % B /\ b[4] = m[2] \div B
  BY MessageBytes
<1> HIDE DEF b
<1>2. /\ Len(v) = Len(w) + Len(b)
      /\ \A i \in 1 .. Len(w) + Len(b) : v[i] = IF i <= Len(w) THEN w[i] ELSE b[i - Len(w)]
  <2>1. b \in Seq(Bytes8)
    BY <1>1
  <2>2. QED
    BY <2>1, ConcatProperties, Zenon
<1>3. Len(log) \in Nat /\ Len(w) \in Nat /\ n \in Nat /\ n <= Len(log)
  OBVIOUS
<1>4. Len(l) = Len(log) + 1 /\ l[Len(log) + 1] = m /\ \A i \in 1 .. Len(log) : l[i] = log[i]
  OBVIOUS
<1> HIDE DEF l, v
<1>5. Len(w) = 4 * (Len(log) - n)
  BY DEF Coded, CodedLen
<1>6. OnlyLast(l)
  <2>1. ASSUME NEW i \in 1 .. Len(l) - 1
        PROVE  l[i] # <<signal1>>
    <3>1. i \in 1 .. Len(log) /\ l[i] = log[i] /\ log # << >>
      BY <1>3, <1>4
    <3>2. CASE i = Len(log)
      BY <3>1, <3>2 DEF Ended
    <3>3. CASE i # Len(log)
      <4>1. i \in 1 .. Len(log) - 1
        BY <1>3, <3>1, <3>3
      <4>2. QED
        BY <3>1, <4>1 DEF Coded, OnlyLast
    <3>4. QED
      BY <3>2, <3>3
  <2>2. QED
    BY <2>1 DEF OnlyLast
<1>7. CodedLen(v, l, n)
  <2>1. n < Len(l) /\ l[Len(l)] = m
    BY <1>3, <1>4
  <2>2. CASE m = <<signal1>>
    <3>1. Len(v) = 4 * (Len(l) - n) - 2
      BY <1>1, <1>2, <1>3, <1>4, <1>5, <2>2
    <3>2. QED
      BY <1>3, <1>4, <2>1, <2>2, <3>1 DEF CodedLen, Ended
  <2>3. CASE m # <<signal1>>
    <3>1. Len(b) = 4
      BY <1>1, <2>3
    <3>2. Len(v) = 4 * (Len(l) - n)
      BY <1>2, <1>3, <1>4, <1>5, <3>1
    <3>3. QED
      BY <2>1, <2>3, <3>2 DEF CodedLen, Ended
  <2>4. QED
    BY <2>2, <2>3
<1>8. ASSUME NEW j \in 0 .. Len(l) - n - 1
      PROVE  CodedAt(v, l[n + 1 + j], 4 * j)
  <2>0. j \in Nat
    OBVIOUS
  <2>1. CASE j < Len(log) - n
    <3> DEFINE h == log[n + 1 + j]
    <3>1. j \in 0 .. Len(log) - n - 1 /\ n + 1 + j \in 1 .. Len(log) /\ 4 * j + 4 <= Len(w)
      BY <1>3, <1>5, <2>0, <2>1
    <3>2. CodedAt(w, h, 4 * j)
      BY <3>1 DEF Coded
    <3>3. l[n + 1 + j] = h
      BY <1>4, <3>1
    <3> HIDE DEF h
    <3>4. ASSUME NEW i \in 1 .. 4
          PROVE  v[4 * j + i] = w[4 * j + i]
      <4>1. 4 * j + i \in 1 .. Len(w) + Len(b) /\ 4 * j + i <= Len(w)
        <5>1. Len(b) \in Nat
          BY <1>1
        <5>2. QED
          BY <1>3, <2>0, <3>1, <5>1
      <4>2. QED
        BY <1>2, <4>1
    <3>5. 1 \in 1 .. 4 /\ 2 \in 1 .. 4 /\ 3 \in 1 .. 4 /\ 4 \in 1 .. 4
      OBVIOUS
    <3>6. CodedAt(v, h, 4 * j)
      BY <3>2, <3>4, <3>5, Zenon DEF CodedAt
    <3>7. QED
      BY <3>3, <3>6
  <2>2. CASE ~(j < Len(log) - n)
    <3>1. j = Len(log) - n /\ n + 1 + j = Len(log) + 1 /\ 4 * j = Len(w)
      BY <1>3, <1>4, <1>5, <2>0, <2>2
    <3>2. l[n + 1 + j] = m
      BY <1>4, <3>1
    <3>3. ASSUME NEW i \in 1 .. Len(b)
          PROVE  v[4 * j + i] = b[i]
      <4>1. /\ 4 * j + i \in 1 .. Len(w) + Len(b) /\ ~(4 * j + i <= Len(w))
            /\ (4 * j + i) - Len(w) = i
        <5>1. Len(b) \in Nat
          BY <1>1
        <5>2. QED
          BY <1>3, <3>1, <5>1
      <4>2. QED
        BY <1>2, <4>1
    <3>4. /\ 1 \in 1 .. Len(b) /\ 2 \in 1 .. Len(b)
          /\ m # <<signal1>> => 3 \in 1 .. Len(b) /\ 4 \in 1 .. Len(b)
      <4>1. Len(b) = 2 \/ Len(b) = 4
        BY <1>1
      <4>2. m # <<signal1>> => Len(b) = 4
        BY <1>1
      <4>3. /\ 1 \in 1 .. 2 /\ 2 \in 1 .. 2
            /\ 1 \in 1 .. 4 /\ 2 \in 1 .. 4 /\ 3 \in 1 .. 4 /\ 4 \in 1 .. 4
        OBVIOUS
      <4>4. QED
        BY <4>1, <4>2, <4>3, Zenon
    <3>5. CodedAt(v, m, 4 * j)
      BY <1>1, <3>3, <3>4, Zenon DEF CodedAt
    <3>6. QED
      BY <3>2, <3>5
  <2>3. QED
    BY <2>1, <2>2
<1>9. Coded(v, l, n)
  BY <1>6, <1>7, <1>8 DEF Coded
<1>10. QED
  BY <1>9 DEF v, l, b

(* What follows signal1 does not change what the bytes before it say.      *)
LEMMA EndIgnoresMore ==
  ASSUME NEW w \in Seq(Bytes8), NEW b \in Seq(Bytes8),
         NEW log \in Seq(Taken), NEW n \in 0 .. Len(log), Ended(log), Coded(w, log, n)
  PROVE  Coded(w \o b, log, n)
<1> DEFINE v == w \o b
<1>1. /\ Len(v) = Len(w) + Len(b)
      /\ \A i \in 1 .. Len(w) + Len(b) : v[i] = IF i <= Len(w) THEN w[i] ELSE b[i - Len(w)]
  BY ConcatProperties, Zenon
<1>2. Len(log) \in Nat /\ Len(w) \in Nat /\ Len(b) \in Nat /\ n \in Nat /\ n <= Len(log)
  OBVIOUS
<1> HIDE DEF v
<1>3. OnlyLast(log) /\ (n < Len(log) => Len(w) >= 4 * (Len(log) - n) - 2)
  BY DEF Coded, CodedLen
<1>4. CodedLen(v, log, n)
  BY <1>1, <1>2, <1>3 DEF CodedLen
<1>5. ASSUME NEW j \in 0 .. Len(log) - n - 1
      PROVE  CodedAt(v, log[n + 1 + j], 4 * j)
  <2> DEFINE h == log[n + 1 + j]
  <2>1. j \in Nat /\ 4 * j + 2 <= Len(w) /\ CodedAt(w, h, 4 * j)
    BY <1>2, <1>3 DEF Coded
  <2>2. h # <<signal1>> => 4 * j + 4 <= Len(w)
    <3>1. n + 1 + j # Len(log) => 4 * j + 4 <= Len(w)
      BY <1>2, <1>3
    <3>2. n + 1 + j = Len(log) => h = <<signal1>>
      BY DEF Ended
    <3>3. QED
      BY <3>1, <3>2
  <2> HIDE DEF h
  <2>3. ASSUME NEW i \in 1 .. 4, 4 * j + i <= Len(w)
        PROVE  v[4 * j + i] = w[4 * j + i]
    <3>1. 4 * j + i \in 1 .. Len(w) + Len(b)
      BY <1>2, <2>1, <2>3
    <3>2. QED
      BY <1>1, <2>3, <3>1
  <2>4. v[4 * j + 1] = w[4 * j + 1] /\ v[4 * j + 2] = w[4 * j + 2]
    <3>1. 4 * j + 1 <= Len(w) /\ 4 * j + 2 <= Len(w) /\ 1 \in 1 .. 4 /\ 2 \in 1 .. 4
      BY <1>2, <2>1
    <3>2. QED
      BY <2>3, <3>1, Zenon
  <2>5. h # <<signal1>> => v[4 * j + 3] = w[4 * j + 3] /\ v[4 * j + 4] = w[4 * j + 4]
    <3>1. 3 \in 1 .. 4 /\ 4 \in 1 .. 4 /\ (4 * j + 4 <= Len(w) => 4 * j + 3 <= Len(w))
      BY <1>2, <2>1
    <3>2. QED
      BY <2>2, <2>3, <3>1, Zenon
  <2>6. CodedAt(v, h, 4 * j)
    BY <2>1, <2>4, <2>5, Zenon DEF CodedAt
  <2>7. QED
    BY <2>6 DEF h
<1>6. QED
  BY <1>3, <1>4, <1>5 DEF Coded, v

-----------------------------------------------------------------------------
(* Sequences of bytes.                                                     *)

(* Concatenation under a name: the laws of CatLaws are all that the proofs *)
(* about the stream use of it.                                             *)
Cat(s, t) == s \o t

(* Concatenation is associative, with the empty sequence as its unit.      *)
LEMMA CatLaws ==
  /\ \A a, b \in Seq(Bytes8) : Cat(a, b) \in Seq(Bytes8) /\ Len(Cat(a, b)) = Len(a) + Len(b)
  /\ \A a, b, c \in Seq(Bytes8) : Cat(Cat(a, b), c) = Cat(a, Cat(b, c))
  /\ \A a \in Seq(Bytes8) : Cat(a, << >>) = a /\ Cat(<< >>, a) = a
<1>1. ASSUME NEW a \in Seq(Bytes8), NEW b \in Seq(Bytes8)
      PROVE  Cat(a, b) \in Seq(Bytes8) /\ Len(Cat(a, b)) = Len(a) + Len(b)
  BY DEF Cat
<1>2. ASSUME NEW a \in Seq(Bytes8), NEW b \in Seq(Bytes8), NEW c \in Seq(Bytes8)
      PROVE  Cat(Cat(a, b), c) = Cat(a, Cat(b, c))
  BY ConcatAssociative DEF Cat
<1>3. ASSUME NEW a \in Seq(Bytes8)
      PROVE  Cat(a, << >>) = a /\ Cat(<< >>, a) = a
  BY ConcatEmptySeq DEF Cat
<1>4. QED
  BY <1>1, <1>2, <1>3

(* The smaller of two numbers.                                             *)
LEMMA MinOfTwo ==
  ASSUME NEW a \in Nat, NEW c \in Nat, a <= c
  PROVE  Min({a, c}) = a
<1>1. \E x \in {a, c} : \A y \in {a, c} : x <= y
  OBVIOUS
<1>2. Min({a, c}) \in {a, c} /\ \A y \in {a, c} : Min({a, c}) <= y
  BY <1>1, Zenon DEF Min
<1>3. QED
  BY <1>2

(* A queue with room takes all the bytes.                                  *)
LEMMA Fits ==
  ASSUME NEW q \in Seq(Bytes8), NEW bytes \in Seq(Bytes8), Len(q) + Len(bytes) <= Capacity
  PROVE  Enqueued(q, bytes) = q \o bytes
<1>1. /\ q \o bytes \in Seq(Bytes8) /\ Len(q \o bytes) = Len(q) + Len(bytes)
      /\ Len(q) + Len(bytes) \in Nat
  OBVIOUS
<1>2. Min({Len(q) + Len(bytes), Capacity}) = Len(q) + Len(bytes)
  BY <1>1, MinOfTwo, WordAssumption
<1>3. SubSeq(q \o bytes, 1, Len(q \o bytes)) = q \o bytes
  BY <1>1, SubSeqFull, Zenon
<1>4. QED
  BY <1>1, <1>2, <1>3 DEF Enqueued

(* A byte that goes from the line to the FIFO.                             *)
LEMMA Shifts ==
  ASSUME NEW c \in Seq(Bytes8), NEW d \in Seq(Bytes8), d # << >>
  PROVE  /\ Head(d) \in Bytes8 /\ Tail(d) \in Seq(Bytes8) /\ Append(c, Head(d)) \in Seq(Bytes8)
         /\ Append(c, Head(d)) \o Tail(d) = c \o d
<1> DEFINE h == Head(d)
           t == Tail(d)
           a == Append(c, h)
<1>1. /\ h \in Bytes8 /\ t \in Seq(Bytes8) /\ Len(t) = Len(d) - 1 /\ h = d[1]
      /\ \A i \in 1 .. Len(t) : t[i] = d[i + 1]
  OBVIOUS
<1> HIDE DEF h, t
<1>2. /\ a \in Seq(Bytes8) /\ Len(a) = Len(c) + 1 /\ a[Len(c) + 1] = h
      /\ \A i \in 1 .. Len(c) : a[i] = c[i]
  BY <1>1
<1> HIDE DEF a
<1>3. /\ a \o t \in Seq(Bytes8) /\ Len(a \o t) = Len(a) + Len(t)
      /\ \A i \in 1 .. Len(a) + Len(t) : (a \o t)[i] = IF i <= Len(a) THEN a[i] ELSE t[i - Len(a)]
  BY <1>1, <1>2, ConcatProperties, Zenon
<1>4. /\ c \o d \in Seq(Bytes8) /\ Len(c \o d) = Len(c) + Len(d)
      /\ \A i \in 1 .. Len(c) + Len(d) : (c \o d)[i] = IF i <= Len(c) THEN c[i] ELSE d[i - Len(c)]
  BY ConcatProperties, Zenon
<1>5. Len(c) \in Nat /\ Len(d) \in Nat /\ Len(a) + Len(t) = Len(c) + Len(d)
  BY <1>1, <1>2
<1>6. ASSUME NEW i \in 1 .. Len(c) + Len(d)
      PROVE  (a \o t)[i] = (c \o d)[i]
  <2>1. CASE i <= Len(c)
    <3>1. i \in 1 .. Len(c) /\ i <= Len(a)
      BY <1>2, <1>5, <2>1
    <3>2. QED
      BY <1>2, <1>3, <1>4, <1>5, <2>1, <3>1
  <2>2. CASE i = Len(c) + 1
    <3>1. i <= Len(a) /\ ~(i <= Len(c)) /\ i - Len(c) = 1
      BY <1>2, <1>5, <2>2
    <3>2. QED
      BY <1>1, <1>2, <1>3, <1>4, <1>5, <2>2, <3>1
  <2>3. CASE i > Len(c) + 1
    <3>1. /\ ~(i <= Len(a)) /\ ~(i <= Len(c)) /\ i - Len(a) \in 1 .. Len(t)
          /\ i - Len(c) = (i - Len(a)) + 1
      BY <1>1, <1>2, <1>5, <2>3
    <3>2. QED
      BY <1>1, <1>3, <1>4, <1>5, <3>1
  <2>4. QED
    BY <1>5, <2>1, <2>2, <2>3, SMTT(30)
<1>7. a \o t = c \o d
  BY <1>3, <1>4, <1>5, <1>6, SeqEqual
<1>8. QED
  BY <1>1, <1>2, <1>7 DEF a, h, t

(* The lengths of what is sent and taken off.                              *)
LEMMA MessageLength ==
  ASSUME NEW m \in Taken, NEW w \in Seq(Bytes8)
  PROVE  /\ Len(Cat(w, Bytes(m))) <= Len(w) + 4 /\ Len(w) <= Len(Cat(Bytes(m), w))
<1>1. Bytes(m) \in Seq(Bytes8) /\ (Len(Bytes(m)) = 2 \/ Len(Bytes(m)) = 4)
  BY MessageBytes
<1>2. /\ Len(Cat(w, Bytes(m))) = Len(w) + Len(Bytes(m))
      /\ Len(Cat(Bytes(m), w)) = Len(Bytes(m)) + Len(w)
  BY <1>1, CatLaws
<1>3. Len(w) \in Nat
  OBVIOUS
<1>4. \A x \in Nat : x + 2 <= x + 4 /\ x + 4 <= x + 4 /\ x <= 2 + x /\ x <= 4 + x
  OBVIOUS
<1>5. QED
  BY <1>1, <1>2, <1>3, <1>4, Zenon
=============================================================================
