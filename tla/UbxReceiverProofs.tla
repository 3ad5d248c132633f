------------------------- MODULE UbxReceiverProofs -------------------------
(* Proofs about UbxReceiver, for every line, every set of preferences and  *)
(* every bound.  Nothing is used of the checksum but that it is a function *)
(* of the bytes, and two bytes itself.                                     *)
EXTENDS UbxReceiver, SequenceTheorems, WellFoundedInduction, TLAPS

(* Every nonempty set of naturals has a least element.                     *)
LEMMA Least ==
  ASSUME NEW S, S \subseteq Nat, S # {}
  PROVE  \E m \in S : \A j \in S : m <= j
<1>1. \E m \in S : \A j \in S : ~(<<j, m>> \in OpToRel(<, Nat))
  BY WFMin, NatLessThanWellFounded, Zenon
<1>2. PICK m \in S : \A j \in S : ~(<<j, m>> \in OpToRel(<, Nat))
  BY <1>1
<1>3. \A j \in S : ~(j < m)
  BY <1>2 DEF OpToRel
<1> QED
  BY <1>3

(* The empty buffer needs a whole header and a checksum, and is valid so   *)
(* far, which is where the loop of add() stops at the latest.              *)
LEMMA EmptyBuffer ==
  NeededBytes(<<>>) = 8 /\ ValidSoFar(<<>>) /\ ~Valid(<<>>)
BY DEF NeededBytes, ValidSoFar, Valid

LEMMA FromType ==
  ASSUME NEW b \in Seq(Byte), NEW k \in 0..Len(b)
  PROVE  /\ From(b, k) \in Seq(Byte)
         /\ Len(From(b, k)) = Len(b) - k
         /\ From(b, k) = SubSeq(b, Len(b) - Len(From(b, k)) + 1, Len(b))
<1>1. From(b, k) \in Seq(Byte)
  BY DEF From
<1>2. Len(From(b, k)) = Len(b) - k
  BY DEF From
<1>3. k + 1 = Len(b) - Len(From(b, k)) + 1
  BY <1>2
<1> QED
  BY <1>1, <1>2, <1>3 DEF From

LEMMA ByteInt == \A x \in Byte : x \in Int
BY DEF Byte

LEMMA NeededType ==
  ASSUME NEW b \in Seq(Byte)
  PROVE  NeededBytes(b) \in Int
<1>1. CASE Len(b) < 6
  BY <1>1 DEF NeededBytes
<1>2. CASE Len(b) >= 6
  <2>1. b[5] \in Byte /\ b[6] \in Byte
    BY <1>2
  <2>2. b[5] \in Int /\ b[6] \in Int
    BY <2>1, ByteInt
  <2>3. MsgLength(b) \in Int
    BY <2>2 DEF MsgLength
  <2> QED
    BY <2>3, <1>2 DEF NeededBytes
<1> QED
  BY <1>1, <1>2

(* The loop of add() stops, and at the first suffix that is valid so far.  *)
LEMMA DroppedStops ==
  ASSUME NEW b \in Seq(Byte)
  PROVE  /\ Dropped(b) \in 0..Len(b)
         /\ ValidSoFar(From(b, Dropped(b)))
         /\ \A j \in 0..(Dropped(b) - 1) : ~ValidSoFar(From(b, j))
<1> DEFINE S == {k \in 0..Len(b) : ValidSoFar(From(b, k))}
<1>1. From(b, Len(b)) = <<>>
  BY FromType, EmptySeq
<1>2. Len(b) \in S
  BY <1>1, EmptyBuffer
<1>3. S \subseteq Nat /\ S # {}
  BY <1>2
<1>4. PICK m \in S : \A j \in S : m <= j
  <2> HIDE DEF S
  <2> QED
    BY <1>3, Least
<1>5. \A j \in 0..(m - 1) : ~ValidSoFar(From(b, j))
  BY <1>4
<1>6. \E k \in 0..Len(b) : /\ ValidSoFar(From(b, k))
                          /\ \A j \in 0..(k - 1) : ~ValidSoFar(From(b, j))
  BY <1>4, <1>5
<1> QED
  BY <1>6 DEF Dropped

(* What add() leaves is a stretch that ends at the last byte added, holds  *)
(* no more than one message, and is valid when it holds one.               *)
LEMMA AddKeeps ==
  ASSUME NEW b \in Seq(Byte), NEW c \in Seq(Byte)
  PROVE  LET r == Add(b, c) all == b \o c IN
         /\ r \in Seq(Byte)
         /\ Len(r) <= Len(all)
         /\ r = SubSeq(all, Len(all) - Len(r) + 1, Len(all))
         /\ NeededBytes(r) \in Nat
         /\ NeededBytes(r) = 0 => Valid(r)
         /\ ValidSoFar(r)
<1> DEFINE all == b \o c
           d == Dropped(all)
           f == From(all, d)
           r == Add(b, c)
<1>1. all \in Seq(Byte)
  OBVIOUS
<1> HIDE DEF all
<1>2. d \in 0..Len(all) /\ ValidSoFar(f)
  BY <1>1, DroppedStops
<1>3. /\ f \in Seq(Byte)
      /\ Len(f) = Len(all) - d
      /\ f = SubSeq(all, Len(all) - Len(f) + 1, Len(all))
  <2> HIDE DEF d
  <2> QED
    BY <1>1, <1>2, FromType
<1>4. NeededBytes(f) \in Int
  BY <1>3, NeededType
<1>5. r = Keep(f)
  BY DEF Add, all
<1> HIDE DEF d, f, r
<1>6. CASE NeededBytes(f) < 0
  <2>1. r = <<>>
    BY <1>5, <1>6 DEF Keep
  <2>2. <<>> = SubSeq(all, Len(all) - Len(<<>>) + 1, Len(all))
    BY <1>1
  <2> QED
    BY <2>1, <2>2, <1>1, EmptyBuffer DEF all, r
<1>7. CASE NeededBytes(f) >= 0
  <2>1. r = f
    BY <1>5, <1>7, <1>4 DEF Keep
  <2>2. (NeededBytes(r) = 0 => Valid(r)) /\ ValidSoFar(r)
    BY <2>1, <1>2 DEF ValidSoFar
  <2>3. NeededBytes(r) \in Nat
    BY <2>1, <1>7, <1>4
  <2>4. r \in Seq(Byte) /\ Len(r) <= Len(all) /\ r = SubSeq(all, Len(all) - Len(r) + 1, Len(all))
    BY <2>1, <1>3, <1>2, <1>1
  <2> QED
    BY <2>2, <2>3, <2>4 DEF all, r
<1> QED
  BY <1>4, <1>6, <1>7

(* Reading n bytes keeps the buffer a stretch of the line that ends at the *)
(* last byte read.                                                         *)
LEMMA ReadKeeps ==
  ASSUME NEW l \in Seq(Byte), NEW p \in Nat, NEW q \in Nat, p < q,
         q <= Len(l),
         NEW b \in Seq(Byte), Len(b) <= p, b = SubSeq(l, p - Len(b) + 1, p)
  PROVE  LET r == Add(b, SubSeq(l, p + 1, q)) IN
         /\ r \in Seq(Byte)
         /\ Len(r) <= q
         /\ r = SubSeq(l, q - Len(r) + 1, q)
         /\ NeededBytes(r) \in Nat
         /\ NeededBytes(r) = 0 => Valid(r)
         /\ ValidSoFar(r)
<1> DEFINE c == SubSeq(l, p + 1, q)
           all == b \o c
           i == p - Len(b) + 1
           r == Add(b, c)
<1>1. c \in Seq(Byte) /\ Len(c) = q - p
  OBVIOUS
<1>2. i \in 1..(Len(l) + 1) /\ p \in (i - 1)..Len(l) /\ q \in p..Len(l)
  OBVIOUS
<1>3. b = SubSeq(l, i, p)
  OBVIOUS
<1>4. all = SubSeq(l, i, q)
  <2>1. SubSeq(l, i, p) \o SubSeq(l, p + 1, q) = SubSeq(l, i, q)
    <3> HIDE DEF i
    <3> QED
      BY <1>2, ConcatAdjacentSubSeq
  <2> QED
    BY <2>1, <1>3
<1>5. Len(all) = Len(b) + (q - p)
  BY <1>1
<1>6. /\ r \in Seq(Byte)
      /\ Len(r) <= Len(all)
      /\ r = SubSeq(all, Len(all) - Len(r) + 1, Len(all))
      /\ NeededBytes(r) \in Nat
      /\ NeededBytes(r) = 0 => Valid(r)
      /\ ValidSoFar(r)
  <2> HIDE DEF c
  <2> QED
    BY <1>1, AddKeeps
<1> HIDE DEF r, all
<1>7. r = SubSeq(l, q - Len(r) + 1, q)
  <2>1. CASE Len(r) = 0
    <3>1. r = <<>>
      BY <2>1, <1>6, EmptySeq
    <3>2. SubSeq(l, q + 1, q) = <<>>
      OBVIOUS
    <3> QED
      BY <3>1, <3>2, <2>1
  <2>2. CASE Len(r) # 0
    <3> DEFINE m == Len(all) - Len(r) + 1
               h == Len(all)
    <3>1. Len(r) \in Nat \ {0}
      BY <2>2, <1>6
    <3>2. i \in 1..Len(l) /\ q \in 1..Len(l) /\ m \in 1..(q - i + 1) /\ h \in 1..(q - i + 1)
      BY <3>1, <1>5, <1>6, <1>2
    <3>3. SubSeq(SubSeq(l, i, q), m, h) = SubSeq(l, i + m - 1, i + h - 1)
      <4> HIDE DEF m, h, i
      <4>1. l \in Seq(Byte)
        OBVIOUS
      <4> QED
        BY <3>2, <4>1, SubSeqOfSubSeq
    <3>4. i + m - 1 = q - Len(r) + 1 /\ i + h - 1 = q
      BY <1>5, <3>1
    <3>5. r = SubSeq(SubSeq(l, i, q), m, h)
      BY <1>6, <1>4
    <3> QED
      BY <3>3, <3>4, <3>5
  <2> QED
    BY <2>1, <2>2
<1>8. Len(r) <= q
  BY <1>5, <1>6
<1> QED
  BY <1>6, <1>7, <1>8 DEF r

(* A valid message that ends at e lies on the line at its first byte.      *)
LEMMA FrameOnLine ==
  ASSUME NEW l \in Seq(Byte), NEW e \in 0..Len(l),
         NEW b \in Seq(Byte), Len(b) <= e, b = SubSeq(l, e - Len(b) + 1, e),
         Valid(b), ValidSoFar(b)
  PROVE  LET f == e - Len(b) + 1 IN
         /\ f \in 1..Len(l)
         /\ FrameAt(l, f)
         /\ EndOf(l, f) = e
         /\ Segment(l, f) = b
<1> DEFINE f == e - Len(b) + 1
<1>1. Len(b) >= 8 /\ NeededBytes(b) = 0
  BY DEF Valid
<1>2. f \in 1..Len(l) /\ f + 7 <= e /\ f + Len(b) = e + 1
  BY <1>1
<1>3. \A i \in 1..Len(b) : b[i] = l[f + i - 1]
  BY <1>2
<1>4. b = SubSeq(l, f, e)
  OBVIOUS
<1> HIDE DEF f
<1>5. l[f] = b[1] /\ l[f + 1] = b[2] /\ l[f + 4] = b[5] /\ l[f + 5] = b[6]
  <2>1. 1 \in 1..Len(b) /\ 2 \in 1..Len(b) /\ 5 \in 1..Len(b) /\ 6 \in 1..Len(b)
    BY <1>1
  <2>2. b[1] = l[f + 1 - 1] /\ b[2] = l[f + 2 - 1] /\ b[5] = l[f + 5 - 1] /\ b[6] = l[f + 6 - 1]
    BY <2>1, <1>3
  <2>3. f + 1 - 1 = f /\ f + 2 - 1 = f + 1 /\ f + 5 - 1 = f + 4 /\ f + 6 - 1 = f + 5
    BY <1>2
  <2> QED
    BY <2>2, <2>3
<1>6. b[1] = PREAMBLE1 /\ b[2] = PREAMBLE2
  BY <1>1 DEF ValidSoFar
<1>7. HeaderAt(l, f)
  BY <1>2, <1>5, <1>6 DEF HeaderAt
<1>8. b[5] \in Int /\ b[6] \in Int
  <2>1. b[5] \in Byte /\ b[6] \in Byte
    BY <1>1
  <2> QED
    BY <2>1, ByteInt
<1>9. b[5] + 256 * b[6] = Len(b) - 8
  BY <1>1, <1>8 DEF NeededBytes, MsgLength
<1>10. EndOf(l, f) = e
  <2>1. EndOf(l, f) = f + 7 + b[5] + 256 * b[6]
    BY <1>5, Zenon DEF EndOf
  <2> DEFINE x == b[5]
             y == b[6]
  <2>2. f \in Int /\ x \in Int /\ y \in Int /\ Len(b) \in Int /\ e \in Int
    BY <1>2, <1>8
  <2>3. x + 256 * y = Len(b) - 8
    BY <1>9
  <2>4. f + Len(b) = e + 1
    BY <1>2
  <2>5. EndOf(l, f) = f + 7 + x + 256 * y
    BY <2>1
  <2> HIDE DEF x, y
  <2> QED
    BY <2>2, <2>3, <2>4, <2>5
<1>11. Segment(l, f) = b
  BY <1>10, <1>4 DEF Segment
<1>12. FrameAt(l, f)
  BY <1>7, <1>10, <1>11 DEF FrameAt
<1> QED
  BY <1>2, <1>10, <1>11, <1>12 DEF f
----------------------------------------------------------------------------
(* The running sums of the checksum: a sum is there for every number of    *)
(* bytes, since it can be continued, and it is a byte.                     *)
Runs(f, n, x) == f = [i \in 0..n |-> IF i = 0 THEN 0 ELSE (f[i - 1] + x[i]) % 256]

LEMMA Continues ==
  ASSUME NEW m \in Nat \ {0}, NEW x, NEW g, Runs(g, m - 1, x)
  PROVE  \E h : Runs(h, m, x)
<1> DEFINE h == [i \in 0..m |-> IF i = m THEN (g[m - 1] + x[m]) % 256 ELSE g[i]]
<1>1. \A i \in 0..(m - 1) : g[i] = IF i = 0 THEN 0 ELSE (g[i - 1] + x[i]) % 256
  BY DEF Runs
<1>2. \A i \in 0..m : h[i] = IF i = 0 THEN 0 ELSE (h[i - 1] + x[i]) % 256
  <2> SUFFICES ASSUME NEW i \in 0..m
               PROVE  h[i] = IF i = 0 THEN 0 ELSE (h[i - 1] + x[i]) % 256
    OBVIOUS
  <2>1. CASE i = 0
    BY <2>1, <1>1
  <2>2. CASE i = m
    <3>1. i - 1 \in 0..m /\ i - 1 # m /\ i # 0
      BY <2>2
    <3> QED
      BY <3>1, <2>2
  <2>3. CASE i # 0 /\ i # m
    <3>1. i \in 0..(m - 1) /\ i - 1 \in 0..m /\ i - 1 # m
      BY <2>3
    <3> QED
      BY <3>1, <2>3, <1>1
  <2> QED
    BY <2>1, <2>2, <2>3
<1>3. h = [i \in 0..m |-> IF i = 0 THEN 0 ELSE (h[i - 1] + x[i]) % 256]
  <2>1. PICK e : e = h
    OBVIOUS
  <2>2. e = [i \in 0..m |-> e[i]] /\ \A i \in 0..m : e[i] = IF i = 0 THEN 0 ELSE (e[i - 1] + x[i]) % 256
    BY <2>1, <1>2
  <2>3. e = [i \in 0..m |-> IF i = 0 THEN 0 ELSE (e[i - 1] + x[i]) % 256]
    <3>1. PICK k : k = [i \in 0..m |-> IF i = 0 THEN 0 ELSE (e[i - 1] + x[i]) % 256]
      OBVIOUS
    <3>2. \A i \in 0..m : k[i] = e[i]
      BY <2>2, <3>1
    <3>3. k = [i \in 0..m |-> k[i]]
      BY <3>1
    <3>4. k = e
      BY <2>2, <3>2, <3>3
    <3> QED
      BY <3>1, <3>4
  <2> QED
    BY <2>1, <2>3
<1> HIDE DEF h
<1>4. Runs(h, m, x)
  BY <1>3 DEF Runs
<1> QED
  BY <1>4

LEMMA RunExists ==
  ASSUME NEW n \in Nat, NEW x
  PROVE  \E f : Runs(f, n, x)
<1> DEFINE none == {k \in Nat : ~\E f : Runs(f, k, x)}
<1>1. CASE none = {}
  BY <1>1
<1>2. CASE none # {}
  <2>1. PICK m \in none : \A k \in none : m <= k
    <3> HIDE DEF none
    <3>1. none \subseteq Nat
      BY DEF none
    <3> QED
      BY <3>1, <1>2, Least
  <2>2. m # 0
    <3>1. Runs([i \in 0..0 |-> 0], 0, x)
      BY DEF Runs
    <3>2. 0 \notin none
      BY <3>1
    <3> QED
      BY <3>2
  <2>3. m \in Nat \ {0} /\ m - 1 \in Nat /\ ~(m <= m - 1)
    BY <2>2
  <2>4. \E f : Runs(f, m - 1, x)
    BY <2>1, <2>3
  <2>5. \E f : Runs(f, m, x)
    BY <2>3, <2>4, Continues
  <2> QED
    BY <2>5
<1> QED
  BY <1>1, <1>2

LEMMA RunsInBytes ==
  ASSUME NEW n \in Nat, NEW x, \A i \in 1..n : x[i] \in Byte, NEW f, Runs(f, n, x)
  PROVE  \A i \in 0..n : f[i] \in Byte
<1> DEFINE bad == {i \in 0..n : f[i] \notin Byte}
<1>1. \A i \in 0..n : f[i] = IF i = 0 THEN 0 ELSE (f[i - 1] + x[i]) % 256
  BY DEF Runs
<1>2. CASE bad # {}
  <2>1. PICK m \in bad : \A k \in bad : m <= k
    <3> HIDE DEF bad
    <3>1. bad \subseteq Nat
      BY DEF bad
    <3> QED
      BY <3>1, <1>2, Least
  <2>2. m # 0
    BY <2>1, <1>1 DEF Byte
  <2>3. m \in 1..n /\ m - 1 \in 0..n /\ ~(m <= m - 1)
    BY <2>2
  <2>4. f[m - 1] \in Byte /\ x[m] \in Byte
    BY <2>1, <2>3
  <2>5. f[m] = (f[m - 1] + x[m]) % 256
    BY <2>3, <1>1
  <2>6. \A a, b \in Byte : (a + b) % 256 \in Byte
    BY DEF Byte
  <2> QED
    BY <2>4, <2>5, <2>6
<1> QED
  BY <1>2

LEMMA ChecksumType ==
  ASSUME NEW data \in Seq(Byte)
  PROVE  \E a, b \in Byte : Checksum(data) = <<a, b>>
<1>1. PICK n \in Nat : n = Len(data)
  OBVIOUS
<1> DEFINE A == CHOOSE f : Runs(f, n, data)
           B == CHOOSE f : Runs(f, n, A)
<1>2. \A i \in 1..n : data[i] \in Byte
  BY <1>1
<1>3. Runs(A, n, data)
  BY RunExists
<1> HIDE DEF A
<1>4. \A i \in 0..n : A[i] \in Byte
  BY <1>2, <1>3, RunsInBytes
<1>5. Runs(B, n, A)
  BY RunExists
<1> HIDE DEF B
<1>6. \A i \in 1..n : A[i] \in Byte
  BY <1>4
<1>7. \A i \in 0..n : B[i] \in Byte
  BY <1>5, <1>6, RunsInBytes
<1>8. Checksum(data) = <<A[n], B[n]>>
  BY <1>1 DEF Checksum, A, B, Runs
<1> QED
  BY <1>4, <1>7, <1>8

(* What special_handling makes of a message is a message of the same type  *)
(* and length, with other bytes only where a setting is preferred.         *)
LEMMA HandledIs ==
  ASSUME NEW m \in Seq(Byte), Valid(m), ~Refuses(m), preferred \in Preferences
  PROVE  /\ Handled(m) \in Seq(Byte) /\ Len(Handled(m)) = Len(m) /\ Valid(Handled(m))
         /\ \A i \in 1..(Len(m) - 2) :
              \/ Handled(m)[i] = m[i]
              \/ \E s \in DOMAIN preferred :
                   ReportOf[s] = MsgType(m) /\ PlaceOf[s] = i /\ Handled(m)[i] = preferred[s]
<1>1. CASE Differing(m) = {}
  BY <1>1 DEF Handled
<1>2. CASE Differing(m) # {}
  <2>1. PICK L \in Nat : L = Len(m) /\ L >= 8
    BY DEF Valid
  <2>2. \A s \in Differing(m) : /\ s \in DOMAIN preferred /\ ReportOf[s] = MsgType(m)
                                /\ preferred[s] \in Byte /\ PlaceOf[s] \in {9, 30, 33}
    BY PreferencesAssumption DEF Differing, Wanted, Refuses, Settings, PlaceOf
  <2>3. PICK w : w = WithPreferred(m)
    OBVIOUS
  <2>4. ASSUME NEW i \in 1..L
        PROVE  /\ w[i] \in Byte
               /\ i <= 6 => w[i] = m[i]
               /\ \/ w[i] = m[i]
                  \/ \E s \in DOMAIN preferred :
                       ReportOf[s] = MsgType(m) /\ PlaceOf[s] = i /\ w[i] = preferred[s]
    <3>1. CASE \E s \in Differing(m) : PlaceOf[s] = i
      <4>1. PICK s : s = CHOOSE t \in Differing(m) : PlaceOf[t] = i
        OBVIOUS
      <4>2. s \in Differing(m) /\ PlaceOf[s] = i
        BY <4>1, <3>1
      <4>3. w[i] = preferred[s]
        BY <4>1, <3>1, <2>1, <2>3, <2>4 DEF WithPreferred
      <4> QED
        BY <4>2, <4>3, <2>2
    <3>2. CASE ~\E s \in Differing(m) : PlaceOf[s] = i
      <4>1. w[i] = m[i]
        BY <3>2, <2>1, <2>3, <2>4 DEF WithPreferred
      <4> QED
        BY <4>1, <2>1, <2>4
    <3> QED
      BY <3>1, <3>2
  <2>5. w \in Seq(Byte) /\ Len(w) = L
    <3>1. w = [i \in 1..L |-> w[i]]
      BY <2>1, <2>3 DEF WithPreferred
    <3>2. w \in [1..L -> Byte]
      BY <3>1, <2>4
    <3> QED
      BY <3>2
  <2>6. PICK b : b = SubSeq(w, 1, L - 2)
    OBVIOUS
  <2>7. b \in Seq(Byte) /\ Len(b) = L - 2 /\ \A i \in 1..(L - 2) : b[i] = w[i]
    BY <2>1, <2>5, <2>6
  <2>8. PICK data : data = SubSeq(b, 3, L - 2)
    OBVIOUS
  <2>9. data \in Seq(Byte)
    BY <2>1, <2>7, <2>8
  <2>10. PICK x \in Byte, y \in Byte : Checksum(data) = <<x, y>>
    BY <2>9, ChecksumType
  <2>11. PICK h : h = b \o <<x, y>>
    OBVIOUS
  <2>12. Handled(m) = h
    BY <1>2, <2>1, <2>3, <2>6, <2>7, <2>8, <2>10, <2>11 DEF Handled
  <2>13. /\ h \in Seq(Byte) /\ Len(h) = L /\ \A i \in 1..(L - 2) : h[i] = w[i]
         /\ h[L - 1] = x /\ h[L] = y
    BY <2>1, <2>7, <2>11
  <2>14. MsgLength(h) = MsgLength(m)
    BY <2>1, <2>4, <2>13 DEF MsgLength
  <2>15. NeededBytes(h) = 0
    BY <2>1, <2>13, <2>14 DEF NeededBytes, Valid
  <2>16. ValidChecksum(h)
    <3>1. SubSeq(h, L - 1, L) = <<x, y>>
      <4>1. PICK k : k = SubSeq(h, L - 1, L)
        OBVIOUS
      <4>2. k \in Seq(Byte) /\ Len(k) = 2 /\ \A i \in 1..2 : k[i] = h[L - 2 + i]
        BY <4>1, <2>1, <2>13
      <4>3. L - 2 + 1 = L - 1 /\ L - 2 + 2 = L
        BY <2>1
      <4>4. k[1] = x /\ k[2] = y
        BY <4>2, <4>3, <2>13
      <4>5. k = <<x, y>>
        BY <4>2, <4>4
      <4> QED
        BY <4>1, <4>5
    <3>2. SubSeq(h, 3, L - 2) = data
      BY <2>1, <2>5, <2>7, <2>8, <2>13
    <3> QED
      BY <3>1, <3>2, <2>10, <2>13 DEF ValidChecksum
  <2>17. Valid(h)
    BY <2>1, <2>13, <2>15, <2>16 DEF Valid
  <2> QED
    BY <2>1, <2>4, <2>12, <2>13, <2>17
<1> QED
  BY <1>1, <1>2
----------------------------------------------------------------------------
(* The inductive invariant: beside the stated properties, what is in the   *)
(* buffer at each place of a call, and that the bytes of the messages      *)
(* returned lie before those of the buffer.                                *)
Place ==
  /\ pc = "idle" => buf = <<>>
  /\ pc # "idle" => ValidSoFar(buf)
  /\ pc = "special" => Valid(buf)
Before == \A i \in DOMAIN got : got[i].last <= pos - Len(buf)
Inv == TypeOK /\ BufferIsContiguous /\ WaitsForSomething /\ Place /\ Before

LEMMA LineType == TypeOK => line \in Seq(Byte)
BY StreamsAssumption DEF TypeOK

LEMMA InitInv == Init => Inv
<1> SUFFICES ASSUME Init PROVE Inv
  OBVIOUS
<1> USE DEF Init
<1>1. line \in Seq(Byte)
  BY StreamsAssumption
<1>2. TypeOK
  BY <1>1 DEF TypeOK
<1>3. BufferIsContiguous
  BY <1>1 DEF BufferIsContiguous
<1>4. WaitsForSomething /\ Place /\ Before
  BY DEF WaitsForSomething, Place, Before
<1> QED
  BY <1>2, <1>3, <1>4 DEF Inv

LEMMA BeforeFact ==
  ASSUME Inv, NEW i \in DOMAIN got
  PROVE  got[i].last \in Nat /\ got[i].last <= pos - Len(buf)
<1>1. got \in Seq(Message)
  BY DEF Inv, TypeOK
<1>2. got[i] \in Message
  BY <1>1
<1>3. got[i].last \in Nat
  BY <1>2 DEF Message
<1> QED
  BY <1>3 DEF Inv, Before

LEMMA CallInv == Inv /\ Call => Inv'
<1> SUFFICES ASSUME Inv, Call PROVE Inv'
  OBVIOUS
<1> USE DEF Inv, Call, call
<1>1. line \in Seq(Byte) /\ pos \in 0..Len(line)
  BY LineType DEF TypeOK
<1>2. TypeOK'
  BY DEF TypeOK
<1>3. BufferIsContiguous'
  BY <1>1 DEF BufferIsContiguous
<1>4. WaitsForSomething' /\ Place'
  BY EmptyBuffer DEF WaitsForSomething, Place
<1>5. Before'
  BY <1>1 DEF Before, Place
<1> QED
  BY <1>2, <1>3, <1>4, <1>5

LEMMA ReadInv ==
  ASSUME Inv, NEW n \in 1..(Len(line) - pos), ReadSome(n)
  PROVE  Inv'
<1> DEFINE q == pos'
           c == SubSeq(line, pos + 1, q)
<1>1. /\ line \in Seq(Byte)
      /\ pos \in Nat
      /\ pos + n <= Len(line)
      /\ buf \in Seq(Byte)
      /\ Len(buf) <= pos
      /\ buf = SubSeq(line, pos - Len(buf) + 1, pos)
  BY LineType DEF Inv, TypeOK, BufferIsContiguous
<1>2. /\ pc = "reading"
      /\ q = pos + n
      /\ buf' = Add(buf, c)
      /\ pc' = IF Valid(buf') THEN "special" ELSE "reading"
      /\ line' = line /\ ignoreEof' = ignoreEof /\ alarm' = alarm /\ preferred' = preferred
      /\ got' = got /\ cuts' = cuts
  BY DEF ReadSome, call
<1>3. q \in Nat /\ pos < q /\ q <= Len(line)
  BY <1>1, <1>2
<1> HIDE DEF q
<1>4. /\ buf' \in Seq(Byte)
      /\ Len(buf') <= q
      /\ buf' = SubSeq(line, q - Len(buf') + 1, q)
      /\ NeededBytes(buf') \in Nat
      /\ NeededBytes(buf') = 0 => Valid(buf')
      /\ ValidSoFar(buf')
  BY <1>1, <1>2, <1>3, ReadKeeps
<1>5. Len(buf') <= Len(buf) + (q - pos)
  <2>1. c \in Seq(Byte) /\ Len(c) = q - pos
    BY <1>1, <1>3
  <2> HIDE DEF c
  <2>2. Len(Add(buf, c)) <= Len(buf \o c)
    BY <1>1, <2>1, AddKeeps
  <2>3. Len(buf \o c) = Len(buf) + (q - pos)
    BY <1>1, <2>1
  <2> QED
    BY <2>2, <2>3, <1>2
<1>6. TypeOK'
  BY <1>1, <1>2, <1>3, <1>4 DEF TypeOK, Inv, q
<1>7. BufferIsContiguous'
  <2>1. Len(buf') <= q /\ buf' = SubSeq(line', q - Len(buf') + 1, q)
    BY <1>2, <1>4
  <2> QED
    BY <2>1 DEF BufferIsContiguous, q
<1>8. WaitsForSomething' /\ Place'
  BY <1>2, <1>4 DEF WaitsForSomething, Place
<1>9. Before'
  <2> SUFFICES ASSUME NEW i \in DOMAIN got PROVE got[i].last <= q - Len(buf')
    BY <1>2 DEF Before, q
  <2>1. got[i].last <= pos - Len(buf) /\ got[i].last \in Nat
    BY BeforeFact
  <2> QED
    BY <2>1, <1>1, <1>3, <1>4, <1>5
<1> QED
  BY <1>6, <1>7, <1>8, <1>9 DEF Inv

LEMMA GiveUpInv == Inv /\ GiveUp => Inv'
<1> SUFFICES ASSUME Inv, GiveUp PROVE Inv'
  OBVIOUS
<1> USE DEF Inv, GiveUp, call
<1>1. line \in Seq(Byte) /\ pos \in 0..Len(line) /\ buf \in Seq(Byte)
  BY LineType DEF TypeOK
<1>2. TypeOK'
  <2>1. cuts \in Seq(0..Len(line)) /\ cuts' = Append(cuts, pos)
    BY DEF TypeOK
  <2>2. Append(cuts, pos) \in Seq(0..Len(line))
    BY <2>1, <1>1
  <2> QED
    BY <2>1, <2>2 DEF TypeOK
<1>3. BufferIsContiguous'
  BY <1>1 DEF BufferIsContiguous
<1>4. WaitsForSomething' /\ Place'
  BY DEF WaitsForSomething, Place
<1>5. Before'
  <2> SUFFICES ASSUME NEW i \in DOMAIN got PROVE got[i].last <= pos - Len(<<>>)
    BY DEF Before
  <2>1. got[i].last <= pos - Len(buf) /\ got[i].last \in Nat
    BY BeforeFact
  <2> QED
    BY <2>1, <1>1
<1> QED
  BY <1>2, <1>3, <1>4, <1>5

LEMMA FailInv == Inv /\ Fail => Inv'
<1> SUFFICES ASSUME Inv, Fail PROVE Inv'
  OBVIOUS
<1> USE DEF Inv, Fail, call
<1>1. line \in Seq(Byte) /\ pos \in 0..Len(line) /\ buf \in Seq(Byte)
  BY LineType DEF TypeOK
<1>2. TypeOK'
  BY DEF TypeOK
<1>3. BufferIsContiguous'
  BY <1>1 DEF BufferIsContiguous
<1>4. WaitsForSomething' /\ Place'
  BY DEF WaitsForSomething, Place
<1>5. Before'
  <2> SUFFICES ASSUME NEW i \in DOMAIN got PROVE got[i].last <= pos - Len(<<>>)
    BY DEF Before
  <2>1. got[i].last <= pos - Len(buf) /\ got[i].last \in Nat
    BY BeforeFact
  <2> QED
    BY <2>1, <1>1
<1> QED
  BY <1>2, <1>3, <1>4, <1>5

LEMMA ReturnInv == Inv /\ Return => Inv'
<1> SUFFICES ASSUME Inv, Return PROVE Inv'
  OBVIOUS
<1> USE DEF Inv, Return, call
<1> DEFINE m == [last |-> pos, bytes |-> Handled(buf)]
<1>1. line \in Seq(Byte) /\ pos \in 0..Len(line) /\ buf \in Seq(Byte) /\ got \in Seq(Message)
  BY LineType DEF TypeOK
<1>2. m \in Message /\ got' = Append(got, m) /\ buf' = <<>> /\ pos' = pos /\ line' = line
  <2>1. Handled(buf) \in Seq(Byte)
    BY <1>1, HandledIs DEF Place, Taken, TypeOK
  <2> QED
    BY <2>1, <1>1 DEF Message
<1> HIDE DEF m
<1>3. TypeOK'
  BY <1>2 DEF TypeOK
<1>4. BufferIsContiguous'
  BY <1>1, <1>2 DEF BufferIsContiguous
<1>5. WaitsForSomething' /\ Place'
  BY DEF WaitsForSomething, Place
<1>6. Before'
  <2> SUFFICES ASSUME NEW i \in DOMAIN got' PROVE got'[i].last <= pos
    BY <1>1, <1>2 DEF Before
  <2>1. CASE i = Len(got) + 1
    BY <2>1, <1>1, <1>2 DEF m
  <2>2. CASE i \in DOMAIN got
    <3>1. got'[i] = got[i]
      BY <2>2, <1>1, <1>2
    <3>2. got[i].last <= pos - Len(buf) /\ got[i].last \in Nat
      BY <2>2, BeforeFact
    <3> QED
      BY <3>1, <3>2, <1>1
  <2> QED
    BY <2>1, <2>2, <1>1, <1>2
<1> QED
  BY <1>3, <1>4, <1>5, <1>6

LEMMA NextInv == Inv /\ [Next]_vars => Inv'
<1> SUFFICES ASSUME Inv, [Next]_vars PROVE Inv'
  OBVIOUS
<1>1. CASE Call
  BY <1>1, CallInv
<1>2. ASSUME NEW n \in 1..(Len(line) - pos), ReadSome(n) PROVE Inv'
  BY <1>2, ReadInv
<1>3. CASE Fail
  BY <1>3, FailInv
<1>4. CASE Return
  BY <1>4, ReturnInv
<1>5. CASE ReadNothing \/ Alarm
  BY <1>5, GiveUpInv DEF ReadNothing, Alarm
<1>6. CASE UNCHANGED vars
  BY <1>6 DEF vars, Inv, TypeOK, BufferIsContiguous, WaitsForSomething, Place, Before
<1> QED
  BY <1>1, <1>2, <1>3, <1>4, <1>5, <1>6 DEF Next, Receive

LEMMA SpecInv == Spec => []Inv
BY InitInv, NextInv, PTL DEF Spec

(* Every variable keeps its type, for every line.                          *)
THEOREM ReceiverTypeCorrect == Spec => []TypeOK
BY SpecInv, PTL DEF Inv

(* However the line is cut into pieces, a message under construction is    *)
(* one stretch of it (UBloxMessage.add).                                   *)
THEOREM BufferIsContiguousHolds == Spec => []BufferIsContiguous
BY SpecInv, PTL DEF Inv

(* receive_message never calls read(0), whatever length a damaged header   *)
(* announces.                                                              *)
THEOREM WaitsForSomethingHolds == Spec => []WaitsForSomething
BY SpecInv, PTL DEF Inv
----------------------------------------------------------------------------
(* The refinement: a returned message is a delivery, every other step      *)
(* leaves the abstract state alone.                                        *)
LEMMA SameFraming ==
  ASSUME NEW l, NEW f
  PROVE  /\ Delivery!EndOf(l, f) = EndOf(l, f)
         /\ Delivery!Segment(l, f) = Segment(l, f)
         /\ FrameAt(l, f) => Delivery!FrameAt(l, f)
         /\ \A m : (Delivery!Valid(m) <=> Valid(m)) /\ Delivery!MsgType(m) = MsgType(m)
         /\ Delivery!ReportOf = ReportOf /\ Delivery!PlaceOf = PlaceOf
<1>1. Delivery!EndOf(l, f) = EndOf(l, f)
  BY DEF Delivery!EndOf, EndOf
<1>2. Delivery!Segment(l, f) = Segment(l, f)
  BY <1>1 DEF Delivery!Segment, Segment
<1>3. \A m : Delivery!NeededBytes(m) = NeededBytes(m)
  BY DEF Delivery!NeededBytes, NeededBytes, Delivery!MsgLength, MsgLength
<1>4. \A m : Delivery!ValidChecksum(m) <=> ValidChecksum(m)
  BY DEF Delivery!ValidChecksum, ValidChecksum, Delivery!Checksum, Checksum
<1>5. \A m : Delivery!Valid(m) <=> Valid(m)
  BY <1>3, <1>4 DEF Delivery!Valid, Valid
<1>6. Delivery!HeaderAt(l, f) <=> HeaderAt(l, f)
  BY DEF Delivery!HeaderAt, HeaderAt, Delivery!PREAMBLE1, Delivery!PREAMBLE2, PREAMBLE1, PREAMBLE2
<1>7. \A m : Delivery!MsgType(m) = MsgType(m)
  BY DEF Delivery!MsgType, MsgType, Delivery!MsgClass, MsgClass, Delivery!MsgId, MsgId
<1>8. Delivery!ReportOf = ReportOf /\ Delivery!PlaceOf = PlaceOf
  BY DEF Delivery!ReportOf, ReportOf, Delivery!PlaceOf, PlaceOf, Delivery!CFG_NAV5, CFG_NAV5,
         Delivery!CFG_NAVX5, CFG_NAVX5
<1>9. FrameAt(l, f) => Delivery!FrameAt(l, f)
  BY <1>1, <1>2, <1>5, <1>6 DEF Delivery!FrameAt, FrameAt
<1> QED
  BY <1>1, <1>2, <1>5, <1>7, <1>8, <1>9

LEMMA InitDelivers == Init => Delivery!Init
<1>1. Init => got = <<>> /\ line \in Streams /\ preferred \in Preferences
  BY DEF Init
<1>2. got = <<>> => delivered = <<>>
  BY DEF delivered
<1> QED
  BY <1>1, <1>2 DEF Delivery!Init

LEMMA ReturnDelivers ==
  ASSUME Inv, Return
  PROVE  Delivery!Next
<1>1. /\ line \in Seq(Byte) /\ pos \in 0..Len(line) /\ buf \in Seq(Byte)
      /\ got \in Seq(Message)
  BY LineType DEF Inv, TypeOK
<1>2. PICK h : h = Handled(buf)
  OBVIOUS
<1>3. /\ h \in Seq(Byte) /\ Len(h) = Len(buf) /\ Valid(h)
      /\ \A i \in 1..(Len(buf) - 2) :
           \/ h[i] = buf[i]
           \/ \E s \in DOMAIN preferred :
                ReportOf[s] = MsgType(buf) /\ PlaceOf[s] = i /\ h[i] = preferred[s]
  BY <1>1, <1>2, HandledIs DEF Inv, Place, TypeOK, Return, Taken
<1>4. PICK start \in Int : start = pos - Len(buf) + 1
  <2>1. pos - Len(buf) + 1 \in Int
    BY <1>1
  <2> QED
    BY <2>1
<1>5. Len(buf) <= pos /\ buf = SubSeq(line, start, pos) /\ Valid(buf) /\ ValidSoFar(buf)
  BY <1>4 DEF Inv, BufferIsContiguous, Place, Return
<1>6. /\ start \in 1..Len(line)
      /\ FrameAt(line, start)
      /\ EndOf(line, start) = pos
      /\ Segment(line, start) = buf
  BY <1>4, <1>1, <1>5, FrameOnLine
<1>7. PICK m : m = [last |-> pos, bytes |-> h]
  OBVIOUS
<1>8. got' = Append(got, m) /\ line' = line /\ preferred' = preferred
  BY <1>2, <1>7 DEF Return, call
<1>9. delivered = <<>> \/ delivered[Len(delivered)].last < start
  <2>1. CASE got = <<>>
    BY <2>1 DEF delivered
  <2>2. CASE got # <<>>
    <3>1. Len(got) \in DOMAIN got /\ Len(delivered) = Len(got)
      BY <2>2, <1>1 DEF delivered
    <3>2. delivered[Len(delivered)].last = got[Len(got)].last
      BY <3>1 DEF delivered, Placed
    <3>3. got[Len(got)].last \in Nat /\ got[Len(got)].last <= pos - Len(buf)
      BY <3>1, BeforeFact
    <3> QED
      BY <3>2, <3>3, <1>4, <1>1
  <2> QED
    BY <2>1, <2>2
<1>10. PICK p : p = Placed(m)
  OBVIOUS
<1>11. p.first = start /\ p.last = pos /\ p.bytes = h
  BY <1>3, <1>4, <1>7, <1>10 DEF Placed
<1>12. delivered' = Append(delivered, p)
  <2>1. delivered' = [i \in 1..(Len(got) + 1) |-> Placed(Append(got, m)[i])]
    BY <1>8, <1>1 DEF delivered
  <2>2. Append(delivered, p) = [i \in 1..(Len(got) + 1) |-> IF i <= Len(got) THEN Placed(got[i]) ELSE p]
    BY <1>1 DEF delivered
  <2>3. \A i \in 1..(Len(got) + 1) : Append(got, m)[i] = IF i <= Len(got) THEN got[i] ELSE m
    BY <1>1
  <2> QED
    BY <2>1, <2>2, <2>3, <1>10
<1>13. p \in Delivery!ToSet(delivered')
  <2>1. Len(got) + 1 \in DOMAIN Append(delivered, p) /\ Append(delivered, p)[Len(got) + 1] = p
    BY <1>1 DEF delivered
  <2> QED
    BY <2>1, <1>12 DEF Delivery!ToSet
<1>14. Delivery!Presents(Segment(line, start), h)
  BY <1>3, <1>6, SameFraming DEF Delivery!Presents
<1>15. Delivery!After(start)
  BY <1>9 DEF Delivery!After
<1>16. Delivery!Deliver(start)
  BY <1>6, <1>8, <1>11, <1>12, <1>13, <1>14, <1>15, SameFraming, Zenon DEF Delivery!Deliver
<1> QED
  BY <1>6, <1>16 DEF Delivery!Next

LEMMA NextDelivers ==
  ASSUME Inv, [Next]_vars
  PROVE  [Delivery!Next]_(Delivery!vars)
<1>1. CASE Return
  BY <1>1, ReturnDelivers
<1>2. CASE ~Return
  <2>1. got' = got /\ line' = line /\ preferred' = preferred
    BY <1>2 DEF Next, Receive, Call, ReadSome, Fail, ReadNothing, Alarm, GiveUp, vars, call
  <2> QED
    BY <2>1 DEF Delivery!vars, delivered
<1> QED
  BY <1>1, <1>2

(* receive_message implements UbxDelivery: what it returns are valid       *)
(* messages of the line, in its order, none twice, changed only where a    *)
(* setting is preferred.                                                   *)
THEOREM DeliversHolds == Spec => Delivers
BY SpecInv, InitDelivers, NextDelivers, PTL DEF Spec, Delivers, Delivery!Spec
----------------------------------------------------------------------------
(* UbxReceiver skips no message but for a cause, for every line, every way *)
(* of cutting it into pieces, and every bound.                             *)

(* The inductive part: a message that is due is still ahead or in the      *)
(* buffer, of which nothing beyond its end has been read; or it has been   *)
(* returned, or a call gave up in it.                                      *)
Safe(s) ==
  Due(s) => \/ pos - Len(buf) < s /\ pos <= EndOf(line, s)
            \/ Returned(s)
            \/ Cut(s)
AllSafe == \A s \in 1..Len(line) : Safe(s)

(* A header says that its message ends at least seven bytes on.            *)
LEMMA EndType ==
  ASSUME NEW l \in Seq(Byte), NEW h \in 1..Len(l), h + 5 <= Len(l)
  PROVE  EndOf(l, h) \in Nat /\ h + 7 <= EndOf(l, h)
<1>1. l[h + 4] \in Byte /\ l[h + 5] \in Byte
  OBVIOUS
<1>2. \A z \in Byte : z \in Nat
  BY DEF Byte
<1> DEFINE x == l[h + 4]
           y == l[h + 5]
<1>3. x \in Nat /\ y \in Nat
  BY <1>1, <1>2
<1>4. EndOf(l, h) = h + 7 + x + 256 * y
  BY Zenon DEF EndOf
<1> HIDE DEF x, y
<1> QED
  BY <1>3, <1>4

(* How many bytes a stretch of the line still needs.                       *)
LEMMA NeededOfStretch ==
  ASSUME NEW l \in Seq(Byte), NEW h \in 1..Len(l), NEW e \in 0..Len(l), h <= e + 1,
         NEW b, b = SubSeq(l, h, e)
  PROVE  /\ b \in Seq(Byte)
         /\ Len(b) = e - h + 1
         /\ Len(b) < 6 => NeededBytes(b) = h + 7 - e
         /\ Len(b) >= 6 => NeededBytes(b) = EndOf(l, h) - e
<1>1. b \in Seq(Byte) /\ Len(b) = e - h + 1
  OBVIOUS
<1>2. ASSUME Len(b) < 6 PROVE NeededBytes(b) = h + 7 - e
  BY <1>1, <1>2 DEF NeededBytes
<1>3. ASSUME Len(b) >= 6 PROVE NeededBytes(b) = EndOf(l, h) - e
  <2>1. b[5] = l[h + 4] /\ b[6] = l[h + 5]
    BY <1>1, <1>3
  <2>2. b[5] \in Byte /\ b[6] \in Byte
    BY <1>1, <1>3
  <2>3. b[5] \in Int /\ b[6] \in Int
    BY <2>2, ByteInt
  <2>4. NeededBytes(b) = b[5] + 256 * b[6] + 8 - Len(b)
    BY <1>1, <1>3 DEF NeededBytes, MsgLength
  <2>5. EndOf(l, h) = h + 7 + b[5] + 256 * b[6]
    BY <2>1, Zenon DEF EndOf
  <2> DEFINE x == b[5]
             y == b[6]
  <2>6. x \in Int /\ y \in Int
    BY <2>3
  <2>7. NeededBytes(b) = x + 256 * y + 8 - Len(b) /\ EndOf(l, h) = h + 7 + x + 256 * y
    BY <2>4, <2>5
  <2> HIDE DEF x, y
  <2> QED
    BY <2>6, <2>7, <1>1
<1> QED
  BY <1>1, <1>2, <1>3

(* A stretch that may still become a message and holds a header shows the  *)
(* header on the line.                                                     *)
LEMMA HeaderOfStretch ==
  ASSUME NEW l \in Seq(Byte), NEW h \in 1..Len(l), NEW e \in 0..Len(l), h <= e + 1,
         NEW b, b = SubSeq(l, h, e), Len(b) >= 6, ValidSoFar(b)
  PROVE  HeaderAt(l, h)
<1>1. Len(b) = e - h + 1
  BY NeededOfStretch
<1>2. b[1] = l[h] /\ b[2] = l[h + 1]
  BY <1>1
<1>3. b[1] = PREAMBLE1 /\ b[2] = PREAMBLE2
  BY <1>1 DEF ValidSoFar
<1> QED
  BY <1>1, <1>2, <1>3 DEF HeaderAt

(* What has been read of a message may still become one.                   *)
LEMMA PrefixOfFrame ==
  ASSUME NEW l \in Seq(Byte), NEW s \in 1..Len(l), NEW e \in 0..Len(l), s <= e,
         FrameAt(l, s), e <= EndOf(l, s)
  PROVE  ValidSoFar(SubSeq(l, s, e))
<1>0. PICK b : b = SubSeq(l, s, e)
  OBVIOUS
<1>1. s + 5 <= Len(l) /\ l[s] = PREAMBLE1 /\ l[s + 1] = PREAMBLE2 /\ EndOf(l, s) <= Len(l)
  BY DEF FrameAt, HeaderAt
<1>2. /\ b \in Seq(Byte)
      /\ Len(b) = e - s + 1
      /\ Len(b) < 6 => NeededBytes(b) = s + 7 - e
      /\ Len(b) >= 6 => NeededBytes(b) = EndOf(l, s) - e
  <2>1. s <= e + 1
    OBVIOUS
  <2> QED
    BY <1>0, <2>1, NeededOfStretch, Zenon
<1>3. EndOf(l, s) \in Nat
  BY <1>1, EndType
<1>4. Len(b) > 0 => b[1] = PREAMBLE1
  BY <1>0, <1>1, <1>2
<1>5. Len(b) > 1 => b[2] = PREAMBLE2
  BY <1>0, <1>1, <1>2
<1>6. ASSUME NeededBytes(b) = 0 PROVE Valid(b)
  <2>1. EndOf(l, s) = e
    BY <1>6, <1>2, <1>3
  <2>2. Segment(l, s) = b
    BY <1>0, <2>1 DEF Segment
  <2> QED
    BY <2>2 DEF FrameAt
<1> QED
  BY <1>0, <1>4, <1>5, <1>6 DEF ValidSoFar

(* One turn of the loop: nothing beyond the end of a message in the buffer *)
(* or to come is read, and what add() drops lies before the message.       *)
LEMMA ReadReaches ==
  ASSUME NEW l \in Seq(Byte), NEW h \in 1..(Len(l) + 1), NEW p \in Nat, NEW q \in Nat,
         h <= p + 1, p < q, q <= Len(l),
         NEW b, b = SubSeq(l, h, p), ValidSoFar(b), q - p <= NeededBytes(b),
         NEW s \in 1..Len(l), h <= s, FrameAt(l, s),
         \A k \in 1..(s - 1) : HeaderAt(l, k) => EndOf(l, k) < s
  PROVE  /\ q <= EndOf(l, s)
         /\ s <= q => h = s \/ q <= h + 7
<1>1. h \in 1..Len(l) /\ p \in 0..Len(l)
  OBVIOUS
<1>2. /\ b \in Seq(Byte)
      /\ Len(b) = p - h + 1
      /\ Len(b) < 6 => NeededBytes(b) = h + 7 - p
      /\ Len(b) >= 6 => NeededBytes(b) = EndOf(l, h) - p
  BY <1>1, NeededOfStretch, Zenon
<1>3. EndOf(l, s) \in Nat /\ s + 7 <= EndOf(l, s)
  BY EndType DEF FrameAt, HeaderAt
<1>4. CASE Len(b) < 6
  BY <1>1, <1>2, <1>3, <1>4
<1>5. CASE Len(b) >= 6
  <2>1. HeaderAt(l, h)
    BY <1>1, <1>5, HeaderOfStretch, Zenon
  <2>2. EndOf(l, h) \in Nat
    BY <1>1, <2>1, EndType DEF HeaderAt
  <2>3. q <= EndOf(l, h)
    BY <1>1, <1>2, <1>5, <2>2
  <2>4. h # s => EndOf(l, h) < s
    BY <1>1, <2>1
  <2> QED
    BY <1>3, <2>2, <2>3, <2>4
<1> QED
  BY <1>2, <1>4, <1>5

LEMMA FromOnLine ==
  ASSUME NEW l \in Seq(Byte), NEW h \in 1..Len(l), NEW q \in 1..Len(l), h <= q,
         NEW a, a = SubSeq(l, h, q), NEW k \in 0..(q - h)
  PROVE  From(a, k) = SubSeq(l, h + k, q)
<1>1. a \in Seq(Byte) /\ Len(a) = q - h + 1
  OBVIOUS
<1> DEFINE m == k + 1
           n == q - h + 1
<1>2. m \in 1..(q - h + 1) /\ n \in 1..(q - h + 1)
  OBVIOUS
<1>3. SubSeq(SubSeq(l, h, q), m, n) = SubSeq(l, h + m - 1, h + n - 1)
  <2> HIDE DEF m, n
  <2> QED
    BY <1>2, SubSeqOfSubSeq
<1>4. h + m - 1 = h + k /\ h + n - 1 = q
  OBVIOUS
<1> QED
  BY <1>1, <1>3, <1>4 DEF From

(* What a stretch of the line leaves when its beginning is dropped and it  *)
(* is kept or thrown away still holds the message.                         *)
LEMMA DropReaches ==
  ASSUME NEW l \in Seq(Byte), NEW h \in 1..Len(l), NEW q \in 1..Len(l),
         NEW a, a = SubSeq(l, h, q),
         NEW s \in 1..Len(l), h <= s, s <= q, FrameAt(l, s),
         \A k \in 1..(s - 1) : HeaderAt(l, k) => EndOf(l, k) < s,
         q <= EndOf(l, s), h = s \/ q <= h + 7
  PROVE  Len(Keep(From(a, Dropped(a)))) >= q - s + 1
<1>1. a \in Seq(Byte) /\ Len(a) = q - h + 1
  OBVIOUS
<1>2. PICK d : d = Dropped(a)
  OBVIOUS
<1>3. PICK j \in Nat : j = s - h
  OBVIOUS
<1>4. d \in 0..Len(a) /\ ValidSoFar(From(a, d)) /\ \A i \in 0..(d - 1) : ~ValidSoFar(From(a, i))
  BY <1>1, <1>2, DroppedStops
<1>5. d <= j
  <2>1. j \in 0..(q - h) /\ h + j = s /\ h <= q
    BY <1>3
  <2>2. From(a, j) = SubSeq(l, s, q)
    BY <2>1, FromOnLine
  <2>3. ValidSoFar(From(a, j))
    BY <2>2, PrefixOfFrame
  <2> QED
    BY <2>1, <2>3, <1>1, <1>4
<1>6. PICK f : f = From(a, d)
  OBVIOUS
<1>7. PICK g \in 1..s : g = h + d
  BY <1>3, <1>4, <1>5
<1>8. f = SubSeq(l, g, q)
  <2>1. d \in 0..(q - h) /\ h <= q
    BY <1>3, <1>4, <1>5
  <2> QED
    BY <2>1, <1>6, <1>7, FromOnLine
<1>9. /\ f \in Seq(Byte)
      /\ Len(f) = q - g + 1
      /\ Len(f) < 6 => NeededBytes(f) = g + 7 - q
      /\ Len(f) >= 6 => NeededBytes(f) = EndOf(l, g) - q
  <2>1. g \in 1..Len(l) /\ q \in 0..Len(l) /\ g <= q + 1
    BY <1>7
  <2> QED
    BY <2>1, <1>8, NeededOfStretch, Zenon
<1>10. ~(NeededBytes(f) < 0)
  <2>1. CASE Len(f) < 6
    BY <2>1, <1>9
  <2>2. CASE Len(f) >= 6
    <3>1. g \in 1..Len(l) /\ q \in 0..Len(l) /\ g <= q + 1
      BY <1>7
    <3>2. HeaderAt(l, g)
      BY <3>1, <2>2, <1>4, <1>6, <1>8, HeaderOfStretch, Zenon
    <3>3. EndOf(l, g) \in Nat /\ g + 7 <= EndOf(l, g)
      BY <3>1, <3>2, EndType DEF HeaderAt
    <3>4. CASE g = s
      BY <3>3, <3>4, <2>2, <1>9
    <3>5. CASE g # s
      <4>1. EndOf(l, g) < s
        BY <3>2, <3>5, <1>7
      <4>2. q <= h + 7
        BY <3>5, <1>7, <1>4, <1>5, <1>3
      <4> QED
        BY <4>1, <4>2, <3>3, <1>7, <1>4
    <3> QED
      BY <3>4, <3>5
  <2> QED
    BY <2>1, <2>2, <1>9
<1>11. Keep(f) = f
  BY <1>10 DEF Keep
<1>12. Len(f) >= q - s + 1
  BY <1>7, <1>9
<1> QED
  BY <1>2, <1>6, <1>11, <1>12
----------------------------------------------------------------------------
LEMMA DueFacts ==
  ASSUME Inv, NEW s \in 1..Len(line), Due(s)
  PROVE  /\ line \in Seq(Byte)
         /\ FrameAt(line, s) /\ Undisturbed(s)
         /\ EndOf(line, s) \in Nat /\ s + 7 <= EndOf(line, s) /\ EndOf(line, s) <= Len(line)
<1>1. line \in Seq(Byte)
  BY LineType DEF Inv
<1>2. FrameAt(line, s) /\ Undisturbed(s)
  BY DEF Due
<1> QED
  BY <1>1, <1>2, EndType DEF FrameAt, HeaderAt

(* The line and the preferences never change, and what was returned or cut *)
(* stays so.                                                               *)
LEMMA Persists ==
  ASSUME NEW s, UNCHANGED <<line, preferred>>
  PROVE  /\ Due(s)' <=> Due(s)
         /\ got' = got => (Returned(s)' <=> Returned(s))
         /\ cuts' = cuts => (Cut(s)' <=> Cut(s))
BY DEF Due, Undisturbed, Returned, Cut, Taken, Known, Misfit, Refuses, Differing, Wanted

LEMMA ReadSafe ==
  ASSUME Inv, AllSafe, NEW n \in 1..(Len(line) - pos), ReadSome(n)
  PROVE  AllSafe'
<1>1. line' = line /\ preferred' = preferred /\ got' = got /\ cuts' = cuts
  BY DEF ReadSome, call
<1>2. SUFFICES ASSUME NEW s \in 1..Len(line), Due(s), ~Returned(s), ~Cut(s)
               PROVE  pos' - Len(buf') < s /\ pos' <= EndOf(line, s)
  BY <1>1, Persists DEF AllSafe, Safe
<1>3. /\ line \in Seq(Byte)
      /\ FrameAt(line, s) /\ Undisturbed(s)
      /\ EndOf(line, s) \in Nat /\ s + 7 <= EndOf(line, s)
  BY <1>2, DueFacts
<1>4. pos - Len(buf) < s /\ pos <= EndOf(line, s)
  BY <1>2 DEF AllSafe, Safe
<1>5. /\ pos \in Nat /\ pos + n <= Len(line) /\ pos' = pos + n
      /\ buf \in Seq(Byte) /\ Len(buf) <= pos
      /\ buf = SubSeq(line, pos - Len(buf) + 1, pos)
      /\ n <= NeededBytes(buf) /\ ValidSoFar(buf)
      /\ buf' = Add(buf, SubSeq(line, pos + 1, pos + n))
  BY <1>3 DEF Inv, TypeOK, BufferIsContiguous, Place, ReadSome
<1>6. PICK q \in Nat : q = pos + n
  BY <1>5
<1>7. PICK h \in 1..(Len(line) + 1) : h = pos - Len(buf) + 1
  <2>1. pos - Len(buf) + 1 \in 1..(Len(line) + 1)
    BY <1>3, <1>5
  <2> QED
    BY <2>1
<1>8. \A k \in 1..(s - 1) : HeaderAt(line, k) => EndOf(line, k) < s
  BY <1>3 DEF Undisturbed
<1>9. q <= EndOf(line, s) /\ (s <= q => h = s \/ q <= h + 7)
  <2>1. h <= pos + 1 /\ pos < q /\ q <= Len(line) /\ h <= s /\ q - pos <= NeededBytes(buf)
    BY <1>4, <1>5, <1>6, <1>7
  <2>2. buf = SubSeq(line, h, pos)
    BY <1>5, <1>7
  <2> QED
    BY <2>1, <2>2, <1>3, <1>5, <1>8, ReadReaches
<1>10. CASE s <= q
  <2> DEFINE c == SubSeq(line, pos + 1, q)
             a == buf \o c
  <2>1. h \in 1..Len(line) /\ q \in 1..Len(line) /\ h <= s
    BY <1>4, <1>5, <1>6, <1>7, <1>10
  <2>2. a = SubSeq(line, h, q)
    <3>1. h \in 1..(Len(line) + 1) /\ pos \in (h - 1)..Len(line) /\ q \in pos..Len(line)
      BY <1>5, <1>6, <1>7
    <3>2. SubSeq(line, h, pos) \o SubSeq(line, pos + 1, q) = SubSeq(line, h, q)
      BY <3>1, <1>3, ConcatAdjacentSubSeq
    <3> QED
      BY <3>2, <1>5, <1>7
  <2> HIDE DEF a
  <2>3. Len(Keep(From(a, Dropped(a)))) >= q - s + 1
    BY <2>1, <2>2, <1>3, <1>8, <1>9, <1>10, DropReaches
  <2>4. buf' = Keep(From(a, Dropped(a)))
    BY <1>5, <1>6 DEF Add, a
  <2>5. Len(buf') \in Nat
    BY <1>5, ReadInv DEF Inv, TypeOK
  <2> QED
    BY <2>3, <2>4, <2>5, <1>5, <1>6, <1>9
<1>11. CASE s > q
  <2>1. Len(buf') \in Nat
    BY <1>5, ReadInv DEF Inv, TypeOK
  <2> QED
    BY <2>1, <1>5, <1>6, <1>9, <1>11
<1> QED
  BY <1>6, <1>10, <1>11

(* A whole message in the buffer begins no later than the messages that    *)
(* are not read to their end, and is the one of these that it holds.       *)
LEMMA WholeMessage ==
  ASSUME Inv, pc = "special", NEW s \in 1..Len(line), Due(s),
         pos - Len(buf) < s, s <= pos
  PROVE  EndOf(line, s) = pos /\ Segment(line, s) = buf
<1>1. /\ line \in Seq(Byte) /\ pos \in 0..Len(line) /\ buf \in Seq(Byte) /\ Len(buf) <= pos
      /\ buf = SubSeq(line, pos - Len(buf) + 1, pos)
      /\ Valid(buf) /\ ValidSoFar(buf)
  BY LineType DEF Inv, TypeOK, BufferIsContiguous, Place
<1>2. PICK h \in Int : h = pos - Len(buf) + 1
  <2>1. pos - Len(buf) + 1 \in Int
    BY <1>1
  <2> QED
    BY <2>1
<1>3. h \in 1..Len(line) /\ FrameAt(line, h) /\ EndOf(line, h) = pos /\ Segment(line, h) = buf
  BY <1>1, <1>2, FrameOnLine
<1>4. h = s
  <2>1. SUFFICES ASSUME h # s PROVE FALSE
    OBVIOUS
  <2>2. h \in 1..(s - 1)
    <3>1. h \in Int /\ 1 <= h /\ Len(buf) \in Nat /\ pos \in Int
      BY <1>1, <1>2, <1>3
    <3> QED
      BY <3>1, <2>1, <1>2
  <2>3. EndOf(line, h) < s
    BY <2>2, <1>3, DueFacts DEF Undisturbed, FrameAt
  <2> QED
    BY <2>3, <1>1, <1>3
<1> QED
  BY <1>3, <1>4

LEMMA FailSafe == Inv /\ AllSafe /\ Fail => AllSafe'
<1> SUFFICES ASSUME Inv, AllSafe, Fail PROVE AllSafe'
  OBVIOUS
<1>1. line' = line /\ preferred' = preferred /\ pos' = pos /\ buf' = <<>> /\ got' = got /\ cuts' = cuts
  BY DEF Fail, call
<1>2. SUFFICES ASSUME NEW s \in 1..Len(line), Due(s), ~Returned(s), ~Cut(s)
               PROVE  pos < s /\ pos <= EndOf(line, s)
  <2>1. pos \in Nat /\ Len(<<>>) = 0
    BY DEF Inv, TypeOK
  <2> QED
    BY <1>1, <2>1, Persists DEF AllSafe, Safe
<1>3. pos - Len(buf) < s /\ pos <= EndOf(line, s)
  BY <1>2 DEF AllSafe, Safe
<1>4. ~(s <= pos)
  BY <1>2, <1>3, WholeMessage DEF Fail, Due, Taken
<1> QED
  BY <1>3, <1>4 DEF Inv, TypeOK

LEMMA ReturnSafe == Inv /\ AllSafe /\ Return => AllSafe'
<1> SUFFICES ASSUME Inv, AllSafe, Return PROVE AllSafe'
  OBVIOUS
<1>1. /\ line' = line /\ preferred' = preferred /\ pos' = pos /\ buf' = <<>> /\ cuts' = cuts
      /\ got' = Append(got, [last |-> pos, bytes |-> Handled(buf)]) /\ got \in Seq(Message)
      /\ pos \in Nat
  BY DEF Return, call, Inv, TypeOK
<1>2. \A i \in DOMAIN got : i \in DOMAIN got' /\ got'[i] = got[i]
  BY <1>1
<1>3. Len(got) + 1 \in DOMAIN got' /\ got'[Len(got) + 1].last = pos
  BY <1>1
<1> SUFFICES ASSUME NEW s \in 1..Len(line), Due(s), ~Returned(s)', ~Cut(s)
             PROVE  pos < s /\ pos <= EndOf(line, s)
  <2>1. Len(<<>>) = 0
    OBVIOUS
  <2> QED
    BY <1>1, <2>1, Persists DEF AllSafe, Safe
<1>4. ~Returned(s)
  BY <1>1, <1>2 DEF Returned
<1>5. pos - Len(buf) < s /\ pos <= EndOf(line, s)
  BY <1>4 DEF AllSafe, Safe
<1>6. ASSUME s <= pos PROVE FALSE
  <2>1. EndOf(line, s) = pos
    BY <1>5, <1>6, WholeMessage DEF Return
  <2> QED
    BY <2>1, <1>1, <1>3 DEF Returned
<1> QED
  BY <1>1, <1>5, <1>6

LEMMA GiveUpSafe == Inv /\ AllSafe /\ GiveUp => AllSafe'
<1> SUFFICES ASSUME Inv, AllSafe, GiveUp PROVE AllSafe'
  OBVIOUS
<1>1. /\ line' = line /\ preferred' = preferred /\ pos' = pos /\ buf' = <<>> /\ got' = got
      /\ cuts' = Append(cuts, pos) /\ cuts \in Seq(0..Len(line))
      /\ pos \in Nat
  BY DEF GiveUp, call, Inv, TypeOK
<1>2. \A i \in DOMAIN cuts : i \in DOMAIN cuts' /\ cuts'[i] = cuts[i]
  BY <1>1
<1>3. Len(cuts) + 1 \in DOMAIN cuts' /\ cuts'[Len(cuts) + 1] = pos
  BY <1>1
<1> SUFFICES ASSUME NEW s \in 1..Len(line), Due(s), ~Returned(s), ~Cut(s)'
             PROVE  pos < s /\ pos <= EndOf(line, s)
  <2>1. Len(<<>>) = 0
    OBVIOUS
  <2> QED
    BY <1>1, <2>1, Persists DEF AllSafe, Safe
<1>4. ~Cut(s)
  BY <1>1, <1>2 DEF Cut
<1>5. pos - Len(buf) < s /\ pos <= EndOf(line, s)
  BY <1>4 DEF AllSafe, Safe
<1>6. ASSUME s <= pos PROVE FALSE
  <2>1. pos \in s..EndOf(line, s)
    BY <1>1, <1>5, <1>6, DueFacts
  <2> QED
    BY <2>1, <1>1, <1>3 DEF Cut
<1> QED
  BY <1>1, <1>5, <1>6

LEMMA CallSafe == Inv /\ AllSafe /\ Call => AllSafe'
<1> SUFFICES ASSUME Inv, AllSafe, Call PROVE AllSafe'
  OBVIOUS
<1>1. line' = line /\ preferred' = preferred /\ pos' = pos /\ buf' = buf /\ got' = got /\ cuts' = cuts
  BY DEF Call, call, Inv, Place
<1> QED
  BY <1>1, Persists DEF AllSafe, Safe

LEMMA InitSafe == Init => AllSafe
<1> SUFFICES ASSUME Init, NEW s \in 1..Len(line), Due(s)
             PROVE  pos - Len(buf) < s /\ pos <= EndOf(line, s)
  BY DEF AllSafe, Safe
<1>1. EndOf(line, s) \in Nat
  BY InitInv, DueFacts
<1>2. pos = 0 /\ buf = <<>> /\ Len(<<>>) = 0
  BY DEF Init
<1> QED
  BY <1>1, <1>2

LEMMA NextSafe == Inv /\ AllSafe /\ [Next]_vars => AllSafe'
<1> SUFFICES ASSUME Inv, AllSafe, [Next]_vars PROVE AllSafe'
  OBVIOUS
<1>1. CASE Call
  BY <1>1, CallSafe
<1>2. ASSUME NEW n \in 1..(Len(line) - pos), ReadSome(n) PROVE AllSafe'
  BY <1>2, ReadSafe
<1>3. CASE Fail
  BY <1>3, FailSafe
<1>4. CASE Return
  BY <1>4, ReturnSafe
<1>5. CASE ReadNothing \/ Alarm
  BY <1>5, GiveUpSafe DEF ReadNothing, Alarm
<1>6. CASE UNCHANGED vars
  BY <1>6, Persists DEF vars, AllSafe, Safe
<1> QED
  BY <1>1, <1>2, <1>3, <1>4, <1>5, <1>6 DEF Next, Receive

LEMMA SafeSuffices == Inv /\ AllSafe => NothingSkipped
<1> SUFFICES ASSUME Inv, AllSafe, pc = "idle", NEW s \in 1..Len(line),
                    Due(s), EndOf(line, s) <= pos, ~Cut(s)
             PROVE  Returned(s)
  BY DEF NothingSkipped
<1>1. buf = <<>> /\ Len(<<>>) = 0 /\ pos \in Nat
  BY DEF Inv, TypeOK, Place
<1>2. ~(pos - Len(buf) < s)
  BY <1>1, DueFacts
<1> QED
  BY <1>2 DEF AllSafe, Safe

(* However the line is damaged and cut into pieces, receive_message skips  *)
(* no message that is due, and that special_handling takes: noise and the  *)
(* bytes add() drops never take one along that no earlier header reaches   *)
(* into.                                                                   *)
THEOREM NothingSkippedHolds == Spec => []NothingSkipped
<1>1. Spec => []AllSafe
  BY SpecInv, InitSafe, NextSafe, PTL DEF Spec
<1> QED
  BY <1>1, SpecInv, SafeSuffices, PTL
============================================================================
