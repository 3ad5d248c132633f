-------------------------- MODULE UbxMessageProofs --------------------------
(* The proofs about messages of the u-blox receiver: for every type of the *)
(* table, every length, and any number of records and edits.  First what   *)
(* the folds of UbxMessage make of one and of two blocks, then what every  *)
(* descriptor has in common (Layout), then the invariant and its steps.    *)
EXTENDS UbxMessage, FiniteSetTheorems, WellFoundedInduction, TLAPS

(* The sets over which the folds of one and two blocks run.                *)
LEMMA Maxima == Max({1}) = 1 /\ Max({2}) = 2 /\ Max({1, 2}) = 2
BY DEF Max

LEMMA Apart ==
  /\ {1, 2} \ {2} = {1} /\ {1} \ {1} = {} /\ {2} \ {2} = {} /\ {1, 2} # {1} /\ {1, 2} # {2}
  /\ {1} # {2} /\ {1} # {} /\ {2} # {} /\ {1, 2} # {}
OBVIOUS

LEMMA Subsets ==
  /\ \A s \in SUBSET (1..1) : s = {} \/ s = {1}
  /\ \A s \in SUBSET (1..2) : s = {} \/ s = {1} \/ s = {2} \/ s = {1, 2}
<1>1. ASSUME NEW s \in SUBSET (1..2) PROVE s = {} \/ s = {1} \/ s = {2} \/ s = {1, 2}
  <2>1. \A i \in s : i = 1 \/ i = 2
    OBVIOUS
  <2>2. 1 \in s /\ 2 \in s => s = {1, 2}
    BY <2>1
  <2>3. 1 \in s /\ 2 \notin s => s = {1}
    BY <2>1
  <2>4. 1 \notin s /\ 2 \in s => s = {2}
    BY <2>1
  <2>5. 1 \notin s /\ 2 \notin s => s = {}
    BY <2>1
  <2> QED
    BY <2>2, <2>3, <2>4, <2>5
<1>2. ASSUME NEW s \in SUBSET (1..1) PROVE s = {} \/ s = {1}
  <2>1. \A i \in s : i = 1
    OBVIOUS
  <2> QED
    BY <2>1, Zenon
<1> QED
  BY <1>1, <1>2

----------------------------------------------------------------------------
(* Sizes and names of one block and of two: the fold is a function on the  *)
(* sets of places, so there is one line for each set.                      *)
LEMMA SizeOfOne ==
  ASSUME NEW b1, b1.size \in Nat
  PROVE  SizeOf(<<b1>>) = b1.size
<1> DEFINE b == <<b1>>
           step(s, r) == IF s = {} THEN 0 ELSE r[s \ {Max(s)}] + (b[Max(s)]).size
           good(g) == g = [s \in SUBSET (1..1) |-> step(s, g)]
           it == CHOOSE g : good(g)
<1>1. SizeOf(b) = it[1..1]
  <2>1. DOMAIN b = 1..1
    OBVIOUS
  <2> QED
    BY <2>1 DEF SizeOf, FoldLeft, MapThenFoldSet
<1>2. /\ {} \in SUBSET (1..1)
      /\ {1} \in SUBSET (1..1)
      /\ 1..1 = {1}
  OBVIOUS
<1>3. \A s \in SUBSET (1..1) : s = {} \/ s = {1}
  BY Subsets
<1>4. {1} \ {1} = {} /\ {1} # {}
  OBVIOUS
<1>5. b[1] = b1
  OBVIOUS
<1>6. ASSUME NEW r
      PROVE  /\ step({}, r) = 0
             /\ step({1}, r) = r[{}] + b1.size
  <2> HIDE DEF b
  <2> QED
    BY <1>4, <1>5, Maxima, Zenon
<1>7. \E w : good(w)
  <2>1. PICK w0 : w0 = 0
    OBVIOUS
  <2>2. PICK w1 : w1 = w0 + b1.size
    OBVIOUS
  <2>3. PICK w : w = [s \in SUBSET (1..1) |-> IF s = {} THEN w0 ELSE w1]
    OBVIOUS
  <2>4. w[{}] = w0 /\ w[{1}] = w1
    BY <1>2, <1>4, <2>3, Zenon
  <2>5. \A s \in SUBSET (1..1) : w[s] = step(s, w)
    <3> HIDE DEF step
    <3> QED
      BY <1>3, <1>6, <2>1, <2>2, <2>4, Zenon
  <2>6. good(w)
    <3> HIDE DEF step
    <3> QED
      BY <2>3, <2>5
  <2> QED
    BY <2>6
<1>8. PICK r : r = it
  OBVIOUS
<1>9. good(r)
  <2> HIDE DEF good
  <2> QED
    BY <1>7, <1>8
<1>10. \A s \in SUBSET (1..1) : r[s] = step(s, r)
  <2> HIDE DEF step
  <2> QED
    BY <1>9
<1>11. r[{}] = 0 /\ r[{1}] = r[{}] + b1.size
  <2> HIDE DEF it, good, step, b
  <2> QED
    BY <1>2, <1>6, <1>10, Zenon
<1>12. SizeOf(b) = r[{1}]
  BY <1>1, <1>2, <1>8, Zenon
<1> QED
  <2> HIDE DEF it, good, step
  <2> QED
    BY <1>11, <1>12

LEMMA SizeOfTwo ==
  ASSUME NEW b1, NEW b2, b1.size \in Nat, b2.size \in Nat
  PROVE  SizeOf(<<b1, b2>>) = b1.size + b2.size
<1> DEFINE b == <<b1, b2>>
           step(s, r) == IF s = {} THEN 0 ELSE r[s \ {Max(s)}] + (b[Max(s)]).size
           good(g) == g = [s \in SUBSET (1..2) |-> step(s, g)]
           it == CHOOSE g : good(g)
<1>1. SizeOf(b) = it[1..2]
  <2>1. DOMAIN b = 1..2
    OBVIOUS
  <2> QED
    BY <2>1 DEF SizeOf, FoldLeft, MapThenFoldSet
<1>2. /\ {} \in SUBSET (1..2)
      /\ {1} \in SUBSET (1..2)
      /\ {2} \in SUBSET (1..2)
      /\ {1, 2} \in SUBSET (1..2)
      /\ 1..2 = {1, 2}
  OBVIOUS
<1>3. \A s \in SUBSET (1..2) : s = {} \/ s = {1} \/ s = {2} \/ s = {1, 2}
  BY Subsets
<1>4. /\ {1, 2} \ {2} = {1} /\ {1} \ {1} = {} /\ {2} \ {2} = {} /\ {1, 2} # {1} /\ {1, 2} # {2}
      /\ {1} # {2} /\ {1} # {} /\ {2} # {} /\ {1, 2} # {}
  BY Apart
<1>5. b[1] = b1 /\ b[2] = b2
  OBVIOUS
<1>6. ASSUME NEW r
      PROVE  /\ step({}, r) = 0
             /\ step({1}, r) = r[{}] + b1.size
             /\ step({2}, r) = r[{}] + b2.size
             /\ step({1, 2}, r) = r[{1}] + b2.size
  <2> HIDE DEF b
  <2> QED
    BY <1>4, <1>5, Maxima, Zenon
<1>7. \E w : good(w)
  <2>1. PICK w0 : w0 = 0
    OBVIOUS
  <2>2. PICK w1 : w1 = w0 + b1.size
    OBVIOUS
  <2>3. PICK w2 : w2 = w0 + b2.size
    OBVIOUS
  <2>4. PICK w3 : w3 = w1 + b2.size
    OBVIOUS
  <2>5. PICK w : w = [s \in SUBSET (1..2) |-> IF s = {} THEN w0 ELSE IF s = {1} THEN w1
                                                 ELSE IF s = {2} THEN w2 ELSE w3]
    OBVIOUS
  <2>6. w[{}] = w0 /\ w[{1}] = w1 /\ w[{2}] = w2 /\ w[{1, 2}] = w3
    BY <1>2, <1>4, <2>5, Zenon
  <2>7. \A s \in SUBSET (1..2) : w[s] = step(s, w)
    <3> HIDE DEF step
    <3>1. w[{}] = step({}, w)
      BY <1>6, <2>1, <2>6, Zenon
    <3>2. w[{1}] = step({1}, w)
      BY <1>6, <2>2, <2>6, Zenon
    <3>3. w[{2}] = step({2}, w)
      BY <1>6, <2>3, <2>6, Zenon
    <3>4. w[{1, 2}] = step({1, 2}, w)
      BY <1>6, <2>4, <2>6, Zenon
    <3> QED
      BY <1>3, <3>1, <3>2, <3>3, <3>4, Zenon
  <2>8. good(w)
    <3> HIDE DEF step
    <3> QED
      BY <2>5, <2>7
  <2> QED
    BY <2>8
<1>8. PICK r : r = it
  OBVIOUS
<1>9. good(r)
  <2> HIDE DEF good
  <2> QED
    BY <1>7, <1>8
<1>10. \A s \in SUBSET (1..2) : r[s] = step(s, r)
  <2> HIDE DEF step
  <2> QED
    BY <1>9
<1>11. r[{}] = 0 /\ r[{1}] = r[{}] + b1.size /\ r[{2}] = r[{}] + b2.size /\ r[{1, 2}] = r[{1}] + b2.size
  <2> HIDE DEF it, good, step, b
  <2> QED
    BY <1>2, <1>6, <1>10, Zenon
<1>12. SizeOf(b) = r[{1, 2}]
  BY <1>1, <1>2, <1>8, Zenon
<1> QED
  <2> HIDE DEF it, good, step
  <2> QED
    BY <1>11, <1>12

LEMMA NamesOfOne ==
  ASSUME NEW b1, b1.names \in Seq(Nat)
  PROVE  NamesOf(<<b1>>) = b1.names
<1> DEFINE b == <<b1>>
           step(s, r) == IF s = {} THEN <<>> ELSE r[s \ {Max(s)}] \o (b[Max(s)]).names
           good(g) == g = [s \in SUBSET (1..1) |-> step(s, g)]
           it == CHOOSE g : good(g)
<1>1. NamesOf(b) = it[1..1]
  <2>1. DOMAIN b = 1..1
    OBVIOUS
  <2> QED
    BY <2>1 DEF NamesOf, FoldLeft, MapThenFoldSet
<1>2. /\ {} \in SUBSET (1..1)
      /\ {1} \in SUBSET (1..1)
      /\ 1..1 = {1}
  OBVIOUS
<1>3. \A s \in SUBSET (1..1) : s = {} \/ s = {1}
  BY Subsets
<1>4. {1} \ {1} = {} /\ {1} # {}
  OBVIOUS
<1>5. b[1] = b1
  OBVIOUS
<1>6. ASSUME NEW r
      PROVE  /\ step({}, r) = <<>>
             /\ step({1}, r) = r[{}] \o b1.names
  <2> HIDE DEF b
  <2> QED
    BY <1>4, <1>5, Maxima, Zenon
<1>7. \E w : good(w)
  <2>1. PICK w0 : w0 = <<>>
    OBVIOUS
  <2>2. PICK w1 : w1 = w0 \o b1.names
    OBVIOUS
  <2>3. PICK w : w = [s \in SUBSET (1..1) |-> IF s = {} THEN w0 ELSE w1]
    OBVIOUS
  <2>4. w[{}] = w0 /\ w[{1}] = w1
    BY <1>2, <1>4, <2>3, Zenon
  <2>5. \A s \in SUBSET (1..1) : w[s] = step(s, w)
    <3> HIDE DEF step
    <3> QED
      BY <1>3, <1>6, <2>1, <2>2, <2>4, Zenon
  <2>6. good(w)
    <3> HIDE DEF step
    <3> QED
      BY <2>3, <2>5
  <2> QED
    BY <2>6
<1>8. PICK r : r = it
  OBVIOUS
<1>9. good(r)
  <2> HIDE DEF good
  <2> QED
    BY <1>7, <1>8
<1>10. \A s \in SUBSET (1..1) : r[s] = step(s, r)
  <2> HIDE DEF step
  <2> QED
    BY <1>9
<1>11. r[{}] = <<>> /\ r[{1}] = r[{}] \o b1.names
  <2> HIDE DEF it, good, step, b
  <2> QED
    BY <1>2, <1>6, <1>10, Zenon
<1>12. NamesOf(b) = r[{1}]
  BY <1>1, <1>2, <1>8, Zenon
<1>13. <<>> \o b1.names = b1.names
  OBVIOUS
<1> QED
  <2> HIDE DEF it, good, step
  <2> QED
    BY <1>11, <1>12, <1>13, Zenon

LEMMA NamesOfTwo ==
  ASSUME NEW b1, NEW b2, b1.names \in Seq(Nat), b2.names \in Seq(Nat)
  PROVE  NamesOf(<<b1, b2>>) = b1.names \o b2.names
<1> DEFINE b == <<b1, b2>>
           step(s, r) == IF s = {} THEN <<>> ELSE r[s \ {Max(s)}] \o (b[Max(s)]).names
           good(g) == g = [s \in SUBSET (1..2) |-> step(s, g)]
           it == CHOOSE g : good(g)
<1>1. NamesOf(b) = it[1..2]
  <2>1. DOMAIN b = 1..2
    OBVIOUS
  <2> QED
    BY <2>1 DEF NamesOf, FoldLeft, MapThenFoldSet
<1>2. /\ {} \in SUBSET (1..2)
      /\ {1} \in SUBSET (1..2)
      /\ {2} \in SUBSET (1..2)
      /\ {1, 2} \in SUBSET (1..2)
      /\ 1..2 = {1, 2}
  OBVIOUS
<1>3. \A s \in SUBSET (1..2) : s = {} \/ s = {1} \/ s = {2} \/ s = {1, 2}
  BY Subsets
<1>4. /\ {1, 2} \ {2} = {1} /\ {1} \ {1} = {} /\ {2} \ {2} = {} /\ {1, 2} # {1} /\ {1, 2} # {2}
      /\ {1} # {2} /\ {1} # {} /\ {2} # {} /\ {1, 2} # {}
  BY Apart
<1>5. b[1] = b1 /\ b[2] = b2
  BY Zenon
<1>6. ASSUME NEW r
      PROVE  /\ step({}, r) = <<>>
             /\ step({1}, r) = r[{}] \o b1.names
             /\ step({2}, r) = r[{}] \o b2.names
             /\ step({1, 2}, r) = r[{1}] \o b2.names
  <2> HIDE DEF b
  <2> QED
    BY <1>4, <1>5, Maxima, Zenon
<1>7. \E w : good(w)
  <2>1. PICK w0 : w0 = <<>>
    OBVIOUS
  <2>2. PICK w1 : w1 = w0 \o b1.names
    OBVIOUS
  <2>3. PICK w2 : w2 = w0 \o b2.names
    OBVIOUS
  <2>4. PICK w3 : w3 = w1 \o b2.names
    OBVIOUS
  <2>5. PICK w : w = [s \in SUBSET (1..2) |-> IF s = {} THEN w0 ELSE IF s = {1} THEN w1
                                                 ELSE IF s = {2} THEN w2 ELSE w3]
    OBVIOUS
  <2>6. w[{}] = w0 /\ w[{1}] = w1 /\ w[{2}] = w2 /\ w[{1, 2}] = w3
    BY <1>2, <1>4, <2>5, Zenon
  <2>7. \A s \in SUBSET (1..2) : w[s] = step(s, w)
    <3> HIDE DEF step
    <3>1. w[{}] = step({}, w)
      BY <1>6, <2>1, <2>6, Zenon
    <3>2. w[{1}] = step({1}, w)
      BY <1>6, <2>2, <2>6, Zenon
    <3>3. w[{2}] = step({2}, w)
      BY <1>6, <2>3, <2>6, Zenon
    <3>4. w[{1, 2}] = step({1, 2}, w)
      BY <1>6, <2>4, <2>6, Zenon
    <3> QED
      BY <1>3, <3>1, <3>2, <3>3, <3>4, Zenon
  <2>8. good(w)
    <3> HIDE DEF step
    <3> QED
      BY <2>5, <2>7
  <2> QED
    BY <2>8
<1>8. PICK r : r = it
  OBVIOUS
<1>9. good(r)
  <2> HIDE DEF good
  <2> QED
    BY <1>7, <1>8
<1>10. \A s \in SUBSET (1..2) : r[s] = step(s, r)
  <2> HIDE DEF step
  <2> QED
    BY <1>9
<1>11. r[{}] = <<>> /\ r[{1}] = r[{}] \o b1.names /\ r[{2}] = r[{}] \o b2.names
      /\ r[{1, 2}] = r[{1}] \o b2.names
  <2> HIDE DEF it, good, step, b
  <2> QED
    BY <1>2, <1>6, <1>10, Zenon
<1>12. NamesOf(b) = r[{1, 2}]
  BY <1>1, <1>2, <1>8, Zenon
<1>13. <<>> \o b1.names = b1.names
  OBVIOUS
<1> QED
  <2> HIDE DEF it, good, step
  <2> QED
    BY <1>11, <1>12, <1>13, Zenon

(* The first blocks of a descriptor.                                       *)
LEMMA Parts ==
  \A b, c : /\ SubSeq(<<b>>, 1, 0) = <<>> /\ SubSeq(<<b>>, 1, 1) = <<b>>
            /\ SubSeq(<<b, c>>, 1, 0) = <<>> /\ SubSeq(<<b, c>>, 1, 1) = <<b>>
            /\ SubSeq(<<b, c>>, 1, 2) = <<b, c>>
<1> TAKE b, c
<1>1. \A S : \A s \in Seq(S) : SubSeq(s, 1, Len(s)) = s /\ SubSeq(s, 1, 0) = <<>>
  OBVIOUS
<1>2. PICK S : S = {b, c}
  OBVIOUS
<1>3. \A x, y \in S : <<x, y>> \in Seq(S) /\ <<x>> \in Seq(S)
  OBVIOUS
<1>4. <<b, c>> \in Seq(S) /\ Len(<<b, c>>) = 2 /\ <<b>> \in Seq(S) /\ Len(<<b>>) = 1
  BY <1>2, <1>3
<1>5. SubSeq(<<b, c>>, 1, 1) = <<b>>
  <2>1. PICK s \in Seq(S) : s = <<b, c>>
    BY <1>4
  <2>2. Len(s) = 2 /\ s[1] = b
    BY <2>1
  <2>3. /\ SubSeq(s, 1, 1) \in Seq(S) /\ Len(SubSeq(s, 1, 1)) = 1
        /\ SubSeq(s, 1, 1)[1] = s[1]
    BY <2>2
  <2>4. \A q, r \in Seq(S) : Len(q) = 1 /\ Len(r) = 1 /\ q[1] = r[1] => q = r
    OBVIOUS
  <2>5. <<b>>[1] = b
    OBVIOUS
  <2> QED
    BY <1>4, <2>1, <2>2, <2>3, <2>4, <2>5
<1>6. SubSeq(<<b>>, 1, 0) = <<>> /\ SubSeq(<<b, c>>, 1, 0) = <<>>
  BY <1>1, <1>4
<1>7. SubSeq(<<b>>, 1, 1) = <<b>> /\ SubSeq(<<b, c>>, 1, 2) = <<b, c>>
  BY <1>1, <1>4
<1> QED
  BY <1>5, <1>6, <1>7

LEMMA OfNone == SizeOf(<<>>) = 0 /\ NamesOf(<<>>) = <<>>
<1> DEFINE size(s, r) == IF s = {} THEN 0 ELSE r[s \ {Max(s)}] + (<<>>[Max(s)]).size
           names(s, r) == IF s = {} THEN <<>> ELSE r[s \ {Max(s)}] \o (<<>>[Max(s)]).names
           sizes == CHOOSE g : g = [s \in SUBSET {} |-> size(s, g)]
           named == CHOOSE g : g = [s \in SUBSET {} |-> names(s, g)]
<1>1. DOMAIN <<>> = {}
  OBVIOUS
<1>2. SizeOf(<<>>) = sizes[{}] /\ NamesOf(<<>>) = named[{}]
  BY <1>1 DEF SizeOf, NamesOf, FoldLeft, MapThenFoldSet
<1>3. sizes[{}] = 0
  <2>1. \E g : g = [s \in SUBSET {} |-> size(s, g)]
    <3>1. PICK g : g = [s \in SUBSET {} |-> 0]
      OBVIOUS
    <3>2. g = [s \in SUBSET {} |-> size(s, g)]
      BY <3>1
    <3> QED
      BY <3>2
  <2>2. PICK g : g = sizes
    OBVIOUS
  <2>3. g = [s \in SUBSET {} |-> size(s, g)]
    <3> HIDE DEF size
    <3> QED
      BY <2>1, <2>2
  <2> QED
    BY <2>2, <2>3
<1>4. named[{}] = <<>>
  <2>1. \E g : g = [s \in SUBSET {} |-> names(s, g)]
    <3>1. PICK g : g = [s \in SUBSET {} |-> <<>>]
      OBVIOUS
    <3>2. g = [s \in SUBSET {} |-> names(s, g)]
      BY <3>1
    <3> QED
      BY <3>2
  <2>2. PICK g : g = named
    OBVIOUS
  <2>3. g = [s \in SUBSET {} |-> names(s, g)]
    <3> HIDE DEF names
    <3> QED
      BY <2>1, <2>2
  <2> QED
    BY <2>2, <2>3
<1> QED
  BY <1>2, <1>3, <1>4

(* What the first n blocks of a descriptor make.                           *)
SizeUpTo(D, n) == SizeOf(Blocks(D, n))
NamesUpTo(D, n) == NamesOf(Blocks(D, n))

LEMMA OneBlock ==
  ASSUME NEW D, NEW b, D.blocks = <<b>>, b.size \in Nat, b.names \in Seq(Nat)
  PROVE  /\ Len(D.blocks) = 1 /\ Blocks(D, 1) = D.blocks
         /\ SizeUpTo(D, 0) = 0 /\ SizeUpTo(D, 1) = b.size
         /\ NamesUpTo(D, 0) = <<>> /\ NamesUpTo(D, 1) = b.names
<1>1. Len(<<b>>) = 1 /\ SubSeq(<<b>>, 1, 0) = <<>> /\ SubSeq(<<b>>, 1, 1) = <<b>>
  BY Parts, Zenon
<1>2. Len(D.blocks) = 1 /\ Blocks(D, 0) = <<>> /\ Blocks(D, 1) = <<b>>
  BY <1>1 DEF Blocks
<1> QED
  BY <1>2, OfNone, SizeOfOne, NamesOfOne DEF SizeUpTo, NamesUpTo

LEMMA TwoBlocks ==
  ASSUME NEW D, NEW b, NEW c, D.blocks = <<b, c>>,
         b.size \in Nat, c.size \in Nat, b.names \in Seq(Nat), c.names \in Seq(Nat)
  PROVE  /\ Len(D.blocks) = 2 /\ Blocks(D, 2) = D.blocks
         /\ SizeUpTo(D, 0) = 0 /\ SizeUpTo(D, 1) = b.size /\ SizeUpTo(D, 2) = b.size + c.size
         /\ NamesUpTo(D, 0) = <<>> /\ NamesUpTo(D, 1) = b.names
         /\ NamesUpTo(D, 2) = b.names \o c.names
<1>1. /\ Len(<<b, c>>) = 2 /\ SubSeq(<<b, c>>, 1, 0) = <<>>
      /\ SubSeq(<<b, c>>, 1, 1) = <<b>> /\ SubSeq(<<b, c>>, 1, 2) = <<b, c>>
  BY Parts, Zenon
<1>2. /\ Len(D.blocks) = 2 /\ Blocks(D, 0) = <<>> /\ Blocks(D, 1) = <<b>> /\ Blocks(D, 2) = <<b, c>>
  BY <1>1 DEF Blocks
<1> QED
  BY <1>2, OfNone, SizeOfOne, NamesOfOne, SizeOfTwo, NamesOfTwo DEF SizeUpTo, NamesUpTo

(* The last place of every name.                                           *)
HasLast(s) ==
  \A name \in ToSet(s) :
    \E i \in DOMAIN s : s[i] = name /\ \A j \in (i + 1)..Len(s) : s[j] # name

(* What the proofs need to know of a descriptor.                           *)
Layout(D) ==
  LET L == Len(D.blocks) IN
  /\ L \in 1..2 /\ Blocks(D, L) = D.blocks
  /\ SizeUpTo(D, 0) = 0 /\ NamesUpTo(D, 0) = <<>>
  /\ \A n \in 0..L : /\ SizeUpTo(D, n) \in Nat /\ NamesUpTo(D, n) \in Seq(Nat)
                     /\ Len(NamesUpTo(D, n)) \in 0..37 /\ HasLast(NamesUpTo(D, n))
                     /\ \A i \in 1..Len(NamesUpTo(D, n)) : NamesUpTo(D, n)[i] = NamesUpTo(D, L)[i]
  /\ \A m, n \in 0..L : m < n => SizeUpTo(D, m) < SizeUpTo(D, n)
  /\ D.size2 \in Nat /\ D.count \in Nat /\ (D.size2 = 0 <=> D.count = 0)
  /\ L = 2 => D.count \in {0, Remaining}
  /\ D.count \notin {0, Remaining} => D.count \in 1..Len(NamesUpTo(D, 1))
Numbered(D) ==
  \A n \in 0..Len(D.blocks) : \A i \in 1..Len(NamesUpTo(D, n)) : NamesUpTo(D, n)[i] = i
Growing(D) ==
  LET L == Len(D.blocks) IN
  \A m, n \in 0..L : m < n =>
    /\ Len(NamesUpTo(D, m)) < Len(NamesUpTo(D, n))
    /\ NamesUpTo(D, L)[Len(NamesUpTo(D, m)) + 1] \notin ToSet(NamesUpTo(D, m))

LEMMA NumberedHasLast ==
  ASSUME NEW s \in Seq(Nat), \A i \in 1..Len(s) : s[i] = i
  PROVE  HasLast(s)
<1>1. DOMAIN s = 1..Len(s)
  OBVIOUS
<1>2. \A name \in ToSet(s) : name \in 1..Len(s)
  BY <1>1 DEF ToSet
<1>3. \A i \in 1..Len(s) : \A j \in (i + 1)..Len(s) : j \in 1..Len(s) /\ j # i
  OBVIOUS
<1>4. \A name \in ToSet(s) :
        /\ name \in DOMAIN s /\ s[name] = name
        /\ \A j \in (name + 1)..Len(s) : s[j] # name
  BY <1>1, <1>2, <1>3, Zenon
<1> QED
  BY <1>4, Zenon DEF HasLast

LEMMA LastByPlace ==
  ASSUME NEW s \in Seq(Nat)
  PROVE  HasLast(s) <=>
           \A k \in 1..Len(s) :
             \E i \in 1..Len(s) : s[i] = s[k] /\ \A j \in (i + 1)..Len(s) : s[j] # s[k]
<1>1. DOMAIN s = 1..Len(s)
  OBVIOUS
<1>2. /\ \A name \in ToSet(s) : \E k \in 1..Len(s) : s[k] = name
      /\ \A k \in 1..Len(s) : s[k] \in ToSet(s)
  BY <1>1 DEF ToSet
<1> DEFINE Q(name) == \E i \in 1..Len(s) : s[i] = name /\ \A j \in (i + 1)..Len(s) : s[j] # name
<1>3. HasLast(s) <=> \A name \in ToSet(s) : Q(name)
  BY <1>1 DEF HasLast
<1>4. (\A name \in ToSet(s) : Q(name)) <=> \A k \in 1..Len(s) : Q(s[k])
  <2> HIDE DEF Q
  <2>1. ASSUME \A name \in ToSet(s) : Q(name), NEW k \in 1..Len(s) PROVE Q(s[k])
    BY <2>1, <1>2, Zenon
  <2>2. ASSUME \A k \in 1..Len(s) : Q(s[k]), NEW name \in ToSet(s) PROVE Q(name)
    <3>1. PICK k \in 1..Len(s) : s[k] = name
      BY <1>2, Zenon
    <3>2. Q(s[k])
      BY <2>2, Zenon
    <3> QED
      BY <3>1, <3>2, Zenon
  <2> QED
    BY <2>1, <2>2, Zenon
<1> QED
  BY <1>3, <1>4, Zenon

LEMMA JoinedHasLast ==
  ASSUME NEW s \in Seq(Nat), NEW t \in Seq(Nat), \A i \in 1..Len(s) : s[i] = i,
         \A i \in 1..Len(t) : t[i] > Len(s), HasLast(t)
  PROVE  HasLast(s \o t)
<1>1. /\ s \o t \in Seq(Nat) /\ Len(s \o t) = Len(s) + Len(t)
      /\ \A i \in 1..Len(s) : (s \o t)[i] = s[i]
      /\ \A i \in 1..Len(t) : (s \o t)[i + Len(s)] = t[i]
  OBVIOUS
<1>2. PICK u \in Seq(Nat) : u = s \o t
  BY <1>1
<1>3. \A i \in 1..Len(u) : i > Len(s) => i - Len(s) \in 1..Len(t) /\ u[i] = t[i - Len(s)]
  <2> SUFFICES ASSUME NEW i \in 1..Len(u), i > Len(s)
               PROVE  i - Len(s) \in 1..Len(t) /\ u[i] = t[i - Len(s)]
    OBVIOUS
  <2>1. i - Len(s) \in 1..Len(t) /\ (i - Len(s)) + Len(s) = i
    BY <1>1, <1>2
  <2> QED
    BY <2>1, <1>1, <1>2
<1> SUFFICES ASSUME NEW k \in 1..Len(u)
             PROVE  \E i \in 1..Len(u) : u[i] = u[k] /\ \A j \in (i + 1)..Len(u) : u[j] # u[k]
  BY <1>2, LastByPlace
<1>4. CASE k <= Len(s)
  <2>1. u[k] = k
    BY <1>1, <1>2, <1>4
  <2>2. \A j \in (k + 1)..Len(u) : u[j] # k
    <3> SUFFICES ASSUME NEW j \in (k + 1)..Len(u) PROVE u[j] # k
      OBVIOUS
    <3>1. CASE j <= Len(s)
      <4>1. j \in 1..Len(s)
        BY <3>1
      <4>2. u[j] = j
        BY <4>1, <1>1, <1>2
      <4> QED
        BY <4>2
    <3>2. CASE j > Len(s)
      <4>1. j - Len(s) \in 1..Len(t) /\ u[j] = t[j - Len(s)]
        BY <1>3, <3>2
      <4>2. u[j] > Len(s)
        BY <4>1
      <4> QED
        BY <4>2, <1>4
    <3> QED
      BY <3>1, <3>2
  <2> QED
    BY <2>1, <2>2
<1>5. CASE k > Len(s)
  <2>1. PICK l \in 1..Len(t) : l = k - Len(s)
    BY <1>3, <1>5
  <2>2. u[k] = t[l]
    BY <1>3, <1>5, <2>1
  <2>3. PICK i \in 1..Len(t) : t[i] = t[l] /\ \A j \in (i + 1)..Len(t) : t[j] # t[l]
    BY LastByPlace
  <2>4. i + Len(s) \in 1..Len(u) /\ u[i + Len(s)] = u[k]
    BY <1>1, <1>2, <2>2, <2>3
  <2>5. \A j \in (i + Len(s) + 1)..Len(u) : u[j] # u[k]
    <3> SUFFICES ASSUME NEW j \in (i + Len(s) + 1)..Len(u) PROVE u[j] # u[k]
      OBVIOUS
    <3>1. j \in 1..Len(u) /\ j > Len(s) /\ j - Len(s) >= i + 1
      OBVIOUS
    <3>2. j - Len(s) \in 1..Len(t) /\ u[j] = t[j - Len(s)]
      BY <1>3, <3>1
    <3>3. j - Len(s) \in (i + 1)..Len(t)
      BY <3>1, <3>2
    <3> QED
      BY <2>2, <2>3, <3>2, <3>3
  <2> QED
    BY <2>4, <2>5
<1> QED
  BY <1>4, <1>5

----------------------------------------------------------------------------
(* A descriptor of one block, and of two, is laid out as Layout says.      *)
LEMMA NoNames == <<>> \in Seq(Nat) /\ Len(<<>>) = 0 /\ HasLast(<<>>) /\ ToSet(<<>>) = {}
<1>1. <<>> \in Seq(Nat) /\ Len(<<>>) = 0 /\ DOMAIN <<>> = {}
  OBVIOUS
<1> QED
  BY <1>1 DEF HasLast, ToSet

LEMMA Sums ==
  \A p, q \in Nat \ {0} :
    /\ p + q \in Nat /\ p < p + q /\ 0 < p /\ 0 < p + q /\ 1 \in 1..q /\ 1 + p = p + 1
    /\ p + q <= 37 => p \in 0..37 /\ p + q \in 0..37
OBVIOUS

LEMMA OneLayout ==
  ASSUME NEW D, NEW b, NEW s \in Seq(Nat), D.blocks = <<b>>, b.size \in Nat \ {0},
         b.names = s, Len(s) \in 0..37, \A i \in 1..Len(s) : s[i] = i,
         D.size2 \in Nat, D.count \in Nat, D.size2 = 0 <=> D.count = 0,
         D.count # 0 => D.count \in 1..Len(s)
  PROVE  Layout(D) /\ Numbered(D) /\ (Len(s) > 0 => Growing(D))
<1>1. /\ Len(D.blocks) = 1 /\ Blocks(D, 1) = D.blocks
      /\ SizeUpTo(D, 0) = 0 /\ SizeUpTo(D, 1) = b.size
      /\ NamesUpTo(D, 0) = <<>> /\ NamesUpTo(D, 1) = s
  BY OneBlock
<1>2. HasLast(s)
  BY NumberedHasLast
<1>3. \A n \in 0..1 : n = 0 \/ n = 1
  OBVIOUS
<1>4. PICK e \in Seq(Nat) : e = <<>> /\ Len(e) = 0 /\ HasLast(e) /\ ToSet(e) = {}
  BY NoNames, Zenon
<1>5. NamesUpTo(D, 0) = e /\ NamesUpTo(D, 1) = s
  BY <1>1, <1>4
<1>6. Layout(D)
  <2>1. \A n \in 0..1 :
          /\ SizeUpTo(D, n) \in Nat /\ NamesUpTo(D, n) \in Seq(Nat)
          /\ Len(NamesUpTo(D, n)) \in 0..37 /\ HasLast(NamesUpTo(D, n))
          /\ \A i \in 1..Len(NamesUpTo(D, n)) : NamesUpTo(D, n)[i] = NamesUpTo(D, 1)[i]
    <3>1. SizeUpTo(D, 0) \in Nat /\ SizeUpTo(D, 1) \in Nat
      BY <1>1
    <3>2. Len(e) \in 0..37 /\ \A i \in 1..Len(e) : e[i] = s[i]
      BY <1>4
    <3>3. /\ \A i \in 1..Len(NamesUpTo(D, 0)) : NamesUpTo(D, 0)[i] = NamesUpTo(D, 1)[i]
          /\ NamesUpTo(D, 0) \in Seq(Nat) /\ Len(NamesUpTo(D, 0)) \in 0..37 /\ HasLast(NamesUpTo(D, 0))
      BY <1>4, <1>5, <3>2, Zenon
    <3>4. /\ \A i \in 1..Len(NamesUpTo(D, 1)) : NamesUpTo(D, 1)[i] = NamesUpTo(D, 1)[i]
          /\ NamesUpTo(D, 1) \in Seq(Nat) /\ Len(NamesUpTo(D, 1)) \in 0..37 /\ HasLast(NamesUpTo(D, 1))
      BY <1>2, <1>5, Zenon
    <3> QED
      BY <1>3, <3>1, <3>3, <3>4, Zenon
  <2>2. \A m, n \in 0..1 : m < n => SizeUpTo(D, m) < SizeUpTo(D, n)
    BY <1>1, <1>3
  <2> QED
    BY <1>1, <2>1, <2>2 DEF Layout
<1>7. Numbered(D)
  BY <1>1, <1>3, <1>4, <1>5 DEF Numbered
<1>8. ASSUME Len(s) > 0 PROVE Growing(D)
  <2>1. \A m, n \in 0..1 : m < n => m = 0 /\ n = 1
    BY <1>3
  <2> QED
    BY <2>1, <1>1, <1>4, <1>5, <1>8 DEF Growing
<1> QED
  BY <1>6, <1>7, <1>8

(* The fields of two blocks: those of the second have names of their own.  *)
Stacked(s, t) ==
  /\ Len(s) > 0 /\ Len(t) > 0 /\ Len(s) + Len(t) <= 37
  /\ \A i \in 1..Len(s) : s[i] = i
  /\ \A i \in 1..Len(t) : t[i] > Len(s)
  /\ HasLast(t)
Onwards(s, t) == \A i \in 1..Len(t) : t[i] = Len(s) + i

LEMMA TwoLayout ==
  ASSUME NEW D, NEW b, NEW c, NEW s \in Seq(Nat), NEW t \in Seq(Nat), Stacked(s, t),
         D.blocks = <<b, c>>, b.size \in Nat \ {0}, c.size \in Nat \ {0}, b.names = s, c.names = t,
         D.size2 \in Nat, D.count \in {0, Remaining}, D.size2 = 0 <=> D.count = 0
  PROVE  Layout(D) /\ Growing(D) /\ (Onwards(s, t) => Numbered(D))
<1> SUFFICES ASSUME Len(s) > 0, Len(t) > 0, Len(s) + Len(t) <= 37, \A i \in 1..Len(s) : s[i] = i,
                    \A i \in 1..Len(t) : t[i] > Len(s), HasLast(t)
             PROVE  Layout(D) /\ Growing(D) /\ (Onwards(s, t) => Numbered(D))
  BY DEF Stacked
<1>1. /\ Len(D.blocks) = 2 /\ Blocks(D, 2) = D.blocks
      /\ SizeUpTo(D, 0) = 0 /\ SizeUpTo(D, 1) = b.size /\ SizeUpTo(D, 2) = b.size + c.size
      /\ NamesUpTo(D, 0) = <<>> /\ NamesUpTo(D, 1) = s /\ NamesUpTo(D, 2) = s \o t
  <2>1. b.size \in Nat /\ c.size \in Nat /\ b.names \in Seq(Nat) /\ c.names \in Seq(Nat)
    OBVIOUS
  <2> QED
    BY <2>1, TwoBlocks
<1>2. Len(s) \in Nat /\ Len(t) \in Nat
  OBVIOUS
<1>3. /\ 0 < Len(s) /\ 0 < Len(s) + Len(t) /\ Len(s) < Len(s) + Len(t)
      /\ Len(s) \in 0..37 /\ Len(s) + Len(t) \in 0..37 /\ 1 \in 1..Len(t) /\ 1 + Len(s) = Len(s) + 1
  <2>1. Len(s) \in Nat \ {0} /\ Len(t) \in Nat \ {0}
    BY <1>2
  <2> QED
    BY <2>1, Sums
<1>4. PICK e \in Seq(Nat) : e = <<>> /\ Len(e) = 0 /\ HasLast(e) /\ ToSet(e) = {}
  BY NoNames, Zenon
<1>5. PICK u \in Seq(Nat) :
        /\ u = s \o t /\ Len(u) = Len(s) + Len(t)
        /\ \A i \in 1..Len(s) : u[i] = s[i]
        /\ \A i \in 1..Len(t) : u[i + Len(s)] = t[i]
  <2>1. /\ s \o t \in Seq(Nat) /\ Len(s \o t) = Len(s) + Len(t)
        /\ \A i \in 1..Len(s) : (s \o t)[i] = s[i]
        /\ \A i \in 1..Len(t) : (s \o t)[i + Len(s)] = t[i]
    OBVIOUS
  <2> QED
    BY <2>1
<1>6. HasLast(s) /\ HasLast(u)
  BY <1>5, NumberedHasLast, JoinedHasLast
<1>7. \A n \in 0..2 : n = 0 \/ n = 1 \/ n = 2
  OBVIOUS
<1>8. NamesUpTo(D, 0) = e /\ NamesUpTo(D, 1) = s /\ NamesUpTo(D, 2) = u
  BY <1>1, <1>4, <1>5
<1>9. /\ Len(e) \in 0..37 /\ Len(s) \in 0..37 /\ Len(u) \in 0..37 /\ Len(s) < Len(u) /\ 0 < Len(s)
      /\ \A i \in 1..Len(e) : e[i] = u[i]
  <2>4. Len(s) \in 0..37 /\ Len(u) \in 0..37 /\ Len(s) < Len(u) /\ 0 < Len(s)
    BY <1>3, <1>5, Zenon
  <2>5. Len(e) \in 0..37 /\ \A i \in 1..Len(e) : e[i] = u[i]
    BY <1>4
  <2> QED
    BY <2>4, <2>5
<1>10. Layout(D)
  <2>1. D.count \in Nat /\ Len(D.blocks) \in 1..2
    BY <1>1 DEF Remaining
  <2>2. b.size + c.size \in Nat /\ b.size < b.size + c.size /\ 0 < b.size
    BY Sums, Zenon
  <2>3. \A m, n \in 0..2 : m < n => SizeUpTo(D, m) < SizeUpTo(D, n)
    BY <1>1, <1>7, <2>2
  <2>4. \A n \in 0..2 : SizeUpTo(D, n) \in Nat
    BY <1>1, <1>7, <2>2
  <2>5. \A n \in 0..2 :
          /\ NamesUpTo(D, n) \in Seq(Nat)
          /\ Len(NamesUpTo(D, n)) \in 0..37 /\ HasLast(NamesUpTo(D, n))
          /\ \A i \in 1..Len(NamesUpTo(D, n)) : NamesUpTo(D, n)[i] = NamesUpTo(D, 2)[i]
    <3>1. \A i \in 1..Len(s) : s[i] = u[i]
      BY <1>5, Zenon
    <3>2. \A n \in 0..2 : NamesUpTo(D, n) = e \/ NamesUpTo(D, n) = s \/ NamesUpTo(D, n) = u
      BY <1>7, <1>8, Zenon
    <3>3. \A x \in {e, s, u} : /\ x \in Seq(Nat) /\ Len(x) \in 0..37 /\ HasLast(x)
                              /\ \A i \in 1..Len(x) : x[i] = u[i]
      BY <3>1, <1>4, <1>6, <1>9, Zenon
    <3> QED
      BY <3>2, <3>3, <1>8, Zenon
  <2> QED
    BY <1>1, <2>1, <2>3, <2>4, <2>5 DEF Layout
<1>11. Growing(D)
  <2>1. u[Len(s) + 1] \notin ToSet(s)
    <3>1. 1 \in 1..Len(t) /\ 1 + Len(s) = Len(s) + 1
      BY <1>3
    <3>2. u[Len(s) + 1] > Len(s)
      BY <3>1, <1>5
    <3>3. \A i \in DOMAIN s : s[i] <= Len(s)
      <4>1. DOMAIN s = 1..Len(s) /\ \A i \in 1..Len(s) : i <= Len(s)
        BY <1>2
      <4> QED
        BY <4>1, Zenon
    <3>4. \A x \in ToSet(s) : x \in Nat /\ x <= Len(s)
      BY <3>3 DEF ToSet
    <3> QED
      BY <3>2, <3>4
  <2>2. \A m, n \in 0..2 : m < n => (m = 0 /\ n = 1) \/ (m = 0 /\ n = 2) \/ (m = 1 /\ n = 2)
    BY <1>7
  <2>3. /\ Len(NamesUpTo(D, 0)) = 0 /\ Len(NamesUpTo(D, 1)) = Len(s) /\ Len(NamesUpTo(D, 2)) = Len(u)
        /\ ToSet(NamesUpTo(D, 0)) = {}
    BY <1>4, <1>8
  <2>4. PICK n0, n1, n2 : n0 = NamesUpTo(D, 0) /\ n1 = NamesUpTo(D, 1) /\ n2 = NamesUpTo(D, 2)
    OBVIOUS
  <2>5. /\ Len(n0) < Len(n1) /\ Len(n0) < Len(n2) /\ Len(n1) < Len(n2)
        /\ n2[Len(n0) + 1] \notin ToSet(n0) /\ n2[Len(n1) + 1] \notin ToSet(n1)
    <3>1. n0 = e /\ n1 = s /\ n2 = u
      BY <2>4, <1>8
    <3>2. Len(e) < Len(s) /\ Len(e) < Len(u) /\ Len(s) < Len(u)
      BY <1>3, <1>4, <1>5, Zenon
    <3> QED
      BY <3>1, <3>2, <2>1, <1>4, Zenon
  <2> QED
    BY <1>1, <2>2, <2>4, <2>5 DEF Growing
<1>12. ASSUME Onwards(s, t)
       PROVE  Numbered(D)
  <2>1. \A i \in 1..Len(u) : u[i] = i
    <3> SUFFICES ASSUME NEW i \in 1..Len(u) PROVE u[i] = i
      OBVIOUS
    <3>1. CASE i <= Len(s)
      <4>1. i \in 1..Len(s)
        BY <3>1
      <4> QED
        BY <4>1, <1>5
    <3>2. CASE i > Len(s)
      <4>1. i - Len(s) \in 1..Len(t) /\ (i - Len(s)) + Len(s) = i
        BY <3>2, <1>5
      <4>2. t[i - Len(s)] = i
        <5>1. PICK j \in 1..Len(t) : j = i - Len(s)
          BY <4>1, Zenon
        <5>2. t[j] = Len(s) + j
          BY <1>12, Zenon DEF Onwards
        <5> QED
          BY <5>1, <5>2
      <4> QED
        BY <4>1, <4>2, <1>5
    <3> QED
      BY <3>1, <3>2
  <2>2. \A i \in 1..Len(e) : e[i] = i
    BY <1>4
  <2> QED
    BY <1>1, <1>7, <1>8, <2>1, <2>2 DEF Numbered
<1> QED
  BY <1>10, <1>11, <1>12

----------------------------------------------------------------------------
(* The table of msg_types.                                                 *)
LEMMA Names ==
  ASSUME NEW n \in Nat
  PROVE  /\ [i \in 1..n |-> i] \in Seq(Nat) /\ Len([i \in 1..n |-> i]) = n
         /\ \A i \in 1..n : [j \in 1..n |-> j][i] = i
OBVIOUS

(* A layout like any other.                                                *)
Regular(D) == Layout(D) /\ Numbered(D) /\ Growing(D)

LEMMA FlatLayout ==
  ASSUME NEW size \in Nat \ {0}, NEW n \in 1..37
  PROVE  Regular(Flat(size, n))
<1>1. PICK s \in Seq(Nat) : s = [i \in 1..n |-> i] /\ Len(s) = n /\ \A i \in 1..n : s[i] = i
  <2>1. n \in Nat
    OBVIOUS
  <2> QED
    BY <2>1, Names
<1>2. PICK b : b = [size |-> size, names |-> [i \in 1..n |-> i]]
  OBVIOUS
<1>3. PICK D : D = Flat(size, n)
  OBVIOUS
<1>4. /\ D.blocks = <<b>> /\ b.size \in Nat \ {0} /\ b.names = s
      /\ D.size2 = 0 /\ D.count = 0
  BY <1>1, <1>2, <1>3 DEF Flat
<1>5. Len(s) \in 0..37 /\ Len(s) > 0 /\ 0 \in Nat
  BY <1>1
<1> QED
  BY <1>1, <1>3, <1>4, <1>5, OneLayout DEF Regular

LEMMA CountedLayout ==
  ASSUME NEW size \in Nat \ {0}, NEW n \in 1..37, NEW count \in 1..n, NEW size2 \in Nat \ {0}
  PROVE  Regular(Counted(size, n, count, size2))
<1>1. PICK s \in Seq(Nat) : s = [i \in 1..n |-> i] /\ Len(s) = n /\ \A i \in 1..n : s[i] = i
  <2>1. n \in Nat
    OBVIOUS
  <2> QED
    BY <2>1, Names
<1>2. PICK b : b = [size |-> size, names |-> [i \in 1..n |-> i]]
  OBVIOUS
<1>3. PICK D : D = Counted(size, n, count, size2)
  OBVIOUS
<1>4. /\ D.blocks = <<b>> /\ b.size \in Nat \ {0} /\ b.names = s
      /\ D.size2 = size2 /\ D.count = count
  BY <1>1, <1>2, <1>3 DEF Flat, Counted
<1>5. Len(s) \in 0..37 /\ Len(s) > 0 /\ count \in Nat \ {0} /\ count \in 1..Len(s)
  BY <1>1
<1> QED
  BY <1>1, <1>3, <1>4, <1>5, OneLayout DEF Regular

FlatTypes ==
  {"ACK_ACK", "ACK_NACK", "CFG_USB", "CFG_PRT", "CFG_RST", "CFG_SBAS", "CFG_GNSS", "CFG_RATE",
   "CFG_MSG", "NAV_POSLLH", "NAV_PVT", "NAV_VELNED", "NAV_DOP", "NAV_STATUS", "NAV_SOL",
   "NAV_POSUTM", "NAV_POSECEF", "NAV_VELECEF", "NAV_TIMEGPS", "NAV_TIMEUTC", "NAV_CLOCK",
   "RXM_SFRB", "CFG_NAV5", "CFG_NAVX5", "MON_HW", "MON_HW2", "MON_SCHD", "TIM_TP", "TIM_TM2",
   "TIM_SVIN", "INF_ERR", "INF_DEBUG"}
CountedTypes == {"NAV_SBAS", "NAV_DGPS", "NAV_SVINFO", "RXM_SVSI", "RXM_RAW"}
TwoTypes == {"CFG_CFG", "RXM_EPH", "AID_EPH", "RXM_ALM", "MON_VER"}

LEMMA AllTypes == Types = FlatTypes \cup CountedTypes \cup TwoTypes \cup {"AID_AOP", "AID_ALM"}
BY DEF Types, msg_types, FlatTypes, CountedTypes, TwoTypes

LEMMA FlatTable == \A t \in FlatTypes : Regular(msg_types[t])
<1>1. /\ msg_types["ACK_ACK"] = Flat(2, 2)
      /\ msg_types["ACK_NACK"] = Flat(2, 2)
      /\ msg_types["CFG_USB"] = Flat(108, 9)
      /\ msg_types["CFG_PRT"] = Flat(20, 9)
      /\ msg_types["CFG_RST"] = Flat(4, 3)
      /\ msg_types["CFG_SBAS"] = Flat(8, 5)
      /\ msg_types["CFG_GNSS"] = Flat(12, 9)
      /\ msg_types["CFG_RATE"] = Flat(6, 3)
      /\ msg_types["CFG_MSG"] = Flat(8, 3)
      /\ msg_types["NAV_POSLLH"] = Flat(28, 7)
      /\ msg_types["NAV_PVT"] = Flat(92, 37)
      /\ msg_types["NAV_VELNED"] = Flat(36, 9)
      /\ msg_types["NAV_DOP"] = Flat(18, 8)
      /\ msg_types["NAV_STATUS"] = Flat(16, 7)
      /\ msg_types["NAV_SOL"] = Flat(52, 17)
      /\ msg_types["NAV_POSUTM"] = Flat(18, 6)
      /\ msg_types["NAV_POSECEF"] = Flat(20, 5)
      /\ msg_types["NAV_VELECEF"] = Flat(20, 5)
      /\ msg_types["NAV_TIMEGPS"] = Flat(16, 6)
      /\ msg_types["NAV_TIMEUTC"] = Flat(20, 10)
      /\ msg_types["NAV_CLOCK"] = Flat(20, 5)
      /\ msg_types["RXM_SFRB"] = Flat(42, 3)
      /\ msg_types["CFG_NAV5"] = Flat(36, 16)
      /\ msg_types["CFG_NAVX5"] = Flat(40, 24)
      /\ msg_types["MON_HW"] = Flat(68, 17)
      /\ msg_types["MON_HW2"] = Flat(28, 10)
      /\ msg_types["MON_SCHD"] = Flat(24, 9)
      /\ msg_types["TIM_TP"] = Flat(16, 6)
      /\ msg_types["TIM_TM2"] = Flat(28, 10)
      /\ msg_types["TIM_SVIN"] = Flat(28, 9)
      /\ msg_types["INF_ERR"] = Flat(18, 1)
      /\ msg_types["INF_DEBUG"] = Flat(18, 1)
  BY DEF msg_types
<1>2. /\ 2 \in Nat \ {0} /\ 4 \in Nat \ {0} /\ 6 \in Nat \ {0} /\ 8 \in Nat \ {0} /\ 12 \in Nat \ {0}
      /\ 16 \in Nat \ {0} /\ 18 \in Nat \ {0} /\ 20 \in Nat \ {0} /\ 24 \in Nat \ {0}
      /\ 28 \in Nat \ {0} /\ 36 \in Nat \ {0} /\ 40 \in Nat \ {0} /\ 42 \in Nat \ {0} /\ 52 \in Nat \ {0}
      /\ 68 \in Nat \ {0} /\ 92 \in Nat \ {0} /\ 108 \in Nat \ {0}
      /\ 1 \in 1..37 /\ 2 \in 1..37 /\ 3 \in 1..37 /\ 5 \in 1..37 /\ 6 \in 1..37 /\ 7 \in 1..37 /\ 8 \in 1..37 /\ 9 \in 1..37
      /\ 10 \in 1..37 /\ 16 \in 1..37 /\ 17 \in 1..37 /\ 24 \in 1..37 /\ 37 \in 1..37
  OBVIOUS
<1>3. /\ Regular(Flat(2, 2)) /\ Regular(Flat(4, 3)) /\ Regular(Flat(6, 3)) /\ Regular(Flat(8, 3))
      /\ Regular(Flat(8, 5)) /\ Regular(Flat(12, 9)) /\ Regular(Flat(16, 6)) /\ Regular(Flat(16, 7))
      /\ Regular(Flat(18, 1)) /\ Regular(Flat(18, 6)) /\ Regular(Flat(18, 8)) /\ Regular(Flat(20, 5))
      /\ Regular(Flat(20, 9)) /\ Regular(Flat(20, 10)) /\ Regular(Flat(24, 9)) /\ Regular(Flat(28, 7))
      /\ Regular(Flat(28, 9)) /\ Regular(Flat(28, 10)) /\ Regular(Flat(36, 9)) /\ Regular(Flat(36, 16))
      /\ Regular(Flat(40, 24)) /\ Regular(Flat(42, 3)) /\ Regular(Flat(52, 17)) /\ Regular(Flat(68, 17))
      /\ Regular(Flat(92, 37)) /\ Regular(Flat(108, 9))
  BY <1>2, FlatLayout, Zenon
<1>4. /\ Regular(msg_types["ACK_ACK"]) /\ Regular(msg_types["ACK_NACK"]) /\ Regular(msg_types["CFG_USB"])
      /\ Regular(msg_types["CFG_PRT"]) /\ Regular(msg_types["CFG_RST"]) /\ Regular(msg_types["CFG_SBAS"])
      /\ Regular(msg_types["CFG_GNSS"]) /\ Regular(msg_types["CFG_RATE"]) /\ Regular(msg_types["CFG_MSG"])
      /\ Regular(msg_types["NAV_POSLLH"]) /\ Regular(msg_types["NAV_PVT"]) /\ Regular(msg_types["NAV_VELNED"])
      /\ Regular(msg_types["NAV_DOP"]) /\ Regular(msg_types["NAV_STATUS"]) /\ Regular(msg_types["NAV_SOL"])
      /\ Regular(msg_types["NAV_POSUTM"]) /\ Regular(msg_types["NAV_POSECEF"]) /\ Regular(msg_types["NAV_VELECEF"])
      /\ Regular(msg_types["NAV_TIMEGPS"]) /\ Regular(msg_types["NAV_TIMEUTC"]) /\ Regular(msg_types["NAV_CLOCK"])
      /\ Regular(msg_types["RXM_SFRB"]) /\ Regular(msg_types["CFG_NAV5"]) /\ Regular(msg_types["CFG_NAVX5"])
      /\ Regular(msg_types["MON_HW"]) /\ Regular(msg_types["MON_HW2"]) /\ Regular(msg_types["MON_SCHD"])
      /\ Regular(msg_types["TIM_TP"]) /\ Regular(msg_types["TIM_TM2"]) /\ Regular(msg_types["TIM_SVIN"])
      /\ Regular(msg_types["INF_ERR"]) /\ Regular(msg_types["INF_DEBUG"])
  BY <1>1, <1>3, SMT
<1> QED
  BY <1>4, Zenon DEF FlatTypes

LEMMA CountedTable == \A t \in CountedTypes : Regular(msg_types[t])
<1>1. /\ msg_types["NAV_SBAS"] = Counted(12, 9, 6, 12)
      /\ msg_types["NAV_DGPS"] = Counted(16, 7, 5, 12)
      /\ msg_types["NAV_SVINFO"] = Counted(8, 4, 2, 12)
      /\ msg_types["RXM_SVSI"] = Counted(8, 4, 4, 6)
      /\ msg_types["RXM_RAW"] = Counted(8, 4, 3, 24)
  BY DEF msg_types
<1>2. /\ Regular(Counted(12, 9, 6, 12))
      /\ Regular(Counted(16, 7, 5, 12))
      /\ Regular(Counted(8, 4, 2, 12))
      /\ Regular(Counted(8, 4, 4, 6))
      /\ Regular(Counted(8, 4, 3, 24))
  <2>1. /\ 2 \in Nat \ {0} /\ 3 \in Nat \ {0} /\ 4 \in Nat \ {0} /\ 5 \in Nat \ {0} /\ 6 \in Nat \ {0} /\ 7 \in Nat \ {0}
        /\ 8 \in Nat \ {0} /\ 9 \in Nat \ {0} /\ 12 \in Nat \ {0} /\ 16 \in Nat \ {0} /\ 24 \in Nat \ {0}
        /\ 4 \in 1..37 /\ 7 \in 1..37 /\ 9 \in 1..37
        /\ 6 \in 1..9 /\ 5 \in 1..7 /\ 2 \in 1..4 /\ 4 \in 1..4 /\ 3 \in 1..4
    OBVIOUS
  <2> QED
    BY <2>1, CountedLayout, Zenon
<1>3. /\ Regular(msg_types["NAV_SBAS"])
      /\ Regular(msg_types["NAV_DGPS"])
      /\ Regular(msg_types["NAV_SVINFO"])
      /\ Regular(msg_types["RXM_SVSI"])
      /\ Regular(msg_types["RXM_RAW"])
  BY <1>1, <1>2, Zenon
<1> QED
  BY <1>3, Zenon DEF CountedTypes

(* Two blocks whose fields are numbered through.                           *)
Through(s, t) ==
  /\ s \in Seq(Nat) /\ t \in Seq(Nat) /\ Len(s) > 0 /\ Len(t) > 0 /\ Len(s) + Len(t) <= 37
  /\ \A i \in 1..Len(s) : s[i] = i
  /\ Onwards(s, t)

LEMMA ThroughIsStacked ==
  ASSUME NEW s, NEW t, Through(s, t)
  PROVE  s \in Seq(Nat) /\ t \in Seq(Nat) /\ Stacked(s, t) /\ Onwards(s, t)
<1>1. /\ s \in Seq(Nat) /\ t \in Seq(Nat) /\ Len(s) > 0 /\ Len(t) > 0 /\ Len(s) + Len(t) <= 37
      /\ \A i \in 1..Len(s) : s[i] = i
      /\ \A i \in 1..Len(t) : t[i] = Len(s) + i
  BY DEF Through, Onwards
<1>2. Len(s) \in Nat /\ Len(t) \in Nat
  BY <1>1
<1>3. \A i \in 1..Len(t) : t[i] > Len(s)
  BY <1>1, <1>2
<1>4. HasLast(t)
  <2>1. \A i, j \in 1..Len(t) : t[i] = t[j] => i = j
    BY <1>1, <1>2
  <2>2. \A k \in 1..Len(t) : \A j \in (k + 1)..Len(t) : j \in 1..Len(t) /\ j # k
    BY <1>2
  <2>3. \A k \in 1..Len(t) : \A j \in (k + 1)..Len(t) : t[j] # t[k]
    BY <2>1, <2>2, Zenon
  <2>4. \A k \in 1..Len(t) :
          \E i \in 1..Len(t) : t[i] = t[k] /\ \A j \in (i + 1)..Len(t) : t[j] # t[k]
    BY <2>3, Zenon
  <2> QED
    BY <1>1, <2>4, LastByPlace
<1> QED
  BY <1>1, <1>3, <1>4 DEF Stacked, Through

LEMMA LayeredRegular ==
  ASSUME NEW p \in Nat \ {0}, NEW q \in Nat \ {0}, NEW s, NEW t, Through(s, t),
         NEW count \in {0, Remaining}, NEW size2 \in Nat, size2 = 0 <=> count = 0
  PROVE  Regular([blocks |-> <<[size |-> p, names |-> s], [size |-> q, names |-> t]>>,
                  count |-> count, size2 |-> size2])
<1>1. PICK b : b = [size |-> p, names |-> s]
  OBVIOUS
<1>2. PICK c : c = [size |-> q, names |-> t]
  OBVIOUS
<1>3. PICK D : D = [blocks |-> <<b, c>>, count |-> count, size2 |-> size2]
  OBVIOUS
<1>4. D.blocks = <<b, c>> /\ D.count = count /\ D.size2 = size2
  BY <1>3
<1>5. b.size = p /\ b.names = s /\ c.size = q /\ c.names = t
  BY <1>1, <1>2
<1>6. s \in Seq(Nat) /\ t \in Seq(Nat) /\ Stacked(s, t) /\ Onwards(s, t)
  BY ThroughIsStacked
<1>7. Layout(D) /\ Growing(D) /\ Numbered(D)
  BY <1>4, <1>5, <1>6, TwoLayout
<1>8. Regular(D)
  BY <1>7 DEF Regular
<1> QED
  BY <1>1, <1>2, <1>3, <1>8

LEMMA Lists ==
  /\ <<1, 2>> \in Seq(Nat) /\ Len(<<1, 2>>) = 2 /\ \A i \in 1..2 : <<1, 2>>[i] = i
  /\ <<1, 2, 3>> \in Seq(Nat) /\ Len(<<1, 2, 3>>) = 3 /\ \A i \in 1..3 : <<1, 2, 3>>[i] = i
  /\ <<3>> \in Seq(Nat) /\ Len(<<3>>) = 1 /\ \A i \in 1..1 : <<3>>[i] = 2 + i
  /\ <<4>> \in Seq(Nat) /\ Len(<<4>>) = 1 /\ \A i \in 1..1 : <<4>>[i] = 3 + i
  /\ <<3, 4, 5>> \in Seq(Nat) /\ Len(<<3, 4, 5>>) = 3 /\ \A i \in 1..3 : <<3, 4, 5>>[i] = 2 + i
  /\ <<3, 4, 4>> \in Seq(Nat) /\ Len(<<3, 4, 4>>) = 3
  /\ <<3, 4, 4>>[1] = 3 /\ <<3, 4, 4>>[2] = 4 /\ <<3, 4, 4>>[3] = 4
OBVIOUS

LEMMA Pairs ==
  Through(<<1, 2, 3>>, <<4>>) /\ Through(<<1, 2>>, <<3, 4, 5>>) /\ Through(<<1, 2>>, <<3>>)
<1>1. PICK s2 \in Seq(Nat) : s2 = <<1, 2>> /\ Len(s2) = 2 /\ \A i \in 1..2 : s2[i] = i
  BY Lists
<1>2. PICK s3 \in Seq(Nat) : s3 = <<1, 2, 3>> /\ Len(s3) = 3 /\ \A i \in 1..3 : s3[i] = i
  BY Lists
<1>3. PICK t1 \in Seq(Nat) : t1 = <<3>> /\ Len(t1) = 1 /\ \A i \in 1..1 : t1[i] = 2 + i
  BY Lists
<1>4. PICK t2 \in Seq(Nat) : t2 = <<4>> /\ Len(t2) = 1 /\ \A i \in 1..1 : t2[i] = 3 + i
  BY Lists
<1>5. PICK t3 \in Seq(Nat) : t3 = <<3, 4, 5>> /\ Len(t3) = 3 /\ \A i \in 1..3 : t3[i] = 2 + i
  BY Lists
<1>6. Through(s3, t2) /\ Through(s2, t3) /\ Through(s2, t1)
  BY <1>1, <1>2, <1>3, <1>4, <1>5 DEF Through, Onwards
<1> QED
  BY <1>1, <1>2, <1>3, <1>4, <1>5, <1>6

LEMMA TwoTable == \A t \in TwoTypes : Regular(msg_types[t])
<1>1. 12 \in Nat \ {0} /\ 1 \in Nat \ {0} /\ 8 \in Nat \ {0} /\ 96 \in Nat \ {0} /\ 32 \in Nat \ {0}
      /\ 40 \in Nat \ {0} /\ 30 \in Nat \ {0} /\ 30 \in Nat /\ 0 \in Nat /\ 30 # 0 /\ Remaining # 0
  BY DEF Remaining
<1>2. Regular(msg_types["CFG_CFG"])
  <2>1. msg_types["CFG_CFG"] =
          [blocks |-> <<[size |-> 12, names |-> <<1, 2, 3>>], [size |-> 1, names |-> <<4>>]>>,
           count |-> 0, size2 |-> 0]
    BY DEF msg_types, Layered
  <2> QED
    BY <2>1, <1>1, Pairs, LayeredRegular
<1>3. Regular(msg_types["RXM_EPH"])
  <2>1. msg_types["RXM_EPH"] =
          [blocks |-> <<[size |-> 8, names |-> <<1, 2>>], [size |-> 96, names |-> <<3, 4, 5>>]>>,
           count |-> 0, size2 |-> 0]
    BY DEF msg_types, Layered
  <2> QED
    BY <2>1, <1>1, Pairs, LayeredRegular
<1>4. Regular(msg_types["AID_EPH"])
  <2>1. msg_types["AID_EPH"] =
          [blocks |-> <<[size |-> 8, names |-> <<1, 2>>], [size |-> 96, names |-> <<3, 4, 5>>]>>,
           count |-> 0, size2 |-> 0]
    BY DEF msg_types, Layered
  <2> QED
    BY <2>1, <1>1, Pairs, LayeredRegular
<1>5. Regular(msg_types["RXM_ALM"])
  <2>1. msg_types["RXM_ALM"] =
          [blocks |-> <<[size |-> 8, names |-> <<1, 2>>], [size |-> 32, names |-> <<3>>]>>,
           count |-> 0, size2 |-> 0]
    BY DEF msg_types, Layered
  <2> QED
    BY <2>1, <1>1, Pairs, LayeredRegular
<1>6. Regular(msg_types["MON_VER"])
  <2>1. msg_types["MON_VER"] =
          [blocks |-> <<[size |-> 40, names |-> <<1, 2>>], [size |-> 30, names |-> <<3>>]>>,
           count |-> Remaining, size2 |-> 30]
    BY DEF msg_types
  <2> QED
    BY <2>1, <1>1, Pairs, LayeredRegular
<1> QED
  BY <1>2, <1>3, <1>4, <1>5, <1>6 DEF TwoTypes

(* AID_AOP lists a name twice.                                             *)
LEMMA TwiceListed == Layout(msg_types["AID_AOP"]) /\ Growing(msg_types["AID_AOP"])
<1>1. PICK s \in Seq(Nat) : s = <<1, 2>> /\ Len(s) = 2 /\ \A i \in 1..2 : s[i] = i
  BY Lists
<1>2. PICK t \in Seq(Nat) : t = <<3, 4, 4>> /\ Len(t) = 3 /\ t[1] = 3 /\ t[2] = 4 /\ t[3] = 4
  BY Lists
<1>3. PICK b : b = [size |-> 48, names |-> <<1, 2>>]
  OBVIOUS
<1>4. PICK c : c = [size |-> 144, names |-> <<3, 4, 4>>]
  OBVIOUS
<1>5. PICK D : D = msg_types["AID_AOP"]
  OBVIOUS
<1>6. D.blocks = <<b, c>> /\ D.count = 0 /\ D.size2 = 0
  BY <1>3, <1>4, <1>5 DEF msg_types, Layered
<1>7. b.size = 48 /\ c.size = 144 /\ b.names = s /\ c.names = t
  BY <1>1, <1>2, <1>3, <1>4
<1>8. \A k \in 1..3 : k = 1 \/ k = 2 \/ k = 3
  OBVIOUS
<1>9. HasLast(t)
  <2>1. \A j \in 2..3 : j = 2 \/ j = 3
    OBVIOUS
  <2>2. t[1] = t[1] /\ \A j \in 2..3 : t[j] # t[1]
    BY <1>2, <2>1
  <2>3. t[3] = t[2] /\ \A j \in 4..3 : t[j] # t[3]
    BY <1>2
  <2>4. \A k \in 1..3 : \E i \in 1..3 : t[i] = t[k] /\ \A j \in (i + 1)..3 : t[j] # t[k]
    <3>1. 1 + 1 = 2 /\ 3 + 1 = 4 /\ 1 \in 1..3 /\ 2 \in 1..3 /\ 3 \in 1..3
      OBVIOUS
    <3> QED
      BY <1>8, <2>2, <2>3, <3>1
  <2>5. Len(t) = 3
    BY <1>2
  <2>6. \A k \in 1..Len(t) :
          \E i \in 1..Len(t) : t[i] = t[k] /\ \A j \in (i + 1)..Len(t) : t[j] # t[k]
    BY <2>4, <2>5, Zenon
  <2> QED
    BY <2>6, LastByPlace, Zenon
<1>10. \A i \in 1..Len(t) : t[i] > Len(s)
  BY <1>1, <1>2, <1>8
<1>11. /\ 48 \in Nat \ {0} /\ 144 \in Nat \ {0} /\ 0 \in Nat
       /\ Len(s) > 0 /\ Len(t) > 0 /\ Len(s) + Len(t) <= 37 /\ \A i \in 1..Len(s) : s[i] = i
  BY <1>1, <1>2
<1>12. Stacked(s, t)
  BY <1>9, <1>10, <1>11 DEF Stacked
<1>13. /\ b.size \in Nat \ {0} /\ c.size \in Nat \ {0} /\ D.size2 \in Nat /\ D.count \in {0, Remaining}
       /\ (D.size2 = 0 <=> D.count = 0)
  BY <1>6, <1>7, <1>11
<1> QED
  BY <1>5, <1>6, <1>7, <1>12, <1>13, TwoLayout

(* AID_ALM has no field that can be taken.                                 *)
LEMMA NothingListed ==
  LET D == msg_types["AID_ALM"] IN
  /\ Layout(D) /\ Numbered(D) /\ Len(D.blocks) = 1 /\ D.count = 0 /\ D.size2 = 0
  /\ NamesUpTo(D, 1) = <<>>
<1>1. PICK D : D = msg_types["AID_ALM"]
  OBVIOUS
<1>2. PICK b : b = [size |-> 8, names |-> <<>>]
  OBVIOUS
<1>3. D.blocks = <<b>> /\ D.count = 0 /\ D.size2 = 0
  BY <1>1, <1>2 DEF msg_types
<1>4. PICK e \in Seq(Nat) : e = <<>> /\ Len(e) = 0
  BY NoNames
<1>5. b.size = 8 /\ b.names = e
  BY <1>2, <1>4
<1>6. /\ 8 \in Nat \ {0} /\ 8 \in Nat /\ 0 \in Nat /\ Len(e) \in 0..37
      /\ \A i \in 1..Len(e) : e[i] = i
  BY <1>4
<1>7. Layout(D) /\ Numbered(D)
  BY <1>3, <1>5, <1>6, OneLayout
<1>8. Len(D.blocks) = 1 /\ NamesUpTo(D, 1) = e
  BY <1>3, <1>5, <1>6, OneBlock
<1> QED
  BY <1>1, <1>3, <1>4, <1>7, <1>8

LEMMA Table ==
  ASSUME NEW t \in Types
  PROVE  /\ Layout(msg_types[t])
         /\ t # "AID_ALM" => Growing(msg_types[t])
         /\ t # "AID_AOP" => Numbered(msg_types[t])
BY AllTypes, FlatTable, CountedTable, TwoTable, TwiceListed, NothingListed DEF Regular
----------------------------------------------------------------------------
(* The fields of the first n blocks are there.                            *)
Covered(n) == ToSet(NamesUpTo(d, n)) \subseteq DOMAIN fields

(* Records are there only where one block is followed by counted ones.     *)
Repeats == Len(d.blocks) = 1 /\ d.size2 > 0 /\ d.count \notin {0, Remaining}

(* What the payload says and what the message holds are the same.          *)
Agrees == type # "AID_ALM" /\ ~TooShort /\ Covered(Taken) /\ recs = Count

Shaped ==
  /\ type \in Types
  /\ buf.len \in Nat /\ buf.cnt \in 0..MaxRecords /\ buf.vals \in Seq(0..37)
  /\ DOMAIN fields \subseteq ToSet(NamesOf(d.blocks))
  /\ \A name \in DOMAIN fields : fields[name] \in 0..38
  /\ counted \in 0..MaxRecords
  /\ recs \in Nat /\ refused \in BOOLEAN
  /\ unpacked \in BOOLEAN /\ accepted \in BOOLEAN
  /\ result \in Results /\ edits \in 0..MaxEdits

(* A count that the user did not set is the number of the records.         *)
CountsRight ==
  unpacked /\ d.count \notin {0, Remaining} /\ d.count \in DOMAIN fields
    /\ fields[d.count] \notin {Edited, Refused} => counted = recs

(* What stays true of a payload that an unpack accepted.                   *)
Accepted ==
  /\ unpacked /\ type # "AID_ALM" /\ ~TooShort /\ Covered(Taken) /\ Rest = recs * d.size2
  /\ type # "AID_AOP" =>
       \A i \in 1..Len(NamesUpTo(d, Taken)) : fields[i] \in {buf.vals[i], Edited, Refused}

(* The invariant.                                                          *)
MsgInv ==
  /\ Shaped
  /\ Valid => Len(buf.vals) = Len(NamesUpTo(d, Taken)) /\ recs <= Fitting
  /\ recs > 0 => Repeats
  /\ unpacked /\ Valid /\ OwnCount => Agrees
  /\ CountsRight
  /\ accepted /\ Valid => Accepted
  /\ result = "shown" => unpacked /\ Valid
----------------------------------------------------------------------------
(* n blocks are what a payload of a length holds.                          *)
Holding(D, len, n) ==
  /\ n \in 0..Len(D.blocks) /\ SizeUpTo(D, n) <= len
  /\ \A m \in 0..Len(D.blocks) : SizeUpTo(D, m) <= len => m <= n

LEMMA HoldingOnce ==
  ASSUME NEW D, NEW len, NEW m, NEW n, Layout(D), Holding(D, len, m), Holding(D, len, n)
  PROVE  m = n
<1>1. m \in 0..Len(D.blocks) /\ n \in 0..Len(D.blocks) /\ m <= n /\ n <= m
  BY Zenon DEF Holding
<1>2. Len(D.blocks) \in 1..2
  BY Zenon DEF Layout
<1> QED
  BY <1>1, <1>2

LEMMA HoldingWhole ==
  ASSUME NEW D, NEW len \in Nat, NEW n \in 0..Len(D.blocks), Layout(D), SizeUpTo(D, n) = len
  PROVE  Holding(D, len, n)
<1>1. PICK L \in 1..2 : L = Len(D.blocks)
  BY Zenon DEF Layout
<1>2. \A m \in 0..L : SizeUpTo(D, m) \in Nat
  BY <1>1, Zenon DEF Layout
<1>3. \A m \in 0..L : n < m => SizeUpTo(D, n) < SizeUpTo(D, m)
  BY <1>1, Zenon DEF Layout
<1>4. \A m \in 0..L : SizeUpTo(D, m) <= len => m <= n
  <2> SUFFICES ASSUME NEW m \in 0..L, SizeUpTo(D, m) <= len PROVE m <= n
    OBVIOUS
  <2>1. CASE n < m
    BY <2>1, <1>2, <1>3
  <2> QED
    BY <2>1, <1>1
<1>5. SizeUpTo(D, n) <= len
  OBVIOUS
<1> QED
  BY <1>1, <1>4, <1>5 DEF Holding

(* The blocks that fit are an interval, and its last is what is held.      *)
LEMMA WholeIsInterval ==
  ASSUME NEW D, NEW len \in Nat, Layout(D)
  PROVE  \E n \in 0..Len(D.blocks) :
           /\ Holding(D, len, n)
           /\ {m \in 0..Len(D.blocks) : SizeUpTo(D, m) <= len} = 0..n
<1>1. PICK L \in 1..2 : L = Len(D.blocks)
  BY Zenon DEF Layout
<1>2. \A m \in 0..L : SizeUpTo(D, m) \in Nat
  BY <1>1, Zenon DEF Layout
<1>3. \A k, m \in 0..L : k < m => SizeUpTo(D, k) < SizeUpTo(D, m)
  BY <1>1, Zenon DEF Layout
<1>4. SizeUpTo(D, 0) <= len
  BY DEF Layout
<1>5. ASSUME NEW n \in 0..L, SizeUpTo(D, n) <= len,
             \A m \in 0..L : n < m => ~(SizeUpTo(D, m) <= len)
      PROVE  Holding(D, len, n) /\ {m \in 0..L : SizeUpTo(D, m) <= len} = 0..n
  <2>1. \A m \in 0..L : SizeUpTo(D, m) <= len => m <= n
    BY <1>5
  <2>2. \A m \in 0..n : m \in 0..L /\ SizeUpTo(D, m) <= len
    <3> SUFFICES ASSUME NEW m \in 0..n PROVE m \in 0..L /\ SizeUpTo(D, m) <= len
      OBVIOUS
    <3>1. m \in 0..L /\ (m = n \/ m < n)
      OBVIOUS
    <3>2. CASE m < n
      <4>1. SizeUpTo(D, m) < SizeUpTo(D, n)
        BY <3>1, <3>2, <1>3
      <4> QED
        BY <4>1, <3>1, <1>2, <1>5
    <3> QED
      BY <3>1, <3>2, <1>5
  <2>3. {m \in 0..L : SizeUpTo(D, m) <= len} = 0..n
    BY <2>1, <2>2
  <2> QED
    BY <1>1, <1>5, <2>1, <2>3 DEF Holding
<1>6. CASE SizeUpTo(D, L) <= len
  <2>1. L \in 0..L /\ \A m \in 0..L : ~(L < m)
    OBVIOUS
  <2> QED
    BY <1>1, <1>5, <1>6, <2>1, Zenon
<1>7. CASE ~(SizeUpTo(D, L) <= len) /\ L = 1
  <2>1. 0 \in 0..L /\ \A m \in 0..L : 0 < m => m = L
    BY <1>7
  <2> QED
    BY <1>1, <1>4, <1>5, <1>7, <2>1, Zenon
<1>8. CASE ~(SizeUpTo(D, L) <= len) /\ L = 2 /\ SizeUpTo(D, 1) <= len
  <2>1. 1 \in 0..L /\ \A m \in 0..L : 1 < m => m = L
    BY <1>8
  <2> QED
    BY <1>1, <1>5, <1>8, <2>1, Zenon
<1>9. CASE ~(SizeUpTo(D, L) <= len) /\ L = 2 /\ ~(SizeUpTo(D, 1) <= len)
  <2>1. 0 \in 0..L /\ \A m \in 0..L : 0 < m => m = 1 \/ m = L
    BY <1>9
  <2> QED
    BY <1>1, <1>4, <1>5, <1>9, <2>1, Zenon
<1> QED
  BY <1>6, <1>7, <1>8, <1>9

(* Where an unpack stops, for any descriptor and any length.               *)
ExactAt(D, len) == {n \in 1..Len(D.blocks) : SizeOf(Blocks(D, n)) = len}
WholeAt(D, len) == {n \in 0..Len(D.blocks) : SizeOf(Blocks(D, n)) <= len}
TakenAt(D, len) ==
  IF ExactAt(D, len) = {} THEN Cardinality(WholeAt(D, len)) - 1
  ELSE CHOOSE n \in ExactAt(D, len) : TRUE
TooShortAt(D, len) == ExactAt(D, len) = {} /\ TakenAt(D, len) < Len(D.blocks)

LEMMA UpTo ==
  ASSUME NEW n \in Nat
  PROVE  IsFiniteSet(0..n) /\ Cardinality(0..n) = n + 1
<1>1. 0 \in Int /\ n \in Int
  OBVIOUS
<1>2. IsFiniteSet(0..n) /\ Cardinality(0..n) = IF 0 > n THEN 0 ELSE n - 0 + 1
  BY <1>1, FS_Interval
<1> QED
  BY <1>2

LEMMA TakenIsHeld ==
  ASSUME NEW D, NEW len \in Nat, Layout(D)
  PROVE  /\ Holding(D, len, TakenAt(D, len))
         /\ TooShortAt(D, len) <=>
              /\ TakenAt(D, len) < Len(D.blocks)
              /\ TakenAt(D, len) = 0 \/ SizeUpTo(D, TakenAt(D, len)) # len
<1>1. PICK L \in 1..2 : L = Len(D.blocks)
  BY Zenon DEF Layout
<1>2. PICK n \in 0..L : Holding(D, len, n) /\ {m \in 0..L : SizeUpTo(D, m) <= len} = 0..n
  BY <1>1, WholeIsInterval
<1>3. WholeAt(D, len) = 0..n
  BY <1>1, <1>2 DEF WholeAt, SizeUpTo
<1>4. ExactAt(D, len) = {m \in 1..L : SizeUpTo(D, m) = len}
  BY <1>1 DEF ExactAt, SizeUpTo
<1>5. TakenAt(D, len) = n
  <2>1. CASE ExactAt(D, len) = {}
    <3>1. n \in Nat
      OBVIOUS
    <3>2. Cardinality(WholeAt(D, len)) = n + 1
      BY <1>3, <3>1, UpTo
    <3> QED
      BY <2>1, <3>1, <3>2 DEF TakenAt
  <2>2. CASE ExactAt(D, len) # {}
    <3>1. PICK e : e = CHOOSE m \in ExactAt(D, len) : TRUE
      OBVIOUS
    <3>2. e \in ExactAt(D, len)
      BY <2>2, <3>1
    <3>3. e \in 0..L /\ SizeUpTo(D, e) = len
      BY <3>2, <1>4
    <3>4. Holding(D, len, e)
      BY <3>3, <1>1, HoldingWhole, Zenon
    <3>5. e = n
      BY <3>4, <1>2, HoldingOnce, Zenon
    <3> QED
      BY <3>1, <3>5, <2>2 DEF TakenAt
  <2> QED
    BY <2>1, <2>2
<1>6. ExactAt(D, len) = {} <=> n = 0 \/ SizeUpTo(D, n) # len
  <2>1. ASSUME n # 0, SizeUpTo(D, n) = len PROVE n \in ExactAt(D, len)
    <3>1. n \in 1..L
      BY <2>1
    <3> QED
      BY <3>1, <2>1, <1>4
  <2>2. ASSUME NEW e \in ExactAt(D, len) PROVE n # 0 /\ SizeUpTo(D, n) = len
    <3>1. e \in 1..L /\ e \in 0..L /\ SizeUpTo(D, e) = len
      BY <1>4
    <3>2. Holding(D, len, e)
      BY <3>1, <1>1, HoldingWhole, Zenon
    <3>3. e = n
      BY <3>2, <1>2, HoldingOnce, Zenon
    <3> QED
      BY <3>1, <3>3
  <2> QED
    BY <2>1, <2>2
<1> QED
  BY <1>1, <1>2, <1>5, <1>6 DEF TooShortAt

LEMMA TakenNow ==
  /\ Taken = TakenAt(d, buf.len) /\ (TooShort <=> TooShortAt(d, buf.len))
  /\ Rest = buf.len - SizeUpTo(d, TakenAt(d, buf.len))
BY DEF Taken, Exact, Whole, TooShort, Rest, TakenAt, ExactAt, WholeAt, TooShortAt, SizeUpTo, d

(* Arithmetic of the records.                                              *)
LEMMA Divisions ==
  ASSUME NEW x \in Nat, NEW y \in Nat \ {0}
  PROVE  x \div y \in Nat /\ (x * y) \div y = x /\ x * y \in Nat /\ (x > 0 => x * y > 0)
<1>1. x * y \in Nat
  OBVIOUS
<1>2. x * y = y * x + 0
  OBVIOUS
<1>3. (x * y) \div y = x
  BY <1>1, <1>2, Z3
<1> QED
  BY <1>1, <1>3

LEMMA Lesser ==
  ASSUME NEW x \in Nat, NEW y \in Nat
  PROVE  /\ Min({x, y}) \in Nat /\ Min({x, y}) <= x /\ Min({x, y}) <= y
         /\ x <= y => Min({x, y}) = x
BY DEF Min

(* The payload of a message, as an unpack sees it.                         *)
LEMMA Here ==
  ASSUME Shaped
  PROVE  /\ Layout(d) /\ Len(d.blocks) \in 1..2 /\ Taken \in 0..Len(d.blocks)
         /\ Holding(d, buf.len, Taken)
         /\ Rest \in Nat /\ buf.len = SizeUpTo(d, Taken) + Rest /\ SizeUpTo(d, Taken) \in Nat
         /\ TooShort <=> Taken < Len(d.blocks) /\ (Taken = 0 \/ Rest # 0)
         /\ Count \in Nat /\ Fitting \in Nat
         /\ d.size2 \in Nat /\ d.count \in Nat /\ (d.size2 = 0 <=> d.count = 0)
         /\ d.size2 = 0 => Fitting = 0
         /\ d.count = 0 => Count = 0
         /\ Len(d.blocks) = 2 => d.count \in {0, Remaining}
<1>1. type \in Types /\ buf.len \in Nat /\ buf.cnt \in 0..MaxRecords
  BY DEF Shaped
<1>2. Layout(d)
  BY <1>1, Table DEF d
<1>3. /\ Len(d.blocks) \in 1..2 /\ d.size2 \in Nat /\ d.count \in Nat
      /\ (d.size2 = 0 <=> d.count = 0) /\ (Len(d.blocks) = 2 => d.count \in {0, Remaining})
  BY <1>2, Zenon DEF Layout
<1>4. /\ Holding(d, buf.len, Taken)
      /\ TooShort <=> Taken < Len(d.blocks) /\ (Taken = 0 \/ SizeUpTo(d, Taken) # buf.len)
      /\ Rest = buf.len - SizeUpTo(d, Taken)
  BY <1>1, <1>2, TakenIsHeld, TakenNow
<1>5. Taken \in 0..Len(d.blocks) /\ SizeUpTo(d, Taken) <= buf.len
  BY <1>4, Zenon DEF Holding
<1>6. SizeUpTo(d, Taken) \in Nat
  BY <1>2, <1>5, Zenon DEF Layout
<1>7. /\ Rest \in Nat /\ buf.len = SizeUpTo(d, Taken) + Rest
      /\ (Rest # 0 <=> SizeUpTo(d, Taken) # buf.len)
  <2>1. PICK s \in Nat : s = SizeUpTo(d, Taken)
    BY <1>6
  <2>2. PICK l \in Nat : l = buf.len
    BY <1>1
  <2>3. PICK r : r = Rest
    OBVIOUS
  <2>4. r = l - s /\ s <= l
    BY <1>4, <1>5, <2>1, <2>2, <2>3, Zenon
  <2>5. r \in Nat /\ l = s + r /\ (r # 0 <=> s # l)
    BY <2>4
  <2> QED
    BY <2>1, <2>2, <2>3, <2>5, Zenon
<1>8. TooShort <=> Taken < Len(d.blocks) /\ (Taken = 0 \/ Rest # 0)
  BY <1>4, <1>7, Zenon
<1>9. Count \in Nat /\ (d.count = 0 => Count = 0)
  <2>1. buf.cnt \in Nat /\ 0 # Remaining
    BY <1>1, BoundsAssumption DEF Remaining
  <2> QED
    BY <2>1, <1>7 DEF Count
<1>10. Fitting \in Nat /\ (d.size2 = 0 => Fitting = 0)
  <2>1. CASE d.size2 = 0
    BY <2>1 DEF Fitting
  <2>2. CASE d.size2 # 0
    <3>1. Rest \div d.size2 \in Nat
      BY <2>2, <1>3, <1>7, Divisions
    <3> QED
      BY <2>2, <3>1 DEF Fitting
  <2> QED
    BY <2>1, <2>2
<1> QED
  BY <1>2, <1>3, <1>4, <1>5, <1>6, <1>7, <1>8, <1>9, <1>10

LEMMA ElementsOf ==
  ASSUME NEW S, NEW s \in Seq(S)
  PROVE  \A i \in 1..Len(s) : s[i] \in S
OBVIOUS

(* What an unpack stores.                                                  *)
LEMMA StoredIs ==
  ASSUME Shaped, Len(buf.vals) = Len(NamesUpTo(d, Taken))
  PROVE  /\ DOMAIN Stored = ToSet(NamesUpTo(d, Taken))
         /\ \A name \in DOMAIN Stored : Stored[name] \in 0..37
         /\ type # "AID_AOP" =>
              \A i \in 1..Len(NamesUpTo(d, Taken)) : i \in DOMAIN Stored /\ Stored[i] = buf.vals[i]
<1>1. PICK N \in Seq(Nat) : N = NamesUpTo(d, Taken) /\ HasLast(N)
  BY Here, Zenon DEF Layout
<1>2. DOMAIN N = 1..Len(N) /\ Len(N) \in Nat
  OBVIOUS
<1>3. \A i \in 1..Len(N) : buf.vals[i] \in 0..37
  <2>1. buf.vals \in Seq(0..37)
    BY Zenon DEF Shaped
  <2> QED
    BY <2>1, <1>1, ElementsOf, Zenon
<1> DEFINE At(name, i) == i \in DOMAIN N /\ N[i] = name /\ \A j \in (i + 1)..Len(N) : N[j] # name
           last(name) == CHOOSE i \in DOMAIN N : N[i] = name /\ \A j \in (i + 1)..Len(N) : N[j] # name
<1>4. Stored = [name \in ToSet(N) |-> buf.vals[last(name)]]
  BY <1>1 DEF Stored, NamesUpTo
<1>5. \A name \in ToSet(N) : At(name, last(name))
  <2> SUFFICES ASSUME NEW name \in ToSet(N) PROVE At(name, last(name))
    OBVIOUS
  <2>1. \E i \in DOMAIN N : N[i] = name /\ \A j \in (i + 1)..Len(N) : N[j] # name
    BY <1>1, Zenon DEF HasLast
  <2> QED
    BY <2>1, Zenon
<1>6. \A name \in ToSet(N) : last(name) \in 1..Len(N) /\ N[last(name)] = name
  <2> HIDE DEF last
  <2> QED
    BY <1>2, <1>5, Zenon
<1>7. \A name \in DOMAIN Stored : Stored[name] \in 0..37
  <2> HIDE DEF last
  <2> QED
    BY <1>3, <1>4, <1>6
<1>8. ASSUME type # "AID_AOP", NEW i \in 1..Len(N)
      PROVE  i \in ToSet(N) /\ Stored[i] = buf.vals[i]
  <2>1. Numbered(d) /\ Taken \in 0..Len(d.blocks)
    BY <1>8, Here, Table DEF Shaped, d
  <2>2. \A j \in 1..Len(N) : N[j] = j
    BY <2>1, <1>1, Zenon DEF Numbered
  <2>3. i \in ToSet(N)
    BY <1>2, <2>2 DEF ToSet
  <2>4. last(i) = i
    <3> HIDE DEF last
    <3> QED
      BY <2>2, <2>3, <1>6
  <2> HIDE DEF last
  <2> QED
    BY <1>4, <2>3, <2>4
<1> QED
  BY <1>1, <1>4, <1>7, <1>8

LEMMA OutcomeMeans ==
  /\ Outcome \in {"ok", "UBloxError", "TypeError", "AttributeError"}
  /\ Outcome = "ok" => /\ ~TooShort /\ type # "AID_ALM" /\ Rest = Count * d.size2
                       /\ ~(Count > 0 /\ d.count = Remaining)
  /\ Outcome = "UBloxError" /\ ~TooShort => type # "AID_ALM"
BY DEF Outcome

(* The repeated blocks an unpack reads.                                    *)
LEMMA ReadIs ==
  ASSUME Shaped, DoUnpack
  PROVE  /\ recs' \in Nat /\ recs' <= Fitting
         /\ recs' > 0 => /\ Len(d.blocks) = 1 /\ d.size2 > 0 /\ d.count \notin {0, Remaining}
                         /\ Taken = 1
         /\ ~TooShort /\ Count = 0 => recs' = Count
         /\ Outcome = "ok" => recs' = Count
         /\ ~TooShort /\ Count <= Fitting /\ ~(Count > 0 /\ d.count = Remaining) => recs' = Count
<1>1. /\ Len(d.blocks) \in 1..2 /\ Taken \in 0..Len(d.blocks)
      /\ Rest \in Nat
      /\ TooShort <=> Taken < Len(d.blocks) /\ (Taken = 0 \/ Rest # 0)
      /\ Count \in Nat /\ Fitting \in Nat
      /\ d.size2 \in Nat /\ d.count \in Nat /\ (d.size2 = 0 <=> d.count = 0)
      /\ d.size2 = 0 => Fitting = 0
      /\ d.count = 0 => Count = 0
      /\ Len(d.blocks) = 2 => d.count \in {0, Remaining}
  BY Here
<1>2. Read \in Nat /\ Read <= Count /\ Read <= Fitting /\ (Count <= Fitting => Read = Count)
  BY <1>1, Lesser DEF Read
<1>3. recs' = IF TooShort \/ d.count = Remaining THEN 0 ELSE Read
  BY DEF DoUnpack
<1>4. recs' \in Nat /\ recs' <= Fitting
  BY <1>1, <1>2, <1>3
<1>5. ASSUME recs' > 0
      PROVE  /\ Len(d.blocks) = 1 /\ d.size2 > 0 /\ d.count \notin {0, Remaining} /\ Taken = 1
  <2>1. ~TooShort /\ d.count # Remaining /\ recs' = Read
    BY <1>3, <1>5
  <2>2. Fitting # 0
    BY <2>1, <1>1, <1>2, <1>5
  <2>3. d.size2 # 0 /\ d.count # 0
    BY <2>2, <1>1
  <2>4. Len(d.blocks) = 1
    BY <2>1, <2>3, <1>1
  <2>5. Taken = 1
    <3>1. ~(Taken < Len(d.blocks) /\ (Taken = 0 \/ Rest # 0))
      BY <2>1, <1>1, Zenon
    <3>2. Taken = 0 \/ Taken = 1
      BY <2>4, <1>1
    <3> QED
      BY <3>1, <3>2, <2>4
  <2> QED
    BY <2>1, <2>3, <2>4, <2>5, <1>1
<1>6. ASSUME ~TooShort, Count <= Fitting, ~(Count > 0 /\ d.count = Remaining)
      PROVE  recs' = Count
  BY <1>1, <1>2, <1>3, <1>6
<1>7. ASSUME ~TooShort, Count = 0 PROVE recs' = Count
  BY <1>1, <1>6, <1>7
<1>8. ASSUME Outcome = "ok" PROVE recs' = Count
  <2>1. ~TooShort /\ Rest = Count * d.size2 /\ ~(Count > 0 /\ d.count = Remaining)
    BY <1>8, OutcomeMeans
  <2>2. Count <= Fitting
    <3>1. CASE d.size2 = 0
      BY <3>1, <1>1
    <3>2. CASE d.size2 # 0
      <4>1. (Count * d.size2) \div d.size2 = Count
        BY <3>2, <1>1, Divisions
      <4> QED
        BY <4>1, <3>2, <2>1, <1>1 DEF Fitting
    <3> QED
      BY <3>1, <3>2
  <2> QED
    BY <2>1, <2>2, <1>6
<1> QED
  BY <1>4, <1>5, <1>6, <1>7, <1>8
----------------------------------------------------------------------------
LEMMA SamePayload ==
  ASSUME UNCHANGED <<type, buf>>
  PROVE  /\ d' = d /\ Taken' = Taken /\ (TooShort' <=> TooShort) /\ Rest' = Rest
         /\ Count' = Count /\ Fitting' = Fitting /\ (Valid' <=> Valid)
         /\ (OwnCount' <=> OwnCount)
<1>1. type' = type /\ buf' = buf
  OBVIOUS
<1>2. d' = d
  BY <1>1 DEF d
<1>3. Exact' = Exact
  BY <1>1, <1>2 DEF Exact
<1>4. Taken' = Taken
  BY <1>1, <1>2, <1>3 DEF Taken, Whole
<1>5. TooShort' <=> TooShort
  BY <1>2, <1>3, <1>4 DEF TooShort
<1>6. Rest' = Rest
  BY <1>1, <1>2, <1>4 DEF Rest
<1>7. Count' = Count
  BY <1>1, <1>2, <1>6 DEF Count
<1>8. Fitting' = Fitting
  BY <1>2, <1>6 DEF Fitting
<1>9. (Valid' <=> Valid) /\ (OwnCount' <=> OwnCount)
  BY <1>1, <1>2 DEF Valid, OwnCount
<1> QED
  BY <1>2, <1>4, <1>5, <1>6, <1>7, <1>8, <1>9

LEMMA Counting ==
  ASSUME NEW k \in 0..37
  PROVE  [i \in 1..k |-> i] \in Seq(0..37) /\ Len([i \in 1..k |-> i]) = k
OBVIOUS

LEMMA AnyLength ==
  ASSUME NEW t \in Types, NEW len \in Lengths(t)
  PROVE  len \in Nat
<1>1. PICK D : D = msg_types[t] /\ Layout(D)
  BY Table
<1>2. Len(D.blocks) \in 1..2 /\ D.size2 \in Nat
  BY <1>1, Zenon DEF Layout
<1>3. \A n \in 1..Len(D.blocks) : SizeUpTo(D, n) \in Nat /\ 0 < SizeUpTo(D, n)
  <2> SUFFICES ASSUME NEW n \in 1..Len(D.blocks)
               PROVE  SizeUpTo(D, n) \in Nat /\ 0 < SizeUpTo(D, n)
    OBVIOUS
  <2>1. n \in 0..Len(D.blocks) /\ 0 \in 0..Len(D.blocks) /\ 0 < n
    BY <1>2
  <2> QED
    BY <2>1, <1>1 DEF Layout
<1>4. PICK x : /\ len \in {x - 1, x, x + 1}
               /\ \E n \in 1..Len(D.blocks), k \in 0..MaxRecords : x = SizeUpTo(D, n) + k * D.size2
  <2>1. \E x \in {SizeUpTo(D, n) + k * D.size2 : n \in 1..Len(D.blocks), k \in 0..MaxRecords} :
          len \in {x - 1, x, x + 1}
    BY <1>1 DEF Lengths, SizeUpTo
  <2> QED
    BY <2>1
<1>5. PICK n \in 1..Len(D.blocks), k \in 0..MaxRecords : x = SizeUpTo(D, n) + k * D.size2
  BY <1>4, Zenon
<1>6. SizeUpTo(D, n) \in Nat \ {0}
  BY <1>3
<1>7. k * D.size2 \in Nat
  <2>1. k \in Nat
    BY BoundsAssumption
  <2> QED
    BY <2>1, <1>2
<1>8. x \in Nat \ {0}
  <2>1. \A p \in Nat \ {0}, r \in Nat : p + r \in Nat \ {0}
    OBVIOUS
  <2>2. SizeUpTo(D, n) + k * D.size2 \in Nat \ {0}
    BY <1>6, <1>7, <2>1, Zenon
  <2> QED
    BY <2>2, <1>5, Zenon
<1>9. \A p \in Nat \ {0} : p - 1 \in Nat /\ p \in Nat /\ p + 1 \in Nat
  OBVIOUS
<1>10. x - 1 \in Nat /\ x \in Nat /\ x + 1 \in Nat
  BY <1>8, <1>9, Zenon
<1> QED
  BY <1>4, <1>10

LEMMA InitMsgInv == Init => MsgInv
<1> SUFFICES ASSUME Init PROVE MsgInv
  OBVIOUS
<1>1. /\ type \in Types /\ fields = NoFields /\ recs = 0 /\ unpacked = FALSE
      /\ result = "ok" /\ edits = 0 /\ accepted = FALSE
  BY DEF Init
<1>2. PICK len \in Lengths(type), cnt \in 0..MaxRecords : buf = Payload(type, len, cnt)
  BY DEF Init
<1>3. len \in Nat /\ buf.len = len /\ buf.cnt = cnt
  BY <1>1, <1>2, AnyLength DEF Payload
<1>4. Layout(d)
  BY <1>1, Table DEF d
<1>5. PICK n \in 0..Len(d.blocks) : n = Taken /\ Holding(d, len, n)
  <2>1. Holding(d, buf.len, Taken)
    BY <1>3, <1>4, TakenIsHeld, TakenNow
  <2> QED
    BY <2>1, <1>3 DEF Holding
<1>6. n = CHOOSE e \in Whole(type, len) : \A k \in Whole(type, len) : k <= e
  <2>1. \A e : Holding(d, len, e) <=> e \in Whole(type, len) /\ \A k \in Whole(type, len) : k <= e
    BY DEF Holding, Whole, SizeUpTo, d
  <2>2. PICK m : m = CHOOSE e \in Whole(type, len) : \A k \in Whole(type, len) : k <= e
    OBVIOUS
  <2>3. m \in Whole(type, len) /\ \A k \in Whole(type, len) : k <= m
    BY <1>5, <2>1, <2>2
  <2> QED
    BY <1>4, <1>5, <2>1, <2>2, <2>3, HoldingOnce, Zenon
<1>7. PICK k \in 0..37 : k = Len(NamesUpTo(d, n))
  BY <1>4, Zenon DEF Layout
<1>8. buf.vals = [i \in 1..k |-> i]
  BY <1>2, <1>6, <1>7 DEF Payload, Values, NamesUpTo, d
<1>9. buf.vals \in Seq(0..37) /\ Len(buf.vals) = Len(NamesUpTo(d, Taken))
  BY <1>5, <1>7, <1>8, Counting
<1>10. DOMAIN fields = {}
  BY <1>1 DEF NoFields
<1>11. Shaped
  <2>1. /\ \A name \in DOMAIN fields : fields[name] \in 0..38
        /\ DOMAIN fields \subseteq ToSet(NamesOf(d.blocks))
    BY <1>10
  <2>2. /\ recs \in Nat /\ unpacked \in BOOLEAN /\ accepted \in BOOLEAN /\ refused \in BOOLEAN
        /\ counted \in 0..MaxRecords /\ result \in Results /\ edits \in 0..MaxEdits
    <3>1. recs \in Nat /\ edits \in 0..MaxEdits /\ 0 \in 0..MaxRecords /\ "ok" \in Results
      BY <1>1, BoundsAssumption DEF Results
    <3>2. counted = 0 /\ refused = FALSE
      BY DEF Init
    <3> QED
      BY <1>1, <3>1, <3>2, Zenon
  <2>3. type \in Types /\ buf.len \in Nat /\ buf.cnt \in 0..MaxRecords /\ buf.vals \in Seq(0..37)
    BY <1>1, <1>2, <1>3, <1>9
  <2> QED
    BY <2>1, <2>2, <2>3, Zenon DEF Shaped
<1>12. 0 <= Fitting
  BY <1>11, Here
<1> QED
  BY <1>1, <1>9, <1>11, <1>12 DEF MsgInv, CountsRight

(* The fields of the first blocks are among those of all.                  *)
LEMMA NamesGrow ==
  ASSUME Shaped, NEW n \in 0..Len(d.blocks)
  PROVE  ToSet(NamesUpTo(d, n)) \subseteq ToSet(NamesOf(d.blocks))
<1>1. Layout(d)
  BY Table DEF Shaped, d
<1>2. PICK L \in 1..2 : L = Len(d.blocks)
  BY <1>1, Zenon DEF Layout
<1>3. L \in 0..L /\ n \in 0..L
  BY <1>2
<1>4. Blocks(d, L) = d.blocks
  BY <1>1, <1>2, Zenon DEF Layout
<1>5. PICK N \in Seq(Nat) : N = NamesOf(d.blocks) /\ N = NamesUpTo(d, L) /\ Len(N) \in 0..37
  BY <1>1, <1>2, <1>3, <1>4, Zenon DEF Layout, NamesUpTo
<1>6. PICK M \in Seq(Nat) : M = NamesUpTo(d, n) /\ \A i \in 1..Len(M) : M[i] = N[i]
  BY <1>1, <1>2, <1>3, <1>5, Zenon DEF Layout
<1>7. Len(M) <= Len(N)
  <2>1. CASE n = L
    <3>1. Len(M) = Len(N)
      BY <2>1, <1>5, <1>6, Zenon
    <3> QED
      BY <3>1, <1>5
  <2>2. CASE type = "AID_ALM"
    <3>1. d.blocks = msg_types["AID_ALM"].blocks /\ d = msg_types["AID_ALM"]
      BY <2>2 DEF d
    <3>2. Len(d.blocks) = 1 /\ NamesUpTo(d, 1) = <<>> /\ NamesUpTo(d, 0) = <<>>
      BY <3>1, NothingListed, <1>1 DEF Layout
    <3>3. n = 0 \/ n = 1
      BY <3>2
    <3>4. M = <<>>
      BY <3>2, <3>3, <1>6
    <3> QED
      BY <3>4, <1>5
  <2>3. CASE type # "AID_ALM" /\ n # L
    <3>1. Growing(d)
      BY <2>3, Table DEF Shaped, d
    <3>2. n < L
      BY <2>3, <1>3
    <3>3. Len(M) < Len(N)
      BY <3>1, <3>2, <1>2, <1>3, <1>5, <1>6, Zenon DEF Growing
    <3> QED
      BY <3>3
  <2> QED
    BY <2>1, <2>2, <2>3
<1>8. \A i \in 1..Len(M) : i \in 1..Len(N)
  BY <1>7
<1>9. DOMAIN M = 1..Len(M) /\ DOMAIN N = 1..Len(N)
  OBVIOUS
<1>10. ToSet(M) \subseteq ToSet(N)
  BY <1>6, <1>8, <1>9 DEF ToSet
<1> QED
  BY <1>5, <1>6, <1>10

(* Where repeated blocks are counted, the fields are numbered and the      *)
(* count is one of them.                                                   *)
LEMMA CountedFacts ==
  ASSUME Shaped, d.count \notin {0, Remaining}
  PROVE  /\ type # "AID_AOP" /\ Len(d.blocks) = 1
         /\ d.count \in 1..Len(NamesUpTo(d, 1)) /\ NamesUpTo(d, 0) = <<>>
<1>1. type # "AID_AOP"
  BY DEF d, msg_types, Layered
<1>2. Layout(d)
  BY Table DEF Shaped, d
<1> QED
  BY <1>1, <1>2 DEF Layout

(* A payload that is looked at leaves what it says of itself.              *)
LEMMA DoUnpackKeeps ==
  ASSUME MsgInv, Valid, DoUnpack, UNCHANGED <<type, buf, edits>>,
         result' \in Results, result' = "shown" => Outcome = "ok"
  PROVE  MsgInv'
<1>1. /\ Shaped /\ Len(buf.vals) = Len(NamesUpTo(d, Taken)) /\ recs <= Fitting
      /\ (unpacked /\ OwnCount => Agrees)
  BY DEF MsgInv
<1>2. /\ Layout(d) /\ Len(d.blocks) \in 1..2 /\ Taken \in 0..Len(d.blocks)
      /\ Count \in Nat /\ Fitting \in Nat
  BY <1>1, Here
<1>3. /\ d' = d /\ Taken' = Taken /\ (TooShort' <=> TooShort) /\ Rest' = Rest
      /\ Count' = Count /\ Fitting' = Fitting /\ (Valid' <=> Valid) /\ (OwnCount' <=> OwnCount)
      /\ type' = type /\ buf' = buf /\ edits' = edits
  BY SamePayload
<1>4. /\ fields' = Stored /\ unpacked' = FlagAfter(Outcome) /\ accepted' = (Outcome = "ok")
      /\ counted' = buf.cnt /\ refused' = FALSE
  BY DEF DoUnpack
<1>5. /\ DOMAIN Stored = ToSet(NamesUpTo(d, Taken))
      /\ \A name \in DOMAIN Stored : Stored[name] \in 0..37
      /\ type # "AID_AOP" =>
           \A i \in 1..Len(NamesUpTo(d, Taken)) : i \in DOMAIN Stored /\ Stored[i] = buf.vals[i]
  BY <1>1, StoredIs
<1>6. /\ recs' \in Nat /\ recs' <= Fitting
      /\ recs' > 0 => /\ Len(d.blocks) = 1 /\ d.size2 > 0 /\ d.count \notin {0, Remaining}
                      /\ Taken = 1
      /\ ~TooShort /\ Count = 0 => recs' = Count
      /\ Outcome = "ok" => recs' = Count
      /\ ~TooShort /\ Count <= Fitting /\ ~(Count > 0 /\ d.count = Remaining) => recs' = Count
  BY <1>1, ReadIs
<1>7. Covered(Taken)'
  BY <1>3, <1>4, <1>5 DEF Covered
<1>8. DOMAIN Stored \subseteq ToSet(NamesOf(d.blocks))
  BY <1>1, <1>2, <1>5, NamesGrow
<1>9. Shaped'
  <2>1. unpacked' \in BOOLEAN /\ accepted' \in BOOLEAN
    BY <1>1, <1>4 DEF FlagAfter, Shaped
  <2>2. \A name \in DOMAIN fields' : fields'[name] \in 0..38
    BY <1>4, <1>5
  <2> QED
    BY <1>1, <1>3, <1>4, <1>6, <1>8, <2>1, <2>2 DEF Shaped
<1>10. recs' > 0 => Repeats'
  BY <1>3, <1>6 DEF Repeats
<1>11. ASSUME unpacked', OwnCount PROVE Agrees' /\ recs' = Count
  <2>1. type # "AID_ALM" /\ ~TooShort /\ recs' = Count
    <3>1. CASE unpacked
      <4>1. type # "AID_ALM" /\ ~TooShort /\ recs = Count
        BY <3>1, <1>1, <1>11 DEF Agrees
      <4>2. ~(Count > 0 /\ d.count = Remaining)
        BY <4>1 DEF MsgInv, Repeats
      <4> QED
        BY <4>1, <4>2, <1>1, <1>6
    <3>2. CASE Outcome = "ok"
      BY <3>2, <1>6, OutcomeMeans
    <3>3. CASE Outcome = "UBloxError" /\ ~TooShort /\ Count = 0
      BY <3>3, <1>6, OutcomeMeans
    <3> QED
      BY <1>4, <1>11, <3>1, <3>2, <3>3 DEF FlagAfter
  <2> QED
    BY <2>1, <1>3, <1>7 DEF Agrees
<1>12. CountsRight'
  <2> SUFFICES ASSUME unpacked', d.count \notin {0, Remaining}, d.count \in DOMAIN Stored,
                      Stored[d.count] # Edited
               PROVE  buf.cnt = recs'
    BY <1>3, <1>4 DEF CountsRight
  <2>1. /\ type # "AID_AOP" /\ Len(d.blocks) = 1 /\ d.count \in 1..Len(NamesUpTo(d, 1))
        /\ NamesUpTo(d, 0) = <<>>
    BY <1>1, CountedFacts
  <2>2. Taken = 1
    <3>1. Taken # 0
      BY <2>1, <1>5, NoNames
    <3> QED
      BY <3>1, <2>1, <1>2
  <2>3. Stored[d.count] = buf.vals[d.count]
    BY <2>1, <2>2, <1>5
  <2>4. OwnCount
    BY <2>3 DEF OwnCount
  <2>5. Count = buf.cnt
    BY DEF Count
  <2> QED
    BY <2>4, <2>5, <1>11
<1>13. accepted' => Accepted'
  <2> SUFFICES ASSUME Outcome = "ok" PROVE Accepted'
    BY <1>4
  <2>1. unpacked' /\ type # "AID_ALM" /\ ~TooShort /\ Rest = recs' * d.size2
    BY <1>4, <1>6, OutcomeMeans DEF FlagAfter
  <2>2. ASSUME type # "AID_AOP"
        PROVE  \A i \in 1..Len(NamesUpTo(d, Taken)) : fields'[i] \in {buf.vals[i], Edited, Refused}
    BY <1>4, <1>5, <2>2
  <2> QED
    BY <1>3, <1>7, <2>1, <2>2 DEF Accepted
<1>14. result' = "shown" => unpacked'
  BY <1>4 DEF FlagAfter
<1> QED
  BY <1>1, <1>3, <1>6, <1>9, <1>10, <1>11, <1>12, <1>13, <1>14 DEF MsgInv

(* Fields are known by their numbers, but where a name is listed twice.    *)
LEMMA FieldsByNumber ==
  ASSUME Shaped, type # "AID_AOP", NEW n \in 0..Len(d.blocks)
  PROVE  \A i \in 1..Len(NamesUpTo(d, n)) :
           NamesUpTo(d, n)[i] = i /\ i \in ToSet(NamesUpTo(d, n))
<1>1. Numbered(d) /\ Layout(d)
  BY Table DEF Shaped, d
<1>2. PICK N \in Seq(Nat) : N = NamesUpTo(d, n)
  BY <1>1, Zenon DEF Layout
<1>3. \A i \in 1..Len(N) : N[i] = i
  BY <1>1, <1>2, Zenon DEF Numbered
<1>4. \A i \in 1..Len(N) : i \in ToSet(N)
  BY <1>3 DEF ToSet
<1> QED
  BY <1>2, <1>3, <1>4

(* A step that leaves the message alone.                                   *)
LEMMA Leaves ==
  ASSUME MsgInv, UNCHANGED <<type, buf, content, edits>>,
         result' \in Results, result' = "shown" => unpacked /\ Valid
  PROVE  MsgInv'
<1>1. /\ d' = d /\ Taken' = Taken /\ (TooShort' <=> TooShort) /\ Rest' = Rest
      /\ Count' = Count /\ Fitting' = Fitting /\ (Valid' <=> Valid) /\ (OwnCount' <=> OwnCount)
      /\ type' = type /\ buf' = buf
  BY SamePayload
<1>2. /\ fields' = fields /\ counted' = counted /\ recs' = recs /\ refused' = refused
      /\ unpacked' = unpacked /\ accepted' = accepted /\ edits' = edits
  BY DEF content
<1>3. /\ Shaped' /\ (Agrees => Agrees') /\ (Repeats => Repeats')
      /\ (CountsRight => CountsRight') /\ (Accepted => Accepted')
  BY <1>1, <1>2 DEF MsgInv, Shaped, Agrees, Repeats, Covered, CountsRight, Accepted
<1> QED
  BY <1>1, <1>2, <1>3 DEF MsgInv

LEMMA UnpackKeeps == ASSUME MsgInv, Unpack PROVE MsgInv'
<1>1. Outcome \in Results /\ "UBloxError" \in Results /\ Outcome # "shown"
  BY OutcomeMeans DEF Results
<1>2. CASE Valid
  <2>1. DoUnpack /\ result' = Outcome /\ UNCHANGED <<type, buf, edits>>
    BY <1>2 DEF Unpack
  <2> QED
    BY <2>1, <1>1, <1>2, DoUnpackKeeps
<1>3. CASE ~Valid
  <2>1. result' = "UBloxError" /\ UNCHANGED <<type, buf, content, edits>>
    BY <1>3 DEF Unpack
  <2> QED
    BY <2>1, <1>1, Leaves
<1> QED
  BY <1>2, <1>3

LEMMA FormatKeeps == ASSUME MsgInv, Format PROVE MsgInv'
<1>1. Outcome \in Results /\ "shown" \in Results /\ Outcome # "shown"
  BY OutcomeMeans DEF Results
<1>2. CASE unpacked
  <2>1. result' = "shown" /\ UNCHANGED <<type, buf, content, edits>> /\ Valid
    BY <1>2 DEF Format
  <2> QED
    BY <2>1, <1>1, <1>2, Leaves
<1>3. CASE ~unpacked
  <2>1. /\ DoUnpack /\ UNCHANGED <<type, buf, edits>> /\ Valid
        /\ result' = IF Outcome = "ok" THEN "shown" ELSE Outcome
    BY <1>3 DEF Format
  <2> QED
    BY <2>1, <1>1, DoUnpackKeeps
<1> QED
  BY <1>2, <1>3

LEMMA SetFieldKeeps ==
  ASSUME MsgInv, NEW name \in ToSet(NamesOf(d.blocks)), NEW value \in {Edited, Refused},
         SetField(name, value)
  PROVE  MsgInv'
<1>1. /\ UNCHANGED <<type, buf, recs, refused, unpacked, result, accepted>>
      /\ edits < MaxEdits /\ edits' = edits + 1
      /\ fields' = [n \in DOMAIN fields \cup {name} |-> IF n = name THEN value ELSE fields[n]]
      /\ counted' \in 0..MaxRecords \/ counted' = counted
      /\ name # d.count => counted' = counted
  BY DEF SetField
<1>2. /\ d' = d /\ Taken' = Taken /\ (TooShort' <=> TooShort) /\ Rest' = Rest
      /\ Count' = Count /\ Fitting' = Fitting /\ (Valid' <=> Valid) /\ (OwnCount' <=> OwnCount)
      /\ type' = type /\ buf' = buf
  BY <1>1, SamePayload
<1>3. /\ DOMAIN fields' = DOMAIN fields \cup {name} /\ fields'[name] = value
      /\ \A n \in DOMAIN fields : n # name => fields'[n] = fields[n]
  BY <1>1
<1>4. \A n : Covered(n) => Covered(n)'
  BY <1>2, <1>3 DEF Covered
<1>5. Shaped'
  <2>1. value \in 0..38
    BY DEF Edited, Refused
  <2>2. \A n \in DOMAIN fields' : fields'[n] \in 0..38
    BY <2>1, <1>3 DEF MsgInv, Shaped
  <2>3. edits' \in 0..MaxEdits /\ counted' \in 0..MaxRecords
    BY <1>1, BoundsAssumption DEF MsgInv, Shaped
  <2>4. DOMAIN fields' \subseteq ToSet(NamesOf(d'.blocks))
    BY <1>2, <1>3 DEF MsgInv, Shaped
  <2> QED
    BY <2>2, <2>3, <2>4, <1>1, <1>2 DEF MsgInv, Shaped
<1>6. (Agrees => Agrees') /\ (Repeats => Repeats')
  BY <1>1, <1>2, <1>4 DEF Agrees, Repeats
<1>7. CountsRight'
  <2> SUFFICES ASSUME unpacked, d.count \notin {0, Remaining}, d.count \in DOMAIN fields',
                      fields'[d.count] \notin {Edited, Refused}
               PROVE  counted' = recs
    BY <1>1, <1>2 DEF CountsRight
  <2>1. name # d.count
    BY <1>3
  <2>2. d.count \in DOMAIN fields /\ fields'[d.count] = fields[d.count] /\ counted' = counted
    BY <2>1, <1>1, <1>3
  <2> QED
    BY <2>2 DEF MsgInv, CountsRight
<1>8. ASSUME Accepted PROVE Accepted'
  <2>1. ASSUME type # "AID_AOP", NEW i \in 1..Len(NamesUpTo(d, Taken))
        PROVE  fields'[i] \in {buf.vals[i], Edited, Refused}
    <3>1. Shaped /\ Covered(Taken) /\ fields[i] \in {buf.vals[i], Edited, Refused}
      BY <1>8, <2>1 DEF MsgInv, Accepted
    <3>2. Taken \in 0..Len(d.blocks)
      BY <3>1, Here
    <3>3. i \in DOMAIN fields
      BY <3>1, <3>2, <2>1, FieldsByNumber DEF Covered
    <3> QED
      BY <1>3, <3>1, <3>3
  <2> QED
    BY <2>1, <1>1, <1>2, <1>4, <1>8 DEF Accepted
<1> QED
  BY <1>1, <1>2, <1>5, <1>6, <1>7, <1>8 DEF MsgInv

LEMMA SetInBlockKeeps == ASSUME MsgInv, SetInBlock PROVE MsgInv'
<1>1. /\ UNCHANGED <<type, buf, fields, counted, recs, unpacked, result, accepted>>
      /\ edits < MaxEdits /\ edits' = edits + 1 /\ refused' \in BOOLEAN
  BY DEF SetInBlock
<1>2. /\ d' = d /\ Taken' = Taken /\ (TooShort' <=> TooShort) /\ Rest' = Rest
      /\ Count' = Count /\ Fitting' = Fitting /\ (Valid' <=> Valid) /\ (OwnCount' <=> OwnCount)
      /\ type' = type /\ buf' = buf
  BY <1>1, SamePayload
<1>3. edits' \in 0..MaxEdits
  BY <1>1, BoundsAssumption DEF MsgInv, Shaped
<1>4. /\ Shaped' /\ (Agrees => Agrees') /\ (Repeats => Repeats')
      /\ (CountsRight => CountsRight') /\ (Accepted => Accepted')
  BY <1>1, <1>2, <1>3 DEF MsgInv, Shaped, Agrees, Repeats, Covered, CountsRight, Accepted
<1> QED
  BY <1>1, <1>2, <1>4 DEF MsgInv
----------------------------------------------------------------------------
LEMMA Listing ==
  ASSUME NEW S, NEW k \in Nat, NEW c \in [1..k -> S]
  PROVE  c \in Seq(S) /\ Len(c) = k
OBVIOUS

LEMMA Narrowed ==
  ASSUME NEW T, NEW S, NEW c \in Seq(T), \A i \in 1..Len(c) : c[i] \in S
  PROVE  c \in Seq(S)
OBVIOUS

LEMMA Least ==
  ASSUME NEW S, S \subseteq Nat, S # {}
  PROVE  \E m \in S : \A j \in S : m <= j
<1>1. \E m \in S : \A j \in S : ~(<<j, m>> \in OpToRel(<, Nat))
  BY WFMin, NatLessThanWellFounded, Zenon
<1>2. PICK m \in S : \A j \in S : ~(<<j, m>> \in OpToRel(<, Nat))
  BY <1>1
<1>3. \A j \in S : ~(j < m)
  BY <1>2 DEF OpToRel
<1> QED
  BY <1>3

(* The names of the first blocks come first among those of all.            *)
LEMMA NamesFirst ==
  ASSUME Shaped, type # "AID_ALM", NEW n \in 0..Len(d.blocks),
         NEW M, M = NamesUpTo(d, n), NEW N, N = NamesOf(d.blocks)
  PROVE  /\ M \in Seq(Nat) /\ N \in Seq(Nat) /\ Len(M) \in Nat /\ Len(N) \in Nat
         /\ N = NamesUpTo(d, Len(d.blocks)) /\ Len(M) <= Len(N)
         /\ \A i \in 1..Len(M) : M[i] = N[i] /\ M[i] \in ToSet(M)
         /\ n = Len(d.blocks) => Len(M) = Len(N)
         /\ n < Len(d.blocks) => Len(M) < Len(N) /\ N[Len(M) + 1] \notin ToSet(M)
<1>1. Layout(d) /\ Growing(d)
  BY Table DEF Shaped, d
<1>2. PICK L \in 1..2 : L = Len(d.blocks)
  BY <1>1, Zenon DEF Layout
<1>3. L \in 0..L /\ n \in 0..L
  BY <1>2
<1>4. N = NamesUpTo(d, L)
  <2>1. Blocks(d, L) = d.blocks
    BY <1>1, <1>2, Zenon DEF Layout
  <2> QED
    BY <2>1 DEF NamesUpTo
<1>5. N \in Seq(Nat) /\ M \in Seq(Nat) /\ \A i \in 1..Len(M) : M[i] = N[i]
  BY <1>1, <1>2, <1>3, <1>4, Zenon DEF Layout
<1>6. \A i \in 1..Len(M) : M[i] \in ToSet(M)
  BY <1>5 DEF ToSet
<1>7. n < L => Len(M) < Len(N) /\ N[Len(M) + 1] \notin ToSet(M)
  BY <1>1, <1>2, <1>3, <1>4, <1>5, Zenon DEF Growing
<1>8. n = L => Len(M) = Len(N)
  BY <1>4, Zenon
<1>9. Len(M) \in Nat /\ Len(N) \in Nat
  BY <1>5
<1>10. Len(M) <= Len(N)
  BY <1>3, <1>7, <1>8, <1>9
<1> QED
  BY <1>2, <1>4, <1>5, <1>6, <1>7, <1>8, <1>9, <1>10

(* The values that pack collects: those before the first missing one.      *)
LEMMA CollectedIs ==
  ASSUME Shaped, type # "AID_ALM", NEW N, N = NamesOf(d.blocks)
  PROVE  \E k \in 0..Len(N) :
           /\ Collected \in Seq(0..38) /\ Len(Collected) = k
           /\ \A i \in 1..k : Collected[i] = fields[N[i]] /\ N[i] \in DOMAIN fields
           /\ k < Len(N) => N[k + 1] \notin DOMAIN fields
<1>1. N \in Seq(Nat) /\ Len(N) \in Nat /\ DOMAIN N = 1..Len(N)
  <2>1. 0 \in 0..Len(d.blocks)
    BY Here
  <2> QED
    BY <2>1, NamesFirst
<1> DEFINE missing == {i \in 1..Len(N) : N[i] \notin DOMAIN fields}
<1>2. PICK k \in 0..Len(N) : /\ \A i \in 1..k : N[i] \in DOMAIN fields
                             /\ k < Len(N) => N[k + 1] \notin DOMAIN fields
  <2>1. CASE missing = {}
    <3>1. Len(N) \in 0..Len(N) /\ \A i \in 1..Len(N) : N[i] \in DOMAIN fields
      BY <2>1, <1>1
    <3> QED
      BY <3>1, <1>1
  <2>2. CASE missing # {}
    <3>1. PICK m \in missing : \A j \in missing : m <= j
      <4>1. missing \subseteq Nat
        BY <1>1
      <4> HIDE DEF missing
      <4> QED
        BY <4>1, <2>2, Least
    <3>2. m - 1 \in 0..Len(N) /\ (m - 1) + 1 = m
      BY <3>1, <1>1
    <3>3. \A i \in 1..(m - 1) : N[i] \in DOMAIN fields
      BY <3>1, <1>1
    <3> QED
      BY <3>1, <3>2, <3>3
  <2> QED
    BY <2>1, <2>2
<1> HIDE DEF missing
<1>3. {i \in DOMAIN N : \A j \in 1..i : N[j] \in DOMAIN fields} = 1..k
  <2>1. ASSUME NEW i \in 1..k
        PROVE  i \in DOMAIN N /\ \A j \in 1..i : N[j] \in DOMAIN fields
    BY <1>1, <1>2
  <2>2. ASSUME NEW i \in DOMAIN N, \A j \in 1..i : N[j] \in DOMAIN fields
        PROVE  i \in 1..k
    <3>1. i \in 1..Len(N)
      BY <1>1
    <3>2. CASE i > k
      <4>1. k < Len(N) /\ k + 1 \in 1..i
        BY <3>1, <3>2, <1>1
      <4> QED
        BY <4>1, <2>2, <1>2, Zenon
    <3> QED
      BY <3>1, <3>2, <1>1
  <2> QED
    BY <2>1, <2>2
<1>4. Cardinality(1..k) = k
  <2>1. 1 \in Int /\ k \in Int /\ k \in Nat
    BY <1>1
  <2>2. Cardinality(1..k) = IF 1 > k THEN 0 ELSE k - 1 + 1
    BY <2>1, FS_Interval
  <2> QED
    BY <2>1, <2>2
<1>5. Collected = [i \in 1..k |-> fields[N[i]]]
  BY <1>3, <1>4 DEF Collected
<1>6. PICK c : c = [i \in 1..k |-> fields[N[i]]]
  OBVIOUS
<1>7. c \in Seq(0..38) /\ Len(c) = k
  <2>1. PICK S : S = 0..38
    OBVIOUS
  <2>2. \A i \in 1..k : fields[N[i]] \in S
    BY <2>1, <1>2 DEF Shaped
  <2>3. c \in [1..k -> S]
    BY <2>2, <1>6
  <2>4. k \in Nat
    BY <1>1
  <2>5. c \in Seq(S) /\ Len(c) = k
    BY <2>3, <2>4, Listing
  <2> QED
    BY <2>1, <2>5
<1>8. \A i \in 1..k : c[i] = fields[N[i]]
  BY <1>6
<1> QED
  BY <1>2, <1>5, <1>6, <1>7, <1>8

(* The format that fits: one, and the last of those whose fields are there.*)
LEMMA FitsIs ==
  ASSUME Shaped, Fits # {}
  PROVE  \E m \in 1..Len(d.blocks) :
           /\ type # "AID_ALM" /\ Max(Fits) = m /\ Covered(m)
           /\ Collected \in Seq(0..37) /\ Len(Collected) = Len(NamesUpTo(d, m))
           /\ \A i \in 1..Len(NamesUpTo(d, m)) : Collected[i] = fields[NamesUpTo(d, m)[i]]
           /\ \A n \in 0..Len(d.blocks) : Covered(n) => n <= m
<1>1. PICK L \in 1..2 : L = Len(d.blocks)
  BY Here
<1>2. PICK m \in {1, L} : /\ Len(Collected) = Len(NamesUpTo(d, m)) /\ type # "AID_ALM"
                          /\ Refused \notin ToSet(Collected) /\ m \in Fits
  BY <1>1 DEF Fits, Formats, NamesUpTo
<1>3. m \in 1..L /\ m \in 0..L
  OBVIOUS
<1>4. PICK N : N = NamesOf(d.blocks)
  OBVIOUS
<1>5. PICK M : M = NamesUpTo(d, m)
  OBVIOUS
<1>6. PICK k \in 0..Len(N) :
           /\ Collected \in Seq(0..38) /\ Len(Collected) = k
           /\ \A i \in 1..k : Collected[i] = fields[N[i]] /\ N[i] \in DOMAIN fields
           /\ k < Len(N) => N[k + 1] \notin DOMAIN fields
  BY <1>2, <1>4, CollectedIs
<1>7. /\ M \in Seq(Nat) /\ N \in Seq(Nat) /\ Len(M) \in Nat /\ Len(N) \in Nat
      /\ \A i \in 1..Len(M) : M[i] = N[i] /\ M[i] \in ToSet(M)
      /\ m = L => Len(M) = Len(N)
      /\ m < L => Len(M) < Len(N)
  BY <1>1, <1>2, <1>3, <1>4, <1>5, NamesFirst
<1>8. k = Len(M)
  BY <1>2, <1>5, <1>6
<1>9. \A i \in 1..Len(M) : Collected[i] = fields[M[i]] /\ M[i] \in DOMAIN fields
  BY <1>6, <1>7, <1>8
<1>10. Covered(m)
  <2>1. DOMAIN M = 1..Len(M)
    BY <1>7
  <2>2. \A x \in ToSet(M) : \E i \in 1..Len(M) : x = M[i]
    BY <2>1 DEF ToSet
  <2>3. ToSet(M) \subseteq DOMAIN fields
    BY <2>2, <1>9
  <2> QED
    BY <2>3, <1>5 DEF Covered
<1>11. Collected \in Seq(0..37)
  <2>1. PICK c \in Seq(0..38) : c = Collected
    BY <1>6
  <2>2. \A i \in 1..Len(c) : c[i] \in 0..38 /\ c[i] # 38
    BY <2>1, <1>2 DEF ToSet, Refused
  <2>3. \A i \in 1..Len(c) : c[i] \in 0..37
    BY <2>2
  <2>4. PICK S : S = 0..37
    OBVIOUS
  <2>5. \A i \in 1..Len(c) : c[i] \in S
    BY <2>3, <2>4
  <2>6. c \in Seq(S)
    <3>1. PICK T : c \in Seq(T)
      BY <2>1
    <3> QED
      BY <3>1, <2>5, Narrowed
  <2> QED
    BY <2>1, <2>4, <2>6
<1>12. ASSUME NEW n \in 0..L, Covered(n) PROVE n <= m
  <2> SUFFICES ASSUME m < n PROVE FALSE
    BY <1>3
  <2>1. PICK P : P = NamesUpTo(d, n)
    OBVIOUS
  <2>2. /\ P \in Seq(Nat) /\ Len(P) \in Nat /\ Len(P) <= Len(N)
        /\ \A i \in 1..Len(P) : P[i] = N[i] /\ P[i] \in ToSet(P)
    BY <2>1, <1>1, <1>2, <1>4, NamesFirst
  <2>3. Len(M) < Len(P)
    <3>1. Growing(d)
      BY <1>2, Table DEF Shaped, d
    <3> QED
      BY <3>1, <2>1, <1>1, <1>3, <1>5 DEF Growing
  <2>4. k + 1 \in 1..Len(P) /\ k < Len(N)
    BY <2>2, <2>3, <1>7, <1>8
  <2>5. N[k + 1] \in DOMAIN fields
    BY <2>1, <2>2, <2>4, <1>12 DEF Covered
  <2> QED
    BY <2>4, <2>5, <1>6
<1>13. Max(Fits) = m
  <2>1. \A n \in Fits : n = m
    <3> SUFFICES ASSUME NEW n \in Fits PROVE n = m
      OBVIOUS
    <3>1. n \in {1, L} /\ Len(NamesUpTo(d, n)) = Len(NamesUpTo(d, m))
      BY <1>1, <1>2 DEF Fits, Formats, NamesUpTo
    <3>2. Growing(d)
      BY <1>2, Table DEF Shaped, d
    <3>3. n < m \/ m < n => Len(NamesUpTo(d, n)) < Len(M) \/ Len(M) < Len(NamesUpTo(d, n))
      BY <3>1, <3>2, <1>1, <1>3, <1>5 DEF Growing
    <3>4. ~(n < m \/ m < n)
      BY <3>1, <3>3, <1>5, <1>7
    <3> QED
      BY <3>1, <3>4, <1>3
  <2>2. Fits = {m}
    BY <2>1, <1>2
  <2>3. m = 1 \/ m = 2
    BY <1>3
  <2> QED
    BY <2>2, <2>3, Maxima
<1>14. \A n \in 0..Len(d.blocks) : Covered(n) => n <= m
  BY <1>1, <1>12
<1> QED
  BY <1>1, <1>2, <1>3, <1>5, <1>8, <1>6, <1>9, <1>10, <1>11, <1>13, <1>14

(* The fields of the first blocks and no others, all of them values that   *)
(* struct.pack takes, can be packed.                                       *)
LEMMA SoundFits ==
  ASSUME Shaped, type # "AID_ALM", NEW n \in 1..Len(d.blocks),
         DOMAIN fields = ToSet(NamesUpTo(d, n)),
         \A name \in DOMAIN fields : fields[name] # Refused, ~refused
  PROVE  n \in Fits
<1>1. PICK L \in 1..2 : L = Len(d.blocks)
  BY Here
<1>2. n \in {1, L} /\ n \in 0..L
  <2>1. n \in 1..L
    BY <1>1
  <2>2. L = 1 \/ L = 2
    OBVIOUS
  <2> QED
    BY <2>1, <2>2
<1>3. PICK N : N = NamesOf(d.blocks)
  OBVIOUS
<1>4. PICK M : M = NamesUpTo(d, n)
  OBVIOUS
<1>5. PICK k \in 0..Len(N) :
           /\ Collected \in Seq(0..38) /\ Len(Collected) = k
           /\ \A i \in 1..k : Collected[i] = fields[N[i]] /\ N[i] \in DOMAIN fields
           /\ k < Len(N) => N[k + 1] \notin DOMAIN fields
  BY <1>3, CollectedIs
<1>6. /\ Len(M) \in Nat /\ Len(N) \in Nat /\ Len(M) <= Len(N)
      /\ \A i \in 1..Len(M) : M[i] = N[i] /\ M[i] \in ToSet(M)
      /\ n = L => Len(M) = Len(N)
      /\ n < L => N[Len(M) + 1] \notin ToSet(M)
  BY <1>1, <1>2, <1>3, <1>4, NamesFirst
<1>7. ~(k < Len(M))
  <2> SUFFICES ASSUME k < Len(M) PROVE FALSE
    OBVIOUS
  <2>1. k < Len(N) /\ k + 1 \in 1..Len(M)
    BY <1>5, <1>6
  <2>2. N[k + 1] \in DOMAIN fields
    BY <2>1, <1>4, <1>6
  <2> QED
    BY <2>1, <2>2, <1>5
<1>8. ~(k > Len(M))
  <2> SUFFICES ASSUME k > Len(M) PROVE FALSE
    OBVIOUS
  <2>1. Len(M) + 1 \in 1..k /\ Len(M) # Len(N)
    BY <1>5, <1>6
  <2>2. n < L
    BY <2>1, <1>2, <1>6
  <2> QED
    BY <2>1, <2>2, <1>4, <1>5, <1>6
<1>9. k = Len(M)
  BY <1>5, <1>6, <1>7, <1>8
<1>10. Refused \notin ToSet(Collected)
  <2>1. PICK c \in Seq(0..38) : c = Collected
    BY <1>5
  <2>2. \A i \in 1..Len(c) : c[i] # Refused
    BY <2>1, <1>5
  <2> QED
    BY <2>1, <2>2 DEF ToSet
<1> QED
  BY <1>1, <1>2, <1>4, <1>5, <1>9, <1>10 DEF Fits, Formats, NamesUpTo

(* The payload that pack leaves, as the next unpack sees it.               *)
LEMMA NextPayload ==
  ASSUME Shaped, type' = type, NEW n \in 1..Len(d.blocks), NEW r \in Nat,
         buf'.len = SizeUpTo(d, n) + r, r # 0 => n = Len(d.blocks)
  PROVE  /\ d' = d /\ Taken' = n /\ Rest' = r /\ buf'.len \in Nat /\ ~TooShort'
         /\ Fitting' = IF d.size2 = 0 THEN 0 ELSE r \div d.size2
<1>1. Layout(d)
  BY Table DEF Shaped, d
<1>2. PICK L \in 1..2 : L = Len(d.blocks)
  BY <1>1, Zenon DEF Layout
<1>3. n \in 0..L /\ n \in 1..L
  BY <1>2
<1>4. PICK s \in Nat : s = SizeUpTo(d, n)
  BY <1>1, <1>2, <1>3, Zenon DEF Layout
<1>5. PICK len \in Nat : len = buf'.len /\ len = s + r /\ s <= len /\ len - s = r /\ (r = 0 => s = len)
  <2>1. s + r \in Nat /\ s <= s + r /\ (s + r) - s = r /\ (r = 0 => s = s + r)
    OBVIOUS
  <2> QED
    BY <2>1, <1>4
<1>6. Holding(d, len, n)
  <2>1. CASE r = 0
    BY <2>1, <1>1, <1>2, <1>3, <1>4, <1>5, HoldingWhole
  <2>2. CASE r # 0
    <3>1. \A m \in 0..Len(d.blocks) : m <= n
      BY <2>2, <1>2
    <3> QED
      BY <3>1, <1>2, <1>3, <1>4, <1>5 DEF Holding
  <2> QED
    BY <2>1, <2>2
<1>7. TakenAt(d, len) = n
  BY <1>1, <1>6, TakenIsHeld, HoldingOnce
<1>8. d' = d
  BY DEF d
<1>9. /\ Taken' = TakenAt(d', buf'.len) /\ (TooShort' <=> TooShortAt(d', buf'.len))
      /\ Rest' = buf'.len - SizeUpTo(d', TakenAt(d', buf'.len))
  BY DEF Taken, Exact, Whole, TooShort, Rest, TakenAt, ExactAt, WholeAt, TooShortAt, SizeUpTo, d
<1>10. Taken' = n /\ Rest' = r
  BY <1>4, <1>5, <1>7, <1>8, <1>9, Zenon
<1>11. ~TooShort'
  <2>1. TooShortAt(d, len) <=> n < Len(d.blocks) /\ (n = 0 \/ SizeUpTo(d, n) # len)
    BY <1>1, <1>7, TakenIsHeld
  <2>2. ~TooShortAt(d, len)
    BY <2>1, <1>2, <1>3, <1>4, <1>5
  <2> QED
    BY <2>2, <1>5, <1>8, <1>9, Zenon
<1> QED
  BY <1>5, <1>8, <1>10, <1>11 DEF Fitting

LEMMA PackedInv ==
  ASSUME MsgInv, Pack, Valid, result' = "packed", NEW m \in 1..Len(d.blocks),
         buf' = PackedPayload(Blocks(d, m)), type # "AID_ALM", Covered(m),
         Collected \in Seq(0..37), Len(Collected) = Len(NamesUpTo(d, m)),
         \A i \in 1..Len(NamesUpTo(d, m)) : Collected[i] = fields[NamesUpTo(d, m)[i]]
  PROVE  /\ MsgInv' /\ buf'.len = SizeUpTo(d, m) + recs * d.size2
         /\ buf'.vals = Collected
<1>1. /\ Shaped /\ (recs > 0 => Repeats) /\ recs \in Nat /\ counted \in 0..MaxRecords
      /\ CountsRight /\ (accepted => Accepted)
  BY DEF MsgInv, Shaped
<1>2. UNCHANGED <<type, fields, counted, recs, refused, unpacked, edits, accepted>>
  BY DEF Pack, content
<1>3. /\ buf'.len = SizeUpTo(d, m) + recs * d.size2 /\ buf'.cnt = counted /\ buf'.vals = Collected
  BY DEF PackedPayload, SizeUpTo
<1>4. /\ Layout(d) /\ Len(d.blocks) \in 1..2 /\ d.size2 \in Nat /\ d.count \in Nat
      /\ (d.size2 = 0 <=> d.count = 0)
  BY <1>1, Here
<1>5. PICK r \in Nat : r = recs * d.size2 /\ (r # 0 => recs > 0) /\ (recs = 0 => r = 0)
  <2>1. recs * d.size2 \in Nat
    BY <1>1, <1>4
  <2>2. recs = 0 => recs * d.size2 = 0
    BY <1>4
  <2>3. recs * d.size2 # 0 => recs > 0
    BY <1>1, <2>2
  <2> QED
    BY <2>1, <2>2, <2>3
<1>6. /\ d' = d /\ Taken' = m /\ Rest' = r /\ buf'.len \in Nat /\ ~TooShort'
      /\ Fitting' = IF d.size2 = 0 THEN 0 ELSE r \div d.size2
  <2>1. r # 0 => m = Len(d.blocks)
    <3> SUFFICES ASSUME r # 0 PROVE m = Len(d.blocks)
      OBVIOUS
    <3>1. Len(d.blocks) = 1
      BY <1>1, <1>5 DEF Repeats
    <3>2. m \in 1..1
      BY <3>1
    <3> QED
      BY <3>1, <3>2
  <2>2. buf'.len = SizeUpTo(d, m) + r /\ type' = type
    BY <1>2, <1>3, <1>5
  <2> QED
    BY <1>1, <2>1, <2>2, NextPayload
<1>7. m \in 0..Len(d.blocks)
  BY <1>4
<1>8. recs <= Fitting'
  <2>1. CASE recs = 0
    <3>1. d.size2 # 0 => r \div d.size2 \in Nat
      BY <1>4, <1>5, Divisions
    <3> QED
      BY <2>1, <3>1, <1>6
  <2>2. CASE recs # 0
    <3>1. d.size2 > 0
      BY <2>2, <1>1 DEF Repeats
    <3>2. r \div d.size2 = recs
      BY <3>1, <1>1, <1>4, <1>5, Divisions
    <3> QED
      BY <3>1, <3>2, <1>1, <1>6
  <2> QED
    BY <2>1, <2>2
<1>9. Shaped'
  <2>1. "packed" \in Results
    BY DEF Results
  <2> QED
    BY <2>1, <1>1, <1>2, <1>3, <1>6 DEF Shaped
<1>10. Covered(Taken)'
  BY <1>2, <1>6 DEF Covered
<1>11. ASSUME unpacked, OwnCount' PROVE recs = Count'
  <2>1. CASE d.count = Remaining
    <3>1. recs = 0
      BY <2>1, <1>1 DEF Repeats
    <3> QED
      BY <3>1, <2>1, <1>5, <1>6 DEF Count
  <2>2. CASE d.count = 0
    <3>1. recs = 0
      BY <2>2, <1>1, <1>4 DEF Repeats
    <3> QED
      BY <3>1, <2>2, <1>6 DEF Count, Remaining
  <2>3. CASE d.count \notin {0, Remaining}
    <3>1. Count' = counted
      BY <2>3, <1>3, <1>6 DEF Count
    <3>2. /\ type # "AID_AOP" /\ Len(d.blocks) = 1 /\ d.count \in 1..Len(NamesUpTo(d, 1))
      BY <2>3, <1>1, CountedFacts
    <3>3. m = 1
      BY <3>2
    <3>4. d.count \in DOMAIN Collected
      BY <3>2, <3>3
    <3>5. NamesUpTo(d, m)[d.count] = d.count /\ d.count \in DOMAIN fields
      BY <3>2, <3>3, <1>1, <1>7, FieldsByNumber DEF Covered
    <3>6. Collected[d.count] = fields[d.count]
      BY <3>2, <3>3, <3>5
    <3>7. Collected[d.count] # Refused
      <4>1. PICK c \in Seq(0..37) : c = Collected
        OBVIOUS
      <4>2. d.count \in 1..Len(c)
        BY <3>2, <3>3, <4>1
      <4>3. c[d.count] \in 0..37
        BY <4>2, ElementsOf
      <4>4. \A x \in 0..37 : x # Refused
        BY DEF Refused
      <4> QED
        BY <4>1, <4>3, <4>4, Zenon
    <3>8. Collected[d.count] # Edited
      BY <3>4, <1>3, <1>6, <1>11 DEF OwnCount
    <3> QED
      BY <2>3, <3>1, <3>5, <3>6, <3>7, <3>8, <1>1, <1>11 DEF CountsRight
  <2> QED
    BY <2>1, <2>2, <2>3
<1>12. unpacked /\ OwnCount' => Agrees'
  BY <1>2, <1>6, <1>10, <1>11 DEF Agrees
<1>13. CountsRight'
  BY <1>1, <1>2, <1>6 DEF CountsRight
<1>14. ASSUME accepted PROVE Accepted'
  <2>1. Accepted
    BY <1>1, <1>14
  <2>2. ASSUME type # "AID_AOP", NEW i \in 1..Len(NamesUpTo(d, m))
        PROVE  fields[i] = buf'.vals[i]
    <3>1. NamesUpTo(d, m)[i] = i
      BY <2>2, <1>1, <1>7, FieldsByNumber
    <3> QED
      BY <3>1, <1>3
  <2> QED
    BY <2>1, <2>2, <1>2, <1>5, <1>6, <1>10 DEF Accepted
<1>15. recs > 0 => Repeats'
  BY <1>1, <1>6 DEF Repeats
<1>16. Len(buf'.vals) = Len(NamesUpTo(d', Taken'))
  BY <1>3, <1>6
<1> QED
  BY <1>2, <1>3, <1>8, <1>9, <1>12, <1>13, <1>14, <1>15, <1>16 DEF MsgInv

(* What pack does to a valid message.                                      *)
LEMMA PackDoes ==
  ASSUME MsgInv, Pack, Valid
  PROVE  \/ Fits = {} /\ buf' = Destroyed /\ result' = "struct.error"
         \/ /\ MsgInv' /\ type # "AID_ALM"
            /\ \E m \in 1..Len(d.blocks) :
                 /\ buf'.len = SizeUpTo(d, m) + recs * d.size2
                 /\ Covered(m) /\ \A n \in 0..Len(d.blocks) : Covered(n) => n <= m
                 /\ buf'.vals \in Seq(0..37) /\ Len(buf'.vals) = Len(NamesUpTo(d, m))
                 /\ \A i \in 1..Len(NamesUpTo(d, m)) :
                      buf'.vals[i] = fields[NamesUpTo(d, m)[i]]
<1>1. CASE Fits = {}
  BY <1>1 DEF Pack
<1>2. CASE Fits # {}
  <2>1. PICK m \in 1..Len(d.blocks) :
           /\ type # "AID_ALM" /\ Max(Fits) = m /\ Covered(m)
           /\ Collected \in Seq(0..37) /\ Len(Collected) = Len(NamesUpTo(d, m))
           /\ \A i \in 1..Len(NamesUpTo(d, m)) : Collected[i] = fields[NamesUpTo(d, m)[i]]
           /\ \A n \in 0..Len(d.blocks) : Covered(n) => n <= m
    BY <1>2, FitsIs DEF MsgInv
  <2>2. buf' = PackedPayload(Blocks(d, m)) /\ result' = "packed"
    BY <2>1, <1>2 DEF Pack
  <2>3. /\ MsgInv' /\ buf'.len = SizeUpTo(d, m) + recs * d.size2
        /\ buf'.vals = Collected
    BY <2>1, <2>2, PackedInv
  <2> QED
    BY <2>1, <2>3
<1> QED
  BY <1>1, <1>2

LEMMA PackKeepsInv == ASSUME MsgInv, Pack PROVE MsgInv'
<1>1. CASE ~Valid
  <2>1. result' = "NameError" /\ UNCHANGED <<type, buf, content, edits>>
    BY <1>1 DEF Pack
  <2>2. "NameError" \in Results
    BY DEF Results
  <2> QED
    BY <2>1, <2>2, Leaves
<1>2. CASE Valid /\ buf' = Destroyed /\ result' = "struct.error"
  <2>1. /\ UNCHANGED <<type, fields, counted, recs, refused, unpacked, edits, accepted>>
        /\ d' = d
    BY DEF Pack, content, d
  <2>2. Shaped'
    <3>1. "struct.error" \in Results /\ 0 \in 0..MaxRecords /\ <<>> \in Seq(0..37) /\ 0 \in Nat
      BY BoundsAssumption DEF Results
    <3>2. buf'.len = 0 /\ buf'.cnt = 0 /\ buf'.vals = <<>>
      BY <1>2 DEF Destroyed
    <3> QED
      BY <3>1, <3>2, <2>1, <1>2 DEF MsgInv, Shaped
  <2>3. ~Valid'
    BY <1>2 DEF Valid
  <2>4. CountsRight' /\ (recs > 0 => Repeats')
    BY <2>1 DEF MsgInv, CountsRight, Repeats
  <2> QED
    BY <1>2, <2>1, <2>2, <2>3, <2>4 DEF MsgInv
<1> QED
  BY <1>1, <1>2, PackDoes

LEMMA StepMsgInv == MsgInv /\ [Next]_vars => MsgInv'
<1> SUFFICES ASSUME MsgInv, [Next]_vars PROVE MsgInv'
  OBVIOUS
<1>1. CASE Unpack
  BY <1>1, UnpackKeeps
<1>2. CASE Format
  BY <1>2, FormatKeeps
<1>3. CASE Pack
  BY <1>3, PackKeepsInv
<1>4. CASE SetInBlock
  BY <1>4, SetInBlockKeeps
<1>5. CASE \E name \in ToSet(NamesOf(d.blocks)), value \in {Edited, Refused} :
             SetField(name, value)
  BY <1>5, SetFieldKeeps
<1>6. CASE UNCHANGED vars
  <2>1. UNCHANGED <<type, buf, content, edits>> /\ result' = result
    BY <1>6 DEF vars, content
  <2>2. result \in Results /\ (result = "shown" => unpacked /\ Valid)
    BY DEF MsgInv, Shaped
  <2> QED
    BY <2>1, <2>2, Leaves
<1> QED
  BY <1>1, <1>2, <1>3, <1>4, <1>5, <1>6 DEF Next

(* The invariant holds of every message of every type.                     *)
THEOREM MsgInvHolds == Spec => []MsgInv
<1>1. Init => MsgInv
  BY InitMsgInv
<1>2. MsgInv /\ [Next]_vars => MsgInv'
  BY StepMsgInv
<1> QED
  BY <1>1, <1>2, PTL DEF Spec
----------------------------------------------------------------------------
LEMMA InvTypeOK == MsgInv => TypeOK
<1> SUFFICES ASSUME MsgInv PROVE TypeOK
  OBVIOUS
<1>1. Shaped /\ (Valid => recs <= Fitting)
  BY DEF MsgInv
<1>2. Fitting \in Nat
  BY <1>1, Here
<1>3. Valid => recs \in 0..Fitting
  <2>1. recs \in Nat
    BY <1>1 DEF Shaped
  <2> QED
    BY <2>1, <1>1, <1>2
<1> QED
  BY <1>1, <1>3 DEF TypeOK, Shaped

LEMMA InvStaysWellFormed == MsgInv => StaysWellFormed
<1> SUFFICES ASSUME MsgInv, accepted, Valid
             PROVE  /\ ~TooShort /\ Rest = recs * d.size2 /\ Present \subseteq DOMAIN fields
                    /\ OwnCount => Outcome = "ok"
  BY DEF StaysWellFormed
<1>1. Accepted /\ (OwnCount => Agrees) /\ (recs > 0 => Repeats) /\ recs \in Nat
  BY DEF MsgInv, Accepted, Shaped
<1>2. ASSUME OwnCount PROVE Outcome = "ok"
  <2>1. recs = Count /\ type # "AID_ALM" /\ ~TooShort /\ Rest = recs * d.size2
    BY <1>1, <1>2 DEF Agrees, Accepted
  <2>2. ~(Count > 0 /\ d.count = Remaining)
    BY <2>1, <1>1 DEF Repeats
  <2> QED
    BY <2>1, <2>2 DEF Outcome
<1> QED
  BY <1>1, <1>2 DEF Accepted, Covered, Present, NamesUpTo

LEMMA InvShownIsWhole == MsgInv => ShownIsWhole
BY DEF MsgInv, ShownIsWhole, Agrees, Covered, Present, NamesUpTo

LEMMA StepPackKeeps ==
  MsgInv /\ [Next]_vars =>
    [Pack /\ accepted /\ Valid /\ type # "AID_AOP" =>
       \/ /\ Sound => buf'.len = buf.len
          /\ \A i \in DOMAIN buf.vals :
               i \in DOMAIN buf'.vals /\ buf'.vals[i] \in {buf.vals[i], Edited}
       \/ ~Sound /\ buf' = Destroyed]_vars
<1> SUFFICES ASSUME MsgInv, Pack, accepted, Valid, type # "AID_AOP"
             PROVE  \/ /\ Sound => buf'.len = buf.len
                       /\ \A i \in DOMAIN buf.vals :
                            i \in DOMAIN buf'.vals /\ buf'.vals[i] \in {buf.vals[i], Edited}
                    \/ ~Sound /\ buf' = Destroyed
  OBVIOUS
<1>1. /\ Shaped /\ Accepted /\ Len(buf.vals) = Len(NamesUpTo(d, Taken))
      /\ \A i \in 1..Len(NamesUpTo(d, Taken)) : fields[i] \in {buf.vals[i], Edited, Refused}
  BY DEF MsgInv, Accepted
<1>2. PICK L \in 1..2 : L = Len(d.blocks)
  BY <1>1, Here
<1>3. /\ Taken \in 0..L /\ buf.len = SizeUpTo(d, Taken) + Rest
      /\ TooShort <=> Taken < L /\ (Taken = 0 \/ Rest # 0)
  BY <1>1, <1>2, Here
<1>4. Taken \in 1..L /\ type # "AID_ALM" /\ Covered(Taken) /\ Rest = recs * d.size2
  BY <1>1, <1>3 DEF Accepted
<1>5. Sound => DOMAIN fields = ToSet(NamesUpTo(d, Taken))
  BY DEF Sound, Present, NamesUpTo
<1>6. CASE Fits = {} /\ buf' = Destroyed
  <2>1. ASSUME Sound PROVE FALSE
    BY <2>1, <1>1, <1>2, <1>4, <1>5, <1>6, SoundFits DEF Sound
  <2> QED
    BY <2>1, <1>6
<1>7. ASSUME NEW m \in 1..L,
             buf'.len = SizeUpTo(d, m) + recs * d.size2,
             Covered(m), \A n \in 0..L : Covered(n) => n <= m,
             buf'.vals \in Seq(0..37), Len(buf'.vals) = Len(NamesUpTo(d, m)),
             \A i \in 1..Len(NamesUpTo(d, m)) : buf'.vals[i] = fields[NamesUpTo(d, m)[i]]
      PROVE  /\ Sound => buf'.len = buf.len
             /\ \A i \in DOMAIN buf.vals :
                  i \in DOMAIN buf'.vals /\ buf'.vals[i] \in {buf.vals[i], Edited}
  <2>1. Taken <= m /\ m \in 0..L
    BY <1>3, <1>4, <1>7
  <2>2. PICK M : M = NamesUpTo(d, m)
    OBVIOUS
  <2>3. PICK P : P = NamesUpTo(d, Taken)
    OBVIOUS
  <2>4. /\ Len(M) \in Nat /\ Len(P) \in Nat
        /\ \A i \in 1..Len(M) : M[i] \in ToSet(M)
    BY <2>1, <2>2, <2>3, <1>1, <1>2, <1>3, <1>4, NamesFirst
  <2>5. Taken < m => /\ Len(P) < Len(M) /\ M[Len(P) + 1] \notin ToSet(P)
    <3> SUFFICES ASSUME Taken < m PROVE Len(P) < Len(M) /\ M[Len(P) + 1] \notin ToSet(P)
      OBVIOUS
    <3>1. m = L
      BY <1>3, <1>4
    <3>2. Growing(d)
      BY <1>1, <1>4, Table DEF Shaped, d
    <3> QED
      BY <3>1, <3>2, <2>1, <2>2, <2>3, <1>2, <1>3 DEF Growing
  <2>6. Len(P) <= Len(M)
    <3>1. Taken = m => P = M
      BY <2>2, <2>3
    <3> QED
      BY <3>1, <2>1, <2>4, <2>5, <1>3
  <2>7. ASSUME Sound PROVE buf'.len = buf.len
    <3>1. CASE Taken < m
      <4>1. Len(P) + 1 \in 1..Len(M)
        BY <3>1, <2>4, <2>5
      <4>2. M[Len(P) + 1] \in DOMAIN fields
        BY <4>1, <2>2, <2>4, <1>7 DEF Covered
      <4> QED
        BY <4>2, <3>1, <2>3, <2>5, <2>7, <1>5
    <3>2. CASE Taken = m
      BY <3>2, <1>3, <1>4, <1>7
    <3> QED
      BY <3>1, <3>2, <2>1, <1>3
  <2>8. ASSUME NEW i \in DOMAIN buf.vals
        PROVE  i \in DOMAIN buf'.vals /\ buf'.vals[i] \in {buf.vals[i], Edited}
    <3>1. i \in 1..Len(P)
      BY <2>3, <1>1 DEF Shaped
    <3>2. i \in 1..Len(M) /\ i \in DOMAIN buf'.vals
      BY <3>1, <2>2, <2>4, <2>6, <1>7
    <3>3. M[i] = i
      BY <3>2, <2>1, <2>2, <1>1, <1>2, FieldsByNumber
    <3>4. buf'.vals[i] = fields[i] /\ fields[i] \in {buf.vals[i], Edited, Refused}
      BY <3>1, <3>2, <3>3, <2>2, <2>3, <1>1, <1>7
    <3>5. buf'.vals[i] # Refused
      <4>1. PICK c \in Seq(0..37) : c = buf'.vals
        BY <1>7
      <4>2. i \in 1..Len(c)
        BY <4>1, <3>2
      <4>3. c[i] \in 0..37
        BY <4>2, ElementsOf
      <4>4. \A x \in 0..37 : x # Refused
        BY DEF Refused
      <4> QED
        BY <4>1, <4>3, <4>4, Zenon
    <3> QED
      BY <3>2, <3>4, <3>5
  <2> QED
    BY <2>7, <2>8
<1> QED
  BY <1>2, <1>6, <1>7, PackDoes

(* Type correctness: whatever arrived and whatever the user does, a        *)
(* message has fields its layout names, values that were sent or set, and  *)
(* no more repeated blocks than fit into its payload.                      *)
THEOREM MessageTypeCorrect == Spec => []TypeOK
BY MsgInvHolds, InvTypeOK, PTL

(* A message that was unpacked keeps whole blocks, all their fields and    *)
(* the length of its repeated blocks, whatever is set and however often it *)
(* is packed, unless pack raised and left nothing; and if the count of the *)
(* repeated blocks was not set it can be unpacked again.                   *)
THEOREM StaysWellFormedHolds == Spec => []StaysWellFormed
BY MsgInvHolds, InvStaysWellFormed, PTL

(* str() shows the whole message, never what an unpack left that failed,   *)
(* unless the user set the count of the repeated blocks.                   *)
THEOREM ShownIsWholeHolds == Spec => []ShownIsWhole
BY MsgInvHolds, InvShownIsWhole, PTL

(* Packing what was unpacked changes only the values that the user set; it *)
(* loses the payload only if a value was set that cannot be packed, or a   *)
(* field added.                                                            *)
THEOREM PackKeepsHolds == Spec => PackKeeps
<1>1. MsgInv /\ [Next]_vars =>
        [Pack /\ accepted /\ Valid /\ type # "AID_AOP" =>
           \/ /\ Sound => buf'.len = buf.len
              /\ \A i \in DOMAIN buf.vals :
                   i \in DOMAIN buf'.vals /\ buf'.vals[i] \in {buf.vals[i], Edited}
           \/ ~Sound /\ buf' = Destroyed]_vars
  BY StepPackKeeps
<1> QED
  BY <1>1, MsgInvHolds, PTL DEF Spec, PackKeeps
=============================================================================
