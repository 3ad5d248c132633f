---------------------------- MODULE SensorProofs ----------------------------
(* The proofs about the LSM9DS1 and the MS5611, for any ranges and any     *)
(* number of calls and failed transfers.  Those about the MPU9250 are in   *)
(* Mpu9250Proofs.                                                          *)
EXTENDS Lsm9ds1, Ms5611, TLAPS

(* The LSM9DS1.                                                            *)

LsmStep ==
  [op : {"configure", "sleep", "select", "scale", "read", "rotate"},
   s : Sensors, range : LsmRange]
  \cup [op : {"return"}, s : SUBSET Sensors, range : LsmRange]

Reads == {"read", "rotate", "return"}
Sets == {"configure", "select", "scale"}

(* What follows what in a method: a sensor that is configured gets a       *)
(* range, and with it a scale; a sensor that is read is turned, once.      *)
LsmOrder(t) ==
  \A i \in 1..Len(t) :
    /\ t[i].op = "configure" => \E j \in (i + 1)..Len(t) : t[j].op = "select" /\ t[j].s = t[i].s
    /\ t[i].op = "select" => i < Len(t) /\ t[i + 1] = rescale(t[i].s, t[i].range)
    /\ t[i].op = "read" => \E j \in (i + 1)..Len(t) : t[j].op = "rotate" /\ t[j].s = t[i].s
    /\ \A j \in (i + 1)..Len(t) :
         /\ t[i].op = "scale" /\ t[j].op \in Sets => t[j].s # t[i].s
         /\ t[i].op = "rotate" /\ t[j].op \in {"read", "rotate"} => t[j].s # t[i].s
    /\ t[i].op \in Reads => \A j \in 1..Len(t) : t[j].op \in Reads

Method(t) == t \in Seq(LsmStep) /\ LsmOrder(t)
Has(t, op, s) == \E i \in 1..Len(t) : t[i].op = op /\ t[i].s = s

LEMMA StepTypes ==
  /\ \A s \in Sensors : /\ configure(s) \in LsmStep /\ pause(s) \in LsmStep
                        /\ Measure(s) \in LsmStep /\ Turn(s) \in LsmStep
  /\ \A s \in Sensors, range \in LsmRange :
       select(s, range) \in LsmStep /\ rescale(s, range) \in LsmStep
  /\ \A sensors \in SUBSET Sensors : Return(sensors) \in LsmStep
BY LsmRangeAssumption
   DEF LsmStep, configure, pause, Measure, Turn, select, rescale, Return, step

LEMMA StepFields ==
  /\ \A s : /\ configure(s).op = "configure" /\ configure(s).s = s
            /\ pause(s).op = "sleep" /\ pause(s).s = s
            /\ Measure(s).op = "read" /\ Measure(s).s = s
            /\ Turn(s).op = "rotate" /\ Turn(s).s = s
            /\ Return(s).op = "return"
  /\ \A s, range : /\ select(s, range).op = "select" /\ select(s, range).s = s
                   /\ rescale(s, range).op = "scale" /\ rescale(s, range).s = s
                   /\ select(s, range).range = range /\ rescale(s, range).range = range
BY DEF configure, pause, Measure, Turn, select, rescale, Return, step

LEMMA ThreeSensors == Sensors = {"acc", "gyro", "mag"}
BY DEF Sensors

LEMMA SetScaleMethod ==
  ASSUME NEW s \in Sensors, NEW range \in LsmRange
  PROVE  /\ Method(set_scale(s, range)) /\ set_scale(s, range) # <<>>
         /\ Has(set_scale(s, range), "scale", s) /\ Has(set_scale(s, range), "select", s)
         /\ \A i \in 1..Len(set_scale(s, range)) :
              set_scale(s, range)[i].s = s /\ set_scale(s, range)[i].op \in Sets \ {"configure"}
<1>1. PICK t : t = set_scale(s, range)
  OBVIOUS
<1>2. /\ t \in Seq(LsmStep) /\ Len(t) = 2 /\ t # <<>>
      /\ t[1] = select(s, range) /\ t[2] = rescale(s, range)
  BY <1>1, StepTypes DEF set_scale
<1>3. /\ t[1].op = "select" /\ t[1].s = s /\ t[1].range = range
      /\ t[2].op = "scale" /\ t[2].s = s
  BY <1>2, StepFields
<1>4. LsmOrder(t)
  BY <1>2, <1>3 DEF LsmOrder, Reads, Sets
<1>5. Has(t, "scale", s) /\ Has(t, "select", s)
  BY <1>2, <1>3 DEF Has
<1>6. \A i \in 1..Len(t) : t[i].s = s /\ t[i].op \in Sets \ {"configure"}
  BY <1>2, <1>3 DEF Sets
<1> QED
  BY <1>1, <1>2, <1>4, <1>5, <1>6 DEF Method

(* What a method that reads leaves alone, and what it begins with.         *)
ReadsOnly(t) ==
  /\ Method(t) /\ t # <<>>
  /\ \A i \in 1..Len(t) : t[i].op \in Reads
  /\ \A s \in Sensors : Has(t, "rotate", s) => Has(t, "read", s)

LEMMA ReadMethod ==
  ASSUME NEW s \in Sensors
  PROVE  ReadsOnly(lsm_read(s))
<1>1. PICK t : t = lsm_read(s)
  OBVIOUS
<1>2. t \in Seq(LsmStep) /\ Len(t) = 2 /\ t # <<>> /\ t[1] = Measure(s) /\ t[2] = Turn(s)
  BY <1>1, StepTypes DEF lsm_read
<1>3. t[1].op = "read" /\ t[1].s = s /\ t[2].op = "rotate" /\ t[2].s = s
  BY <1>2, StepFields
<1>4. LsmOrder(t)
  BY <1>2, <1>3 DEF LsmOrder, Reads, Sets
<1>5. \A i \in 1..Len(t) : t[i].op \in Reads
  BY <1>2, <1>3 DEF Reads
<1>6. \A x \in Sensors : Has(t, "rotate", x) => Has(t, "read", x)
  BY <1>2, <1>3 DEF Has
<1> QED
  BY <1>1, <1>2, <1>4, <1>5, <1>6 DEF Method, ReadsOnly

LEMMA NotEmpty ==
  ASSUME NEW t, Len(t) # 0
  PROVE  t # <<>>
<1>1. Len(<<>>) = 0
  OBVIOUS
<1> QED
  BY <1>1

LEMMA Joined ==
  ASSUME NEW a \in Seq(LsmStep), NEW b \in Seq(LsmStep)
  PROVE  /\ a \o b \in Seq(LsmStep) /\ Len(a \o b) = Len(a) + Len(b)
         /\ \A i \in 1..Len(a) : (a \o b)[i] = a[i]
         /\ \A i \in 1..Len(b) : (a \o b)[i + Len(a)] = b[i]
OBVIOUS

(* Two steps more at the end of a method.                                  *)
LEMMA TwoMore ==
  ASSUME NEW a \in Seq(LsmStep), NEW b \in Seq(LsmStep), Len(b) = 2
  PROVE  /\ a \o b \in Seq(LsmStep) /\ Len(a \o b) = Len(a) + 2
         /\ \A i \in 1..Len(a) : (a \o b)[i] = a[i]
         /\ (a \o b)[Len(a) + 1] = b[1] /\ (a \o b)[Len(a) + 2] = b[2]
<1>1. /\ a \o b \in Seq(LsmStep) /\ Len(a \o b) = Len(a) + Len(b)
      /\ \A i \in 1..Len(a) : (a \o b)[i] = a[i]
      /\ \A i \in 1..Len(b) : (a \o b)[i + Len(a)] = b[i]
  BY Joined
<1>2. /\ (a \o b)[1 + Len(a)] = b[1] /\ (a \o b)[2 + Len(a)] = b[2]
      /\ Len(a) \in Nat
  BY <1>1
<1>3. 1 + Len(a) = Len(a) + 1 /\ 2 + Len(a) = Len(a) + 2
  BY <1>2
<1> QED
  BY <1>1, <1>2, <1>3

LEMMA OneMore ==
  ASSUME NEW a \in Seq(LsmStep), NEW x \in LsmStep
  PROVE  /\ Append(a, x) \in Seq(LsmStep) /\ Len(Append(a, x)) = Len(a) + 1
         /\ \A i \in 1..Len(a) : Append(a, x)[i] = a[i]
         /\ Append(a, x)[Len(a) + 1] = x
OBVIOUS

LEMMA Motion9Method == ReadsOnly(getMotion9)
<1>1. PICK t : t = getMotion9
  OBVIOUS
<1>2. /\ t \in Seq(LsmStep) /\ Len(t) = 7 /\ t # <<>>
      /\ t[1] = Measure("acc") /\ t[2] = Measure("gyro") /\ t[3] = Measure("mag")
      /\ t[4] = Turn("acc") /\ t[5] = Turn("gyro") /\ t[6] = Turn("mag")
      /\ t[7] = Return(Sensors)
  <2>1. PICK r : r = lsm_read_all
    OBVIOUS
  <2>2. /\ r \in Seq(LsmStep) /\ Len(r) = 6
        /\ r[1] = Measure("acc") /\ r[2] = Measure("gyro") /\ r[3] = Measure("mag")
        /\ r[4] = Turn("acc") /\ r[5] = Turn("gyro") /\ r[6] = Turn("mag")
    BY <2>1, StepTypes, ThreeSensors DEF lsm_read_all
  <2>3. PICK x \in LsmStep : x = Return(Sensors)
    BY StepTypes
  <2>4. t = Append(r, x)
    BY <1>1, <2>1, <2>3 DEF getMotion9
  <2>5. /\ t \in Seq(LsmStep) /\ Len(t) = Len(r) + 1
        /\ \A i \in 1..Len(r) : t[i] = r[i]
        /\ t[Len(r) + 1] = x
    BY <2>2, <2>4, OneMore
  <2>6. /\ Len(t) = 7 /\ t[7] = x
        /\ t[1] = r[1] /\ t[2] = r[2] /\ t[3] = r[3] /\ t[4] = r[4] /\ t[5] = r[5] /\ t[6] = r[6]
    BY <2>2, <2>5
  <2> QED
    BY <2>2, <2>3, <2>5, <2>6, NotEmpty
<1>3. /\ t[1].op = "read" /\ t[2].op = "read" /\ t[3].op = "read"
      /\ t[4].op = "rotate" /\ t[5].op = "rotate" /\ t[6].op = "rotate" /\ t[7].op = "return"
      /\ t[1].s = "acc" /\ t[2].s = "gyro" /\ t[3].s = "mag"
      /\ t[4].s = "acc" /\ t[5].s = "gyro" /\ t[6].s = "mag"
  BY <1>2, StepFields
<1>4. LsmOrder(t)
  BY <1>2, <1>3 DEF LsmOrder, Reads, Sets
<1>5. \A i \in 1..Len(t) : t[i].op \in Reads
  BY <1>2, <1>3 DEF Reads
<1>6. \A x \in Sensors : Has(t, "rotate", x) => Has(t, "read", x)
  BY <1>2, <1>3 DEF Has
<1> QED
  BY <1>1, <1>2, <1>4, <1>5, <1>6 DEF Method, ReadsOnly

LEMMA Motion6Method == ReadsOnly(getMotion6)
<1>1. PICK t : t = getMotion6
  OBVIOUS
<1>2. /\ t \in Seq(LsmStep) /\ Len(t) = 5 /\ t # <<>>
      /\ t[1] = Measure("acc") /\ t[2] = Turn("acc") /\ t[3] = Measure("gyro")
      /\ t[4] = Turn("gyro") /\ t[5] = Return({"acc", "gyro"})
  <2>1. PICK a : a = lsm_read("acc")
    OBVIOUS
  <2>2. PICK b : b = lsm_read("gyro")
    OBVIOUS
  <2>3. /\ a \in Seq(LsmStep) /\ Len(a) = 2 /\ a[1] = Measure("acc") /\ a[2] = Turn("acc")
        /\ b \in Seq(LsmStep) /\ Len(b) = 2 /\ b[1] = Measure("gyro") /\ b[2] = Turn("gyro")
    BY <2>1, <2>2, StepTypes, ThreeSensors DEF lsm_read
  <2>4. PICK x \in LsmStep : x = Return({"acc", "gyro"})
    BY StepTypes, ThreeSensors
  <2>5. PICK ab : ab = a \o b
    OBVIOUS
  <2>6. t = Append(ab, x)
    BY <1>1, <2>1, <2>2, <2>4, <2>5 DEF getMotion6
  <2>7. /\ ab \in Seq(LsmStep) /\ Len(ab) = Len(a) + 2
        /\ \A i \in 1..Len(a) : ab[i] = a[i]
        /\ ab[Len(a) + 1] = b[1] /\ ab[Len(a) + 2] = b[2]
    BY <2>3, <2>5, TwoMore
  <2>8. Len(ab) = 4 /\ ab[1] = a[1] /\ ab[2] = a[2] /\ ab[3] = b[1] /\ ab[4] = b[2]
    BY <2>3, <2>7
  <2>9. /\ t \in Seq(LsmStep) /\ Len(t) = Len(ab) + 1
        /\ \A i \in 1..Len(ab) : t[i] = ab[i]
        /\ t[Len(ab) + 1] = x
    BY <2>6, <2>7, OneMore
  <2>10. /\ Len(t) = 5 /\ t[5] = x
         /\ t[1] = ab[1] /\ t[2] = ab[2] /\ t[3] = ab[3] /\ t[4] = ab[4]
    BY <2>8, <2>9
  <2> QED
    BY <2>3, <2>4, <2>8, <2>9, <2>10, NotEmpty
<1>3. /\ t[1].op = "read" /\ t[2].op = "rotate" /\ t[3].op = "read"
      /\ t[4].op = "rotate" /\ t[5].op = "return"
      /\ t[1].s = "acc" /\ t[2].s = "acc" /\ t[3].s = "gyro" /\ t[4].s = "gyro"
  BY <1>2, StepFields
<1>4. LsmOrder(t)
  BY <1>2, <1>3 DEF LsmOrder, Reads, Sets
<1>5. \A i \in 1..Len(t) : t[i].op \in Reads
  BY <1>2, <1>3 DEF Reads
<1>6. \A x \in Sensors : Has(t, "rotate", x) => Has(t, "read", x)
  BY <1>2, <1>3 DEF Has
<1> QED
  BY <1>1, <1>2, <1>4, <1>5, <1>6 DEF Method, ReadsOnly

(* initialize configures, selects and scales all sensors and reads none.   *)
LEMMA InitializeMethod ==
  /\ Method(lsm_initialize) /\ lsm_initialize # <<>>
  /\ \A s \in Sensors : /\ Has(lsm_initialize, "configure", s)
                        /\ Has(lsm_initialize, "select", s) /\ Has(lsm_initialize, "scale", s)
                        /\ ~Has(lsm_initialize, "rotate", s)
<1>1. PICK t : t = lsm_initialize
  OBVIOUS
<1>2. /\ t \in Seq(LsmStep) /\ Len(t) = 12 /\ t # <<>>
      /\ t[1] = configure("gyro") /\ t[2] = pause("gyro")
      /\ t[3] = configure("acc") /\ t[4] = pause("acc")
      /\ t[5] = configure("mag") /\ t[6] = pause("mag")
      /\ t[7] = select("gyro", LsmMax) /\ t[8] = rescale("gyro", LsmMax)
      /\ t[9] = select("acc", LsmMax) /\ t[10] = rescale("acc", LsmMax)
      /\ t[11] = select("mag", LsmMax) /\ t[12] = rescale("mag", LsmMax)
  <2>1. PICK p : p = <<configure("gyro"), pause("gyro"), configure("acc"), pause("acc"),
                       configure("mag"), pause("mag")>>
    OBVIOUS
  <2>2. PICK g : g = set_scale("gyro", LsmMax)
    OBVIOUS
  <2>3. PICK a : a = set_scale("acc", LsmMax)
    OBVIOUS
  <2>4. PICK m : m = set_scale("mag", LsmMax)
    OBVIOUS
  <2>5. PICK pg, pga : pg = p \o g /\ pga = pg \o a
    OBVIOUS
  <2>10. t = pga \o m
    BY <1>1, <2>1, <2>2, <2>3, <2>4, <2>5 DEF lsm_initialize
  <2>6. /\ p \in Seq(LsmStep) /\ Len(p) = 6
        /\ p[1] = configure("gyro") /\ p[2] = pause("gyro")
        /\ p[3] = configure("acc") /\ p[4] = pause("acc")
        /\ p[5] = configure("mag") /\ p[6] = pause("mag")
    BY <2>1, StepTypes, ThreeSensors
  <2>7. /\ g \in Seq(LsmStep) /\ Len(g) = 2
        /\ g[1] = select("gyro", LsmMax) /\ g[2] = rescale("gyro", LsmMax)
    BY <2>2, StepTypes, ThreeSensors, LsmRangeAssumption DEF set_scale
  <2>8. /\ a \in Seq(LsmStep) /\ Len(a) = 2
        /\ a[1] = select("acc", LsmMax) /\ a[2] = rescale("acc", LsmMax)
    BY <2>3, StepTypes, ThreeSensors, LsmRangeAssumption DEF set_scale
  <2>9. /\ m \in Seq(LsmStep) /\ Len(m) = 2
        /\ m[1] = select("mag", LsmMax) /\ m[2] = rescale("mag", LsmMax)
    BY <2>4, StepTypes, ThreeSensors, LsmRangeAssumption DEF set_scale
  <2>11. /\ pg \in Seq(LsmStep) /\ Len(pg) = Len(p) + 2
         /\ \A i \in 1..Len(p) : pg[i] = p[i]
         /\ pg[Len(p) + 1] = g[1] /\ pg[Len(p) + 2] = g[2]
    BY <2>5, <2>6, <2>7, TwoMore
  <2>12. /\ Len(pg) = 8 /\ pg[7] = g[1] /\ pg[8] = g[2]
         /\ \A i \in 1..6 : pg[i] = p[i]
    BY <2>6, <2>11
  <2>13. /\ pga \in Seq(LsmStep) /\ Len(pga) = Len(pg) + 2
         /\ \A i \in 1..Len(pg) : pga[i] = pg[i]
         /\ pga[Len(pg) + 1] = a[1] /\ pga[Len(pg) + 2] = a[2]
    BY <2>5, <2>8, <2>11, TwoMore
  <2>14. /\ Len(pga) = 10 /\ pga[9] = a[1] /\ pga[10] = a[2]
         /\ \A i \in 1..8 : pga[i] = pg[i]
    BY <2>12, <2>13
  <2>15. /\ t \in Seq(LsmStep) /\ Len(t) = Len(pga) + 2
         /\ \A i \in 1..Len(pga) : t[i] = pga[i]
         /\ t[Len(pga) + 1] = m[1] /\ t[Len(pga) + 2] = m[2]
    BY <2>9, <2>10, <2>13, TwoMore
  <2>16. /\ Len(t) = 12 /\ t[11] = m[1] /\ t[12] = m[2]
         /\ \A i \in 1..10 : t[i] = pga[i]
    BY <2>14, <2>15
  <2>17. /\ t[1] = p[1] /\ t[2] = p[2] /\ t[3] = p[3] /\ t[4] = p[4] /\ t[5] = p[5] /\ t[6] = p[6]
         /\ t[7] = g[1] /\ t[8] = g[2] /\ t[9] = a[1] /\ t[10] = a[2] /\ t[11] = m[1] /\ t[12] = m[2]
    BY <2>12, <2>14, <2>16
  <2>18. t # <<>>
    <3>1. Len(t) # 0
      BY <2>16
    <3> QED
      BY <3>1, NotEmpty, Zenon
  <2> QED
    BY <2>6, <2>7, <2>8, <2>9, <2>15, <2>16, <2>17, <2>18
<1>3. /\ t[1].op = "configure" /\ t[3].op = "configure" /\ t[5].op = "configure"
      /\ t[2].op = "sleep" /\ t[4].op = "sleep" /\ t[6].op = "sleep"
      /\ t[7].op = "select" /\ t[9].op = "select" /\ t[11].op = "select"
      /\ t[8].op = "scale" /\ t[10].op = "scale" /\ t[12].op = "scale"
      /\ t[1].s = "gyro" /\ t[3].s = "acc" /\ t[5].s = "mag"
      /\ t[7].s = "gyro" /\ t[8].s = "gyro" /\ t[9].s = "acc" /\ t[10].s = "acc"
      /\ t[11].s = "mag" /\ t[12].s = "mag"
      /\ t[7].range = LsmMax /\ t[9].range = LsmMax /\ t[11].range = LsmMax
  BY <1>2, StepFields
<1>4. LsmOrder(t)
  <2> SUFFICES ASSUME NEW i \in 1..12
               PROVE  LsmOrder(t)!(i)
    BY <1>2 DEF LsmOrder
  <2>1. CASE i \in {1, 3, 5}
    <3>1. \E j \in (i + 1)..Len(t) : t[j].op = "select" /\ t[j].s = t[i].s
      BY <2>1, <1>2, <1>3
    <3> QED
      BY <2>1, <3>1, <1>3 DEF LsmOrder, Reads
  <2>2. CASE i \in {2, 4, 6}
    BY <2>2, <1>3 DEF LsmOrder, Reads
  <2>3. CASE i \in {7, 9, 11}
    BY <2>3, <1>2, <1>3 DEF LsmOrder, Reads
  <2>4. CASE i \in {8, 10, 12}
    <3>1. \A j \in (i + 1)..Len(t) : t[j].s # t[i].s
      BY <2>4, <1>2, <1>3
    <3> QED
      BY <2>4, <3>1, <1>2, <1>3 DEF LsmOrder, Reads
  <2> QED
    BY <2>1, <2>2, <2>3, <2>4
<1>5. \A s \in Sensors : Has(t, "configure", s) /\ Has(t, "select", s) /\ Has(t, "scale", s)
  <2>1. Has(t, "configure", "gyro") /\ Has(t, "select", "gyro") /\ Has(t, "scale", "gyro")
    BY <1>2, <1>3 DEF Has
  <2>2. Has(t, "configure", "acc") /\ Has(t, "select", "acc") /\ Has(t, "scale", "acc")
    BY <1>2, <1>3 DEF Has
  <2>3. Has(t, "configure", "mag") /\ Has(t, "select", "mag") /\ Has(t, "scale", "mag")
    BY <1>2, <1>3 DEF Has
  <2> QED
    BY <2>1, <2>2, <2>3, ThreeSensors
<1>6. \A s \in Sensors : ~Has(t, "rotate", s)
  BY <1>2, <1>3 DEF Has
<1> QED
  BY <1>1, <1>2, <1>4, <1>5, <1>6 DEF Method

(* What is left of a method after a step.                                  *)
LEMMA RestMethod ==
  ASSUME NEW t, Method(t), t # <<>>
  PROVE  /\ Method(Tail(t)) /\ Head(t) = t[1] /\ t[1] \in LsmStep
         /\ Len(t) \in Nat /\ Len(t) > 0
         /\ Len(Tail(t)) = Len(t) - 1
         /\ \A i \in 1..Len(Tail(t)) : Tail(t)[i] = t[i + 1]
<1>1. t \in Seq(LsmStep) /\ LsmOrder(t)
  BY DEF Method
<1>2. PICK r : r = Tail(t)
  OBVIOUS
<1>3. /\ r \in Seq(LsmStep) /\ Len(r) = Len(t) - 1 /\ Len(t) \in Nat /\ Len(t) > 0
      /\ \A i \in 1..Len(r) : r[i] = t[i + 1]
  BY <1>1, <1>2
<1>4. LsmOrder(r)
  <2> SUFFICES ASSUME NEW i \in 1..Len(r)
               PROVE  LsmOrder(r)!(i)
    BY DEF LsmOrder
  <2>1. i + 1 \in 1..Len(t) /\ r[i] = t[i + 1]
    BY <1>3
  <2>2. LsmOrder(t)!(i + 1)
    BY <2>1, <1>1, Zenon DEF LsmOrder
  <2>3. \A j \in (i + 1 + 1)..Len(t) : j - 1 \in (i + 1)..Len(r) /\ r[j - 1] = t[j]
    BY <1>3
  <2>4. \A j \in (i + 1)..Len(r) : j + 1 \in (i + 1 + 1)..Len(t) /\ r[j] = t[j + 1]
    BY <1>3
  <2>5. t[i + 1].op = "select" => i < Len(r) /\ r[i + 1] = rescale(r[i].s, r[i].range)
    BY <2>1, <2>2, <1>3
  <2>6. \A j \in 1..Len(r) : j + 1 \in 1..Len(t) /\ r[j] = t[j + 1]
    BY <1>3
  <2>7. ASSUME r[i].op = "configure"
        PROVE  \E j \in (i + 1)..Len(r) : r[j].op = "select" /\ r[j].s = r[i].s
    <3>1. PICK j \in (i + 1 + 1)..Len(t) : t[j].op = "select" /\ t[j].s = t[i + 1].s
      BY <2>1, <2>2, <2>7
    <3>2. j - 1 \in (i + 1)..Len(r) /\ r[j - 1].op = "select" /\ r[j - 1].s = r[i].s
      BY <2>1, <2>3, <3>1
    <3> QED
      BY <3>2
  <2>8. ASSUME r[i].op = "read"
        PROVE  \E j \in (i + 1)..Len(r) : r[j].op = "rotate" /\ r[j].s = r[i].s
    <3>1. PICK j \in (i + 1 + 1)..Len(t) : t[j].op = "rotate" /\ t[j].s = t[i + 1].s
      BY <2>1, <2>2, <2>8
    <3>2. j - 1 \in (i + 1)..Len(r) /\ r[j - 1].op = "rotate" /\ r[j - 1].s = r[i].s
      BY <2>1, <2>3, <3>1
    <3> QED
      BY <3>2
  <2>9. \A j \in (i + 1)..Len(r) :
          /\ r[i].op = "scale" /\ r[j].op \in Sets => r[j].s # r[i].s
          /\ r[i].op = "rotate" /\ r[j].op \in {"read", "rotate"} => r[j].s # r[i].s
    BY <2>1, <2>2, <2>4
  <2>10. r[i].op \in Reads => \A j \in 1..Len(r) : r[j].op \in Reads
    BY <2>1, <2>2, <2>6
  <2>11. r[i].op = "select" => i < Len(r) /\ r[i + 1] = rescale(r[i].s, r[i].range)
    BY <2>1, <2>5
  <2> QED
    BY <2>7, <2>8, <2>9, <2>10, <2>11
<1> QED
  BY <1>1, <1>2, <1>3, <1>4 DEF Method

LEMMA HasRest ==
  ASSUME NEW t, Method(t), t # <<>>
  PROVE  \A op, s : Has(t, op, s) <=> (t[1].op = op /\ t[1].s = s) \/ Has(Tail(t), op, s)
<1>1. PICK r : r = Tail(t)
  OBVIOUS
<1>2. /\ Len(t) \in Nat /\ Len(t) > 0 /\ Len(r) = Len(t) - 1
      /\ \A i \in 1..Len(r) : r[i] = t[i + 1]
  BY <1>1, RestMethod
<1> SUFFICES ASSUME NEW op, NEW s
             PROVE  Has(t, op, s) <=> (t[1].op = op /\ t[1].s = s) \/ Has(r, op, s)
  BY <1>1
<1>3. ASSUME Has(t, op, s)
      PROVE  (t[1].op = op /\ t[1].s = s) \/ Has(r, op, s)
  <2>1. PICK i \in 1..Len(t) : t[i].op = op /\ t[i].s = s
    BY <1>3 DEF Has
  <2>2. CASE i = 1
    BY <2>1, <2>2
  <2>3. CASE i > 1
    <3>1. i - 1 \in 1..Len(r) /\ r[i - 1] = t[i]
      BY <1>2, <2>3
    <3> QED
      BY <2>1, <3>1 DEF Has
  <2> QED
    BY <2>2, <2>3
<1>4. ASSUME Has(r, op, s)
      PROVE  Has(t, op, s)
  <2>1. PICK i \in 1..Len(r) : r[i].op = op /\ r[i].s = s
    BY <1>4 DEF Has
  <2>2. i + 1 \in 1..Len(t) /\ t[i + 1] = r[i]
    BY <1>2
  <2> QED
    BY <2>1, <2>2 DEF Has
<1>5. 1 \in 1..Len(t)
  BY <1>2
<1> QED
  BY <1>3, <1>4, <1>5 DEF Has

(* What the first step of a method says of the others.                     *)
LEMMA FirstStep ==
  ASSUME NEW t, Method(t), t # <<>>
  PROVE  /\ t[1].op = "configure" => Has(Tail(t), "select", t[1].s)
         /\ t[1].op = "select" =>
              /\ Has(Tail(t), "scale", t[1].s)
              /\ 1 \in 1..Len(Tail(t)) /\ Tail(t)[1] = rescale(t[1].s, t[1].range)
         /\ t[1].op = "read" => Has(Tail(t), "rotate", t[1].s)
         /\ t[1].op = "scale" => \A op \in Sets : ~Has(Tail(t), op, t[1].s)
         /\ t[1].op = "rotate" => \A op \in {"read", "rotate"} : ~Has(Tail(t), op, t[1].s)
         /\ t[1].op \in Reads => \A op \in Sets : \A s : ~Has(t, op, s)
<1>1. PICK r : r = Tail(t)
  OBVIOUS
<1>2. /\ Len(t) \in Nat /\ Len(t) > 0 /\ Len(r) = Len(t) - 1
      /\ \A i \in 1..Len(r) : r[i] = t[i + 1] /\ i + 1 \in (1 + 1)..Len(t)
      /\ \A j \in (1 + 1)..Len(t) : j - 1 \in 1..Len(r) /\ r[j - 1] = t[j]
  <2>1. /\ Len(t) \in Nat /\ Len(t) > 0 /\ Len(r) = Len(t) - 1
        /\ \A i \in 1..Len(r) : r[i] = t[i + 1]
    BY <1>1, RestMethod
  <2> QED
    BY <2>1
<1>3. LsmOrder(t)!(1)
  <2>1. 1 \in 1..Len(t)
    BY <1>2
  <2> QED
    BY <2>1, Zenon DEF Method, LsmOrder
<1>4. ASSUME NEW op, NEW s, \E j \in (1 + 1)..Len(t) : t[j].op = op /\ t[j].s = s
      PROVE  Has(r, op, s)
  <2>1. PICK j \in (1 + 1)..Len(t) : t[j].op = op /\ t[j].s = s
    BY <1>4
  <2>2. j - 1 \in 1..Len(r) /\ r[j - 1].op = op /\ r[j - 1].s = s
    BY <1>2, <2>1
  <2> QED
    BY <2>2 DEF Has
<1>5. t[1].op = "configure" => Has(r, "select", t[1].s)
  BY <1>3, <1>4
<1>6. t[1].op = "read" => Has(r, "rotate", t[1].s)
  BY <1>3, <1>4
<1>7. ASSUME t[1].op = "select"
      PROVE  /\ 1 \in 1..Len(r) /\ r[1] = rescale(t[1].s, t[1].range)
             /\ Has(r, "scale", t[1].s)
  <2>1. 1 < Len(t) /\ t[1 + 1] = rescale(t[1].s, t[1].range)
    BY <1>3, <1>7
  <2>2. 1 \in 1..Len(r) /\ r[1] = t[1 + 1]
    BY <1>2, <2>1
  <2> QED
    BY <2>1, <2>2, StepFields DEF Has
<1>8. ASSUME NEW op, NEW s, Has(r, op, s)
      PROVE  \E j \in (1 + 1)..Len(t) : t[j].op = op /\ t[j].s = s
  <2>1. PICK i \in 1..Len(r) : r[i].op = op /\ r[i].s = s
    BY <1>8 DEF Has
  <2> QED
    BY <1>2, <2>1
<1>9. ASSUME t[1].op = "scale", NEW op \in Sets, Has(r, op, t[1].s)
      PROVE  FALSE
  <2>1. PICK j \in (1 + 1)..Len(t) : t[j].op = op /\ t[j].s = t[1].s
    BY <1>8, <1>9
  <2> QED
    BY <1>3, <1>9, <2>1
<1>10. ASSUME t[1].op = "rotate", NEW op \in {"read", "rotate"}, Has(r, op, t[1].s)
       PROVE  FALSE
  <2>1. PICK j \in (1 + 1)..Len(t) : t[j].op = op /\ t[j].s = t[1].s
    BY <1>8, <1>10
  <2> QED
    BY <1>3, <1>10, <2>1
<1>11. ASSUME t[1].op \in Reads, NEW op \in Sets, NEW s, Has(t, op, s)
       PROVE  FALSE
  <2>1. PICK i \in 1..Len(t) : t[i].op = op
    BY <1>11 DEF Has
  <2>2. t[i].op \in Reads
    BY <1>3, <1>11
  <2> QED
    BY <2>1, <2>2 DEF Reads, Sets
<1> QED
  BY <1>1, <1>5, <1>6, <1>7, <1>9, <1>10, <1>11

LEMMA SelectScales ==
  ASSUME NEW t, Method(t), NEW c, Has(t, "select", c)
  PROVE  Has(t, "scale", c)
<1>1. PICK i \in 1..Len(t) : t[i].op = "select" /\ t[i].s = c
  BY DEF Has
<1>2. i < Len(t) /\ t[i + 1] = rescale(c, t[i].range)
  BY <1>1 DEF Method, LsmOrder
<1>3. i + 1 \in 1..Len(t)
  BY <1>2
<1> QED
  BY <1>2, <1>3, StepFields DEF Has

LEMMA ScaleOnce ==
  ASSUME NEW t, Method(t), t # <<>>, t[1].op = "scale",
         NEW i \in 1..Len(t), t[i].op = "scale", t[i].s = t[1].s
  PROVE  t[i] = t[1]
<1>1. Len(t) \in Nat
  BY DEF Method
<1>2. CASE i = 1
  BY <1>2
<1>3. CASE i > 1
  <2>1. 1 \in 1..Len(t) /\ i \in (1 + 1)..Len(t)
    BY <1>1, <1>3
  <2>2. LsmOrder(t)!(1)
    BY <2>1, Zenon DEF Method, LsmOrder
  <2> QED
    BY <2>1, <2>2 DEF Sets
<1> QED
  BY <1>1, <1>2, <1>3
----------------------------------------------------------------------------
(* A scale that is not to be set is that of its register; a sensor that is *)
(* not to be configured is on; and a scale that is next to be set is that  *)
(* of its register too.                                                    *)
Scaled(t, s) ==
  /\ ~Has(t, "scale", s) => lsmScale[s] = lsmReg[s].range
  /\ ~Has(t, "configure", s) => lsmReg[s].rate = "on"
  /\ ~Has(t, "configure", s) /\ ~Has(t, "select", s) =>
       \A i \in 1..Len(t) : t[i].op = "scale" /\ t[i].s = s => lsmReg[s].range = t[i].range

(* A list is in the frame of its chip while it is still to be turned.      *)
Framed(t, s) ==
  /\ lists[s].frame = "chip" => Has(t, "rotate", s)
  /\ Has(t, "rotate", s) /\ ~Has(t, "read", s) => lists[s].frame = "chip"
  /\ python = 3 => lists[s].frame # "chip"

LsmInv ==
  /\ LsmTypeOK
  /\ Method(lsmTodo)
  /\ lsmTodo # <<>> => lsmCalls > 0
  /\ lsmFails = 0 /\ lsmCalls > 0 => \A s \in Sensors : Scaled(lsmTodo, s)
  /\ lsmFails = 0 => \A s \in Sensors : Framed(lsmTodo, s)

LEMMA NoMethod ==
  /\ Method(<<>>)
  /\ \A op, s : ~Has(<<>>, op, s)
<1>1. <<>> \in Seq(LsmStep) /\ Len(<<>>) = 0 /\ 1..0 = {}
  OBVIOUS
<1> QED
  BY <1>1 DEF Method, LsmOrder, Has

LEMMA InitLsm == LsmInit => LsmInv
<1> SUFFICES ASSUME LsmInit PROVE LsmInv
  OBVIOUS
<1>1. LsmTypeOK
  BY LsmBoundsAssumption
     DEF LsmInit, LsmTypeOK, Readings, NoReadings, None3, Off, Frames
<1>2. lsmTodo = <<>> /\ lsmCalls = 0 /\ \A s \in Sensors : lists[s].frame = "zero"
  BY DEF LsmInit, NoReadings
<1>3. \A s \in Sensors : Framed(lsmTodo, s)
  BY <1>2, NoMethod DEF Framed
<1> QED
  BY <1>1, <1>2, <1>3, NoMethod DEF LsmInv

LEMMA SampleLsm ==
  ASSUME LsmInv, LsmSample
  PROVE  LsmInv'
<1>1. UNCHANGED <<python, lsmReg, lsmTodo, lsmScale, lists, held, lsmCalls, lsmFails>>
  BY DEF LsmSample, lsmBounds
<1>2. lsmOut' \in [Sensors -> LsmRange]
  BY DEF LsmSample, LsmInv, LsmTypeOK
<1>3. LsmTypeOK'
  BY <1>1, <1>2 DEF LsmInv, LsmTypeOK
<1> QED
  BY <1>1, <1>3 DEF LsmInv, Method, LsmOrder, Scaled, Framed, Has

(* What a step of a method finds, and what has to be shown of it.          *)
LEMMA HeadStep ==
  ASSUME LsmInv, lsmTodo # <<>>
  PROVE  /\ Head(lsmTodo) = lsmTodo[1] /\ Method(lsmTodo) /\ Method(Tail(lsmTodo)) /\ lsmCalls > 0
         /\ lsmTodo[1].op # "return" => lsmTodo[1].s \in Sensors /\ lsmTodo[1].range \in LsmRange
         /\ lsmTodo[1].op = "return" => lsmTodo[1].s \subseteq Sensors
<1>1. Method(lsmTodo)
  BY DEF LsmInv
<1>2. Head(lsmTodo) = lsmTodo[1] /\ lsmTodo[1] \in LsmStep /\ Method(Tail(lsmTodo))
  BY <1>1, RestMethod
<1> QED
  BY <1>1, <1>2 DEF LsmStep, LsmInv

LEMMA AfterStep ==
  ASSUME LsmInv, LsmDone, lsmTodo # <<>>, LsmTypeOK',
         lsmFails = 0 => \A s \in Sensors : Scaled(lsmTodo, s)',
         lsmFails = 0 => \A s \in Sensors : Framed(lsmTodo, s)'
  PROVE  LsmInv'
<1>1. lsmTodo' = Tail(lsmTodo) /\ UNCHANGED <<python, lsmCalls, lsmFails>>
  BY DEF LsmDone, lsmBounds
<1>2. Method(lsmTodo') /\ lsmCalls' > 0
  BY <1>1, HeadStep
<1> QED
  BY <1>1, <1>2 DEF LsmInv, Method, LsmOrder

LEMMA StillScaled ==
  ASSUME LsmInv, LsmDone, lsmTodo # <<>>, NEW s \in Sensors,
         lsmTodo[1].op \notin Sets \/ lsmTodo[1].s # s,
         lsmReg'[s] = lsmReg[s], lsmScale'[s] = lsmScale[s], Scaled(lsmTodo, s)
  PROVE  Scaled(lsmTodo, s)'
<1>1. PICK t : t = lsmTodo
  OBVIOUS
<1>2. PICK r : r = Tail(t)
  OBVIOUS
<1>3. lsmTodo' = r
  BY <1>1, <1>2 DEF LsmDone
<1>4. Method(t) /\ t # <<>> /\ (t[1].op \notin Sets \/ t[1].s # s)
  BY <1>1 DEF LsmInv
<1>5. \A op \in Sets : Has(t, op, s) <=> Has(r, op, s)
  BY <1>2, <1>4, HasRest
<1>6. \A i \in 1..Len(r) : i + 1 \in 1..Len(t) /\ r[i] = t[i + 1]
  <2>1. Len(t) \in Nat /\ Len(r) = Len(t) - 1 /\ \A i \in 1..Len(r) : r[i] = t[i + 1]
    BY <1>2, <1>4, RestMethod
  <2> QED
    BY <2>1
<1>7. Scaled(r, s)
  <2>1. "scale" \in Sets /\ "configure" \in Sets /\ "select" \in Sets
    BY DEF Sets
  <2>2. /\ Has(t, "scale", s) <=> Has(r, "scale", s)
        /\ Has(t, "configure", s) <=> Has(r, "configure", s)
        /\ Has(t, "select", s) <=> Has(r, "select", s)
    BY <2>1, <1>5
  <2>3. Scaled(t, s)
    BY <1>1
  <2> QED
    BY <2>2, <2>3, <1>6 DEF Scaled
<1> QED
  BY <1>3, <1>7 DEF Scaled, Has

LEMMA StillFramed ==
  ASSUME LsmInv, LsmDone, lsmTodo # <<>>, NEW s \in Sensors,
         lsmTodo[1].op \notin {"read", "rotate"} \/ lsmTodo[1].s # s,
         lists'[s] = lists[s], Framed(lsmTodo, s)
  PROVE  Framed(lsmTodo, s)'
<1>1. lsmTodo' = Tail(lsmTodo) /\ UNCHANGED python
  BY DEF LsmDone
<1>2. \A op \in {"read", "rotate"} : Has(lsmTodo, op, s) <=> Has(Tail(lsmTodo), op, s)
  BY HasRest DEF LsmInv
<1>3. Framed(Tail(lsmTodo), s)
  BY <1>2 DEF Framed
<1> QED
  BY <1>1, <1>3 DEF Framed, Has

LEMMA SleepLsm ==
  ASSUME LsmInv, LsmSleep
  PROVE  LsmInv'
<1>1. lsmTodo # <<>> /\ LsmDone /\ lsmTodo[1].op = "sleep"
  BY HeadStep DEF LsmSleep, LsmAt
<1>2. UNCHANGED <<python, lsmReg, lsmScale, lists, held, lsmCalls, lsmFails>>
  BY DEF LsmSleep, LsmDone, lsmBounds
<1>3. lsmOut' \in [Sensors -> LsmRange]
  BY DEF LsmSleep, LsmInv, LsmTypeOK
<1>4. LsmTypeOK'
  BY <1>2, <1>3 DEF LsmInv, LsmTypeOK
<1>5. lsmFails = 0 => \A s \in Sensors : Scaled(lsmTodo, s)'
  BY <1>1, <1>2, HeadStep, StillScaled DEF LsmInv, Sets
<1>6. lsmFails = 0 => \A s \in Sensors : Framed(lsmTodo, s)'
  BY <1>1, <1>2, StillFramed DEF LsmInv
<1> QED
  BY <1>1, <1>4, <1>5, <1>6, AfterStep

LEMMA ReturnLsm ==
  ASSUME LsmInv, LsmReturn
  PROVE  LsmInv'
<1>1. lsmTodo # <<>> /\ LsmDone /\ lsmTodo[1].op = "return"
  BY HeadStep DEF LsmReturn, LsmAt
<1>2. UNCHANGED <<python, lsmReg, lsmOut, lsmScale, lists, lsmCalls, lsmFails>>
  BY DEF LsmReturn, LsmDone, lsmBounds
<1>3. held' \in [Sensors -> [list : Readings, shared : BOOLEAN]]
  BY DEF LsmReturn, LsmInv, LsmTypeOK
<1>4. LsmTypeOK'
  BY <1>2, <1>3 DEF LsmInv, LsmTypeOK
<1>5. lsmFails = 0 => \A s \in Sensors : Scaled(lsmTodo, s)'
  BY <1>1, <1>2, HeadStep, StillScaled DEF LsmInv, Sets
<1>6. lsmFails = 0 => \A s \in Sensors : Framed(lsmTodo, s)'
  BY <1>1, <1>2, StillFramed DEF LsmInv
<1> QED
  BY <1>1, <1>4, <1>5, <1>6, AfterStep

LEMMA FailLsm ==
  ASSUME LsmInv, LsmFail
  PROVE  LsmInv'
<1>1. lsmTodo' = <<>> /\ UNCHANGED <<python, lsmReg, lsmOut, lsmScale, lists, held, lsmCalls>>
  BY DEF LsmFail
<1>2. lsmFails' \in 0..MaxLsmFails /\ lsmFails' # 0
  BY LsmBoundsAssumption DEF LsmFail, LsmInv, LsmTypeOK
<1>3. LsmTypeOK'
  BY <1>1, <1>2 DEF LsmInv, LsmTypeOK
<1>4. Method(lsmTodo)'
  BY <1>1, NoMethod DEF Method, LsmOrder
<1> QED
  BY <1>1, <1>2, <1>3, <1>4 DEF LsmInv

LEMMA ConfigureLsm ==
  ASSUME LsmInv, LsmConfigure
  PROVE  LsmInv'
<1>1. lsmTodo # <<>> /\ LsmDone /\ Head(lsmTodo) = lsmTodo[1] /\ lsmTodo[1].op = "configure"
  BY HeadStep DEF LsmConfigure, LsmAt
<1>2. UNCHANGED <<python, lsmOut, lsmScale, lists, held, lsmCalls, lsmFails>>
  BY DEF LsmConfigure, LsmDone, lsmBounds
<1>3. PICK c \in Sensors, range \in LsmRange : c = lsmTodo[1].s /\ range = lsmTodo[1].range
  BY <1>1, HeadStep
<1>4. lsmReg' = [lsmReg EXCEPT ![c] = [rate |-> "on", range |-> range]]
  BY <1>1, <1>3 DEF LsmConfigure
<1>5. lsmReg \in [Sensors -> [rate : {Off, "on"}, range : LsmRange]]
  BY DEF LsmInv, LsmTypeOK
<1>6. /\ lsmReg' \in [Sensors -> [rate : {Off, "on"}, range : LsmRange]]
      /\ lsmReg'[c].rate = "on"
      /\ \A s \in Sensors : s # c => lsmReg'[s] = lsmReg[s]
  BY <1>4, <1>5
<1>7. LsmTypeOK'
  BY <1>2, <1>6 DEF LsmInv, LsmTypeOK
<1>8. Method(lsmTodo') /\ lsmTodo' = Tail(lsmTodo)
  BY <1>1, HeadStep DEF LsmDone
<1>9. Scaled(lsmTodo, c)'
  <2>1. Has(lsmTodo', "select", c)
    BY <1>1, <1>3, <1>8, FirstStep DEF LsmInv
  <2>2. Has(lsmTodo', "scale", c)
    BY <2>1, <1>8, SelectScales
  <2> QED
    BY <2>1, <2>2, <1>6 DEF Scaled, Has
<1>10. lsmFails = 0 => \A s \in Sensors : Scaled(lsmTodo, s)'
  <2> SUFFICES ASSUME lsmFails = 0, NEW s \in Sensors, s # c
               PROVE  Scaled(lsmTodo, s)'
    BY <1>9
  <2>1. Scaled(lsmTodo, s)
    BY <1>1, HeadStep DEF LsmInv
  <2> QED
    BY <2>1, <1>1, <1>2, <1>3, <1>6, StillScaled
<1>11. lsmFails = 0 => \A s \in Sensors : Framed(lsmTodo, s)'
  BY <1>1, <1>2, StillFramed DEF LsmInv
<1> QED
  BY <1>1, <1>7, <1>10, <1>11, AfterStep

LEMMA SelectLsm ==
  ASSUME LsmInv, LsmSelect
  PROVE  LsmInv'
<1>1. lsmTodo # <<>> /\ LsmDone /\ Head(lsmTodo) = lsmTodo[1] /\ lsmTodo[1].op = "select"
  BY HeadStep DEF LsmSelect, LsmAt
<1>2. UNCHANGED <<python, lsmOut, lsmScale, lists, held, lsmCalls, lsmFails>>
  BY DEF LsmSelect, LsmDone, lsmBounds
<1>3. PICK c \in Sensors, range \in LsmRange : c = lsmTodo[1].s /\ range = lsmTodo[1].range
  BY <1>1, HeadStep
<1>4. lsmReg' = [lsmReg EXCEPT ![c] = [lsmReg[c] EXCEPT !.range = range]]
  BY <1>1, <1>3 DEF LsmSelect, Masked
<1>5. lsmReg \in [Sensors -> [rate : {Off, "on"}, range : LsmRange]]
  BY DEF LsmInv, LsmTypeOK
<1>6. /\ lsmReg' \in [Sensors -> [rate : {Off, "on"}, range : LsmRange]]
      /\ lsmReg'[c].rate = lsmReg[c].rate /\ lsmReg'[c].range = range
      /\ \A s \in Sensors : s # c => lsmReg'[s] = lsmReg[s]
  BY <1>4, <1>5
<1>7. LsmTypeOK'
  BY <1>2, <1>6 DEF LsmInv, LsmTypeOK
<1>8. PICK r : r = Tail(lsmTodo)
  OBVIOUS
<1>9. lsmTodo' = r /\ Method(r) /\ r # <<>>
  <2>1. 1 \in 1..Len(r)
    BY <1>1, <1>8, FirstStep DEF LsmInv
  <2>2. Len(<<>>) = 0
    OBVIOUS
  <2>3. r # <<>>
    BY <2>1, <2>2
  <2> QED
    BY <2>3, <1>1, <1>8, HeadStep DEF LsmDone
<1>10. ASSUME lsmFails = 0
       PROVE  Scaled(lsmTodo, c)'
  <2>1. Has(r, "scale", c) /\ r[1] = rescale(c, range)
    BY <1>1, <1>3, <1>8, FirstStep DEF LsmInv
  <2>2. r[1].op = "scale" /\ r[1].s = c /\ r[1].range = range
    BY <2>1, StepFields
  <2>3. ASSUME NEW i \in 1..Len(r), r[i].op = "scale", r[i].s = c
        PROVE  r[i].range = range
    BY <2>2, <2>3, <1>9, ScaleOnce
  <2>4. ~Has(r, "configure", c) => lsmReg'[c].rate = "on"
    <3>1. Scaled(lsmTodo, c)
      BY <1>1, <1>10, HeadStep DEF LsmInv
    <3>2. Has(lsmTodo, "configure", c) <=> Has(r, "configure", c)
      BY <1>1, <1>8, HasRest DEF LsmInv
    <3> QED
      BY <3>1, <3>2, <1>6 DEF Scaled
  <2> QED
    BY <2>1, <2>3, <2>4, <1>6, <1>9 DEF Scaled, Has
<1>11. lsmFails = 0 => \A s \in Sensors : Scaled(lsmTodo, s)'
  <2> SUFFICES ASSUME lsmFails = 0, NEW s \in Sensors, s # c
               PROVE  Scaled(lsmTodo, s)'
    BY <1>10
  <2>1. Scaled(lsmTodo, s)
    BY <1>1, HeadStep DEF LsmInv
  <2> QED
    BY <2>1, <1>1, <1>2, <1>3, <1>6, StillScaled
<1>12. lsmFails = 0 => \A s \in Sensors : Framed(lsmTodo, s)'
  BY <1>1, <1>2, StillFramed DEF LsmInv
<1> QED
  BY <1>1, <1>7, <1>11, <1>12, AfterStep

LEMMA ScaledLsm ==
  ASSUME LsmInv, LsmScaled
  PROVE  LsmInv'
<1>1. lsmTodo # <<>> /\ LsmDone /\ Head(lsmTodo) = lsmTodo[1] /\ lsmTodo[1].op = "scale"
  BY HeadStep DEF LsmScaled, LsmAt
<1>2. UNCHANGED <<python, lsmReg, lsmOut, lists, held, lsmCalls, lsmFails>>
  BY DEF LsmScaled, LsmDone, lsmBounds
<1>3. PICK c \in Sensors, range \in LsmRange : c = lsmTodo[1].s /\ range = lsmTodo[1].range
  BY <1>1, HeadStep
<1>4. lsmScale' = [lsmScale EXCEPT ![c] = range]
  BY <1>1, <1>3 DEF LsmScaled
<1>5. lsmScale \in [Sensors -> LsmRange \cup {None3}]
  BY DEF LsmInv, LsmTypeOK
<1>6. /\ lsmScale' \in [Sensors -> LsmRange \cup {None3}]
      /\ lsmScale'[c] = range
      /\ \A s \in Sensors : s # c => lsmScale'[s] = lsmScale[s]
  BY <1>4, <1>5
<1>7. LsmTypeOK'
  BY <1>2, <1>6 DEF LsmInv, LsmTypeOK
<1>8. PICK r : r = Tail(lsmTodo)
  OBVIOUS
<1>9. ASSUME lsmFails = 0
      PROVE  Scaled(lsmTodo, c)'
  <2>1. ~Has(r, "scale", c) /\ ~Has(r, "select", c) /\ ~Has(r, "configure", c)
    BY <1>1, <1>3, <1>8, FirstStep DEF LsmInv, Sets
  <2>2. ~Has(lsmTodo, "select", c) /\ ~Has(lsmTodo, "configure", c)
    BY <2>1, <1>1, <1>8, HasRest DEF LsmInv
  <2>3. Scaled(lsmTodo, c)
    BY <1>1, <1>9, HeadStep DEF LsmInv
  <2>4. 1 \in 1..Len(lsmTodo)
    BY <1>1, RestMethod DEF LsmInv
  <2>5. lsmReg[c].range = range /\ lsmReg[c].rate = "on"
    BY <2>2, <2>3, <2>4, <1>1, <1>3 DEF Scaled
  <2>6. lsmTodo' = r
    BY <1>1, <1>8 DEF LsmDone
  <2> QED
    BY <2>1, <2>5, <2>6, <1>2, <1>6 DEF Scaled, Has
<1>10. lsmFails = 0 => \A s \in Sensors : Scaled(lsmTodo, s)'
  <2> SUFFICES ASSUME lsmFails = 0, NEW s \in Sensors, s # c
               PROVE  Scaled(lsmTodo, s)'
    BY <1>9
  <2>1. Scaled(lsmTodo, s)
    BY <1>1, HeadStep DEF LsmInv
  <2> QED
    BY <2>1, <1>1, <1>2, <1>3, <1>6, StillScaled
<1>11. lsmFails = 0 => \A s \in Sensors : Framed(lsmTodo, s)'
  BY <1>1, <1>2, StillFramed DEF LsmInv
<1> QED
  BY <1>1, <1>7, <1>10, <1>11, AfterStep

LEMMA InPlaceTypes ==
  ASSUME LsmTypeOK, NEW c \in Sensors, NEW readings \in Readings, InPlace(c, readings)
  PROVE  /\ lists' \in [Sensors -> Readings]
         /\ held' \in [Sensors -> [list : Readings, shared : BOOLEAN]]
         /\ lists'[c] = readings /\ \A s \in Sensors : s # c => lists'[s] = lists[s]
<1>1. /\ lists \in [Sensors -> Readings]
      /\ held \in [Sensors -> [list : Readings, shared : BOOLEAN]]
  BY DEF LsmTypeOK
<1>2. lists' = [lists EXCEPT ![c] = readings]
  BY DEF InPlace
<1>3. PICK list : list = IF held[c].shared THEN readings ELSE held[c].list
  OBVIOUS
<1>4. list \in Readings
  BY <1>1, <1>3
<1>5. held' = [held EXCEPT ![c] = [held[c] EXCEPT !.list = list]]
  BY <1>3 DEF InPlace
<1>6. [held[c] EXCEPT !.list = list] \in [list : Readings, shared : BOOLEAN]
  BY <1>1, <1>4
<1> QED
  BY <1>1, <1>2, <1>5, <1>6

LEMMA ReadLsm ==
  ASSUME LsmInv, LsmRead
  PROVE  LsmInv'
<1>1. lsmTodo # <<>> /\ Head(lsmTodo) = lsmTodo[1] /\ lsmTodo[1].op = "read" /\ Method(lsmTodo)
  BY HeadStep DEF LsmRead, LsmAt
<1>2. UNCHANGED <<python, lsmReg, lsmOut, lsmScale, lsmCalls, lsmFails>> /\ LsmTypeOK
  BY DEF LsmRead, LsmDone, LsmAbort, lsmBounds, LsmInv
<1>3. PICK c \in Sensors : c = lsmTodo[1].s
  BY <1>1, HeadStep
<1>4. \A s : ~Has(lsmTodo, "scale", s) /\ ~Has(lsmTodo, "configure", s)
  BY <1>1, FirstStep DEF Reads, Sets
<1>5. CASE (python = 3 \/ lsmScale[c] = None3) /\ LsmAbort /\ UNCHANGED <<lists, held>>
  <2>1. LsmTypeOK' /\ lsmTodo' = <<>>
    BY <1>2, <1>5 DEF LsmTypeOK, LsmAbort
  <2>2. ASSUME lsmFails = 0, NEW s \in Sensors
        PROVE  Scaled(lsmTodo, s)'
    <3>1. Scaled(lsmTodo, s)
      BY <1>1, <2>2, HeadStep DEF LsmInv
    <3>2. lsmScale[s] = lsmReg[s].range /\ lsmReg[s].rate = "on"
      BY <3>1, <1>4 DEF Scaled
    <3>3. Scaled(<<>>, s)
      BY <3>2 DEF Scaled
    <3> QED
      BY <3>3, <2>1, <1>2 DEF Scaled, Has
  <2>3. ASSUME lsmFails = 0, NEW s \in Sensors
        PROVE  Framed(lsmTodo, s)'
    <3>1. Scaled(lsmTodo, c) /\ Framed(lsmTodo, s)
      BY <1>1, <2>3, HeadStep DEF LsmInv
    <3>2. lsmScale[c] = lsmReg[c].range
      BY <3>1, <1>4 DEF Scaled
    <3>3. lsmReg[c].range \in LsmRange
      BY <1>2 DEF LsmTypeOK
    <3>4. python = 3
      BY <1>5, <3>2, <3>3, LsmRangeAssumption DEF None3
    <3>5. Framed(<<>>, s)
      BY <3>1, <3>4, NoMethod DEF Framed
    <3> QED
      BY <3>5, <2>1, <1>2, <1>5 DEF Framed, Has
  <2>4. Method(lsmTodo)'
    BY <2>1, NoMethod DEF Method, LsmOrder
  <2> QED
    BY <2>1, <2>2, <2>3, <2>4, <1>2 DEF LsmInv
<1>6. CASE /\ ~(python = 3 \/ lsmScale[c] = None3) /\ LsmDone
           /\ InPlace(c, [frame |-> "chip", range |-> lsmOut[c], scale |-> lsmScale[c]])
  <2>1. PICK readings : readings = [frame |-> "chip", range |-> lsmOut[c], scale |-> lsmScale[c]]
    OBVIOUS
  <2>2. readings \in Readings /\ readings.frame = "chip"
    BY <2>1, <1>2 DEF LsmTypeOK, Readings, Frames
  <2>3. /\ lists' \in [Sensors -> Readings]
        /\ held' \in [Sensors -> [list : Readings, shared : BOOLEAN]]
        /\ lists'[c] = readings /\ \A s \in Sensors : s # c => lists'[s] = lists[s]
    BY <2>1, <2>2, <1>2, <1>6, InPlaceTypes
  <2>4. LsmTypeOK'
    BY <1>2, <2>3 DEF LsmTypeOK
  <2>5. lsmFails = 0 => \A s \in Sensors : Scaled(lsmTodo, s)'
    <3> SUFFICES ASSUME lsmFails = 0, NEW s \in Sensors
                 PROVE  Scaled(lsmTodo, s)'
      OBVIOUS
    <3>1. Scaled(lsmTodo, s) /\ lsmTodo[1].op \notin Sets
      BY <1>1, HeadStep DEF LsmInv, Sets
    <3> QED
      BY <3>1, <1>1, <1>2, <1>6, StillScaled
  <2>6. ASSUME lsmFails = 0
        PROVE  Framed(lsmTodo, c)'
    <3>1. lsmTodo' = Tail(lsmTodo) /\ Has(Tail(lsmTodo), "rotate", c)
      BY <1>1, <1>3, <1>6, FirstStep DEF LsmDone
    <3>2. python # 3 /\ python' = python
      BY <1>2, <1>6
    <3> QED
      BY <3>1, <3>2, <2>2, <2>3 DEF Framed, Has
  <2>7. lsmFails = 0 => \A s \in Sensors : Framed(lsmTodo, s)'
    <3> SUFFICES ASSUME lsmFails = 0, NEW s \in Sensors, s # c
                 PROVE  Framed(lsmTodo, s)'
      BY <2>6
    <3>1. Framed(lsmTodo, s)
      BY DEF LsmInv
    <3> QED
      BY <3>1, <1>1, <1>3, <1>6, <2>3, StillFramed
  <2> QED
    BY <1>1, <1>6, <2>4, <2>5, <2>7, AfterStep
<1> QED
  BY <1>1, <1>3, <1>5, <1>6 DEF LsmRead

LEMMA RotateLsm ==
  ASSUME LsmInv, LsmRotate
  PROVE  LsmInv'
<1>1. lsmTodo # <<>> /\ LsmDone /\ Head(lsmTodo) = lsmTodo[1] /\ lsmTodo[1].op = "rotate"
      /\ Method(lsmTodo)
  BY HeadStep DEF LsmRotate, LsmAt
<1>2. UNCHANGED <<python, lsmReg, lsmOut, lsmScale, lsmCalls, lsmFails>> /\ LsmTypeOK
  BY DEF LsmRotate, LsmDone, lsmBounds, LsmInv
<1>3. PICK c \in Sensors : c = lsmTodo[1].s
  BY <1>1, HeadStep
<1>4. PICK turned : turned = [lists[c] EXCEPT !.frame = IF @ = "chip" THEN "body" ELSE "chip"]
  OBVIOUS
<1>5. turned \in Readings /\ (lists[c].frame = "chip" => turned.frame = "body")
  <2>1. PICK list \in Readings : list = lists[c]
    BY <1>2 DEF LsmTypeOK
  <2>2. PICK f \in Frames : f = (IF list.frame = "chip" THEN "body" ELSE "chip")
    BY DEF Frames
  <2>3. turned = [list EXCEPT !.frame = f]
    BY <1>4, <2>1, <2>2
  <2> QED
    BY <2>1, <2>2, <2>3 DEF Readings
<1>6. /\ lists' \in [Sensors -> Readings]
      /\ held' \in [Sensors -> [list : Readings, shared : BOOLEAN]]
      /\ lists'[c] = turned /\ \A s \in Sensors : s # c => lists'[s] = lists[s]
  <2>1. CASE c = "mag" /\ InPlace(c, turned)
    BY <2>1, <1>2, <1>5, InPlaceTypes
  <2>2. CASE lists' = [lists EXCEPT ![c] = turned] /\ held' = [held EXCEPT ![c].shared = FALSE]
    BY <2>2, <1>2, <1>5 DEF LsmTypeOK
  <2> QED
    BY <2>1, <2>2, <1>1, <1>3, <1>4 DEF LsmRotate
<1>7. LsmTypeOK'
  BY <1>2, <1>6 DEF LsmTypeOK
<1>8. lsmFails = 0 => \A s \in Sensors : Scaled(lsmTodo, s)'
  <2> SUFFICES ASSUME lsmFails = 0, NEW s \in Sensors
               PROVE  Scaled(lsmTodo, s)'
    OBVIOUS
  <2>1. Scaled(lsmTodo, s) /\ lsmTodo[1].op \notin Sets
    BY <1>1, HeadStep DEF LsmInv, Sets
  <2> QED
    BY <2>1, <1>1, <1>2, StillScaled
<1>9. ASSUME lsmFails = 0
      PROVE  Framed(lsmTodo, c)'
  <2>1. lsmTodo' = Tail(lsmTodo)
    BY <1>1 DEF LsmDone
  <2>2. ~Has(lsmTodo', "read", c) /\ ~Has(lsmTodo', "rotate", c)
    BY <1>1, <1>3, <2>1, FirstStep
  <2>3. Has(lsmTodo, "rotate", c) /\ ~Has(lsmTodo, "read", c)
    BY <1>1, <1>3, <2>1, <2>2, HasRest
  <2>4. lists[c].frame = "chip"
    BY <1>9, <2>3 DEF LsmInv, Framed
  <2>5. lists'[c].frame = "body"
    BY <2>4, <1>5, <1>6
  <2> QED
    BY <2>2, <2>5 DEF Framed, Has
<1>10. lsmFails = 0 => \A s \in Sensors : Framed(lsmTodo, s)'
  <2> SUFFICES ASSUME lsmFails = 0, NEW s \in Sensors, s # c
               PROVE  Framed(lsmTodo, s)'
    BY <1>9
  <2>1. Framed(lsmTodo, s)
    BY DEF LsmInv
  <2> QED
    BY <2>1, <1>1, <1>3, <1>6, StillFramed
<1> QED
  BY <1>1, <1>7, <1>8, <1>10, AfterStep

(* A call begins when nothing is left of the one before.                   *)
LEMMA CallLsm ==
  ASSUME LsmInv, NEW method, LsmCall(method), Method(method), method # <<>>,
         \A s \in Sensors : Has(method, "rotate", s) => Has(method, "read", s),
         \A s \in Sensors :
           \/ /\ Has(method, "configure", s) /\ Has(method, "select", s)
              /\ Has(method, "scale", s)
           \/ lsmCalls > 0 /\ Has(method, "select", s) /\ Has(method, "scale", s)
           \/ lsmCalls > 0 /\ ~Has(method, "scale", s)
  PROVE  LsmInv'
<1>1. lsmTodo = <<>> /\ lsmTodo' = method /\ lsmCalls' = lsmCalls + 1 /\ lsmCalls < MaxLsmCalls
  BY DEF LsmCall
<1>2. UNCHANGED <<python, lsmReg, lsmOut, lsmScale, lists, held, lsmFails>>
  BY DEF LsmCall
<1>3. lsmCalls' \in 0..MaxLsmCalls /\ lsmCalls' > 0
  BY <1>1, LsmBoundsAssumption DEF LsmInv, LsmTypeOK
<1>4. LsmTypeOK'
  BY <1>2, <1>3 DEF LsmInv, LsmTypeOK
<1>5. ASSUME lsmFails = 0, NEW s \in Sensors
      PROVE  Scaled(lsmTodo, s)'
  <2>1. lsmCalls > 0 => lsmScale[s] = lsmReg[s].range /\ lsmReg[s].rate = "on"
    BY <1>1, <1>5, NoMethod DEF LsmInv, Scaled
  <2>2. ~Has(method, "scale", s) => \A i \in 1..Len(method) :
                                      ~(method[i].op = "scale" /\ method[i].s = s)
    BY DEF Has
  <2>3. Scaled(method, s)
    BY <2>1, <2>2 DEF Scaled
  <2> QED
    BY <2>3, <1>1, <1>2 DEF Scaled, Has
<1>6. ASSUME lsmFails = 0, NEW s \in Sensors
      PROVE  Framed(lsmTodo, s)'
  <2>1. lists[s].frame # "chip"
    BY <1>1, <1>6, NoMethod DEF LsmInv, Framed
  <2>2. Framed(method, s)
    BY <2>1 DEF Framed
  <2> QED
    BY <2>2, <1>1, <1>2 DEF Framed, Has
<1> QED
  BY <1>1, <1>2, <1>3, <1>4, <1>5, <1>6 DEF LsmInv, Method, LsmOrder

LEMMA ReadsLsm ==
  ASSUME LsmInv, NEW method, ReadsOnly(method), lsmCalls > 0, LsmCall(method)
  PROVE  LsmInv'
<1>1. \A s \in Sensors : ~Has(method, "scale", s)
  BY DEF ReadsOnly, Reads, Has
<1> QED
  BY <1>1, CallLsm DEF ReadsOnly

LEMMA UserLsm ==
  ASSUME LsmInv, LsmUser
  PROVE  LsmInv'
<1>1. CASE LsmCall(lsm_initialize)
  BY <1>1, InitializeMethod, CallLsm
<1>2. ASSUME NEW c \in Sensors, NEW range \in LsmRange, lsmCalls > 0,
             LsmCall(set_scale(c, range))
      PROVE  LsmInv'
  <2>1. PICK method : method = set_scale(c, range)
    OBVIOUS
  <2>2. /\ Method(method) /\ method # <<>>
        /\ Has(method, "scale", c) /\ Has(method, "select", c)
        /\ \A i \in 1..Len(method) : method[i].s = c /\ method[i].op \in Sets \ {"configure"}
    BY <2>1, SetScaleMethod
  <2>3. \A s \in Sensors : s # c => ~Has(method, "scale", s)
    BY <2>2 DEF Has
  <2>4. \A s \in Sensors : ~Has(method, "rotate", s)
    BY <2>2 DEF Has, Sets
  <2>5. LsmCall(method)
    BY <1>2, <2>1
  <2> QED
    BY <1>2, <2>2, <2>3, <2>4, <2>5, CallLsm
<1>3. ASSUME NEW c \in Sensors, lsmCalls > 0, LsmCall(lsm_read(c))
      PROVE  LsmInv'
  BY <1>3, ReadMethod, ReadsLsm
<1>4. CASE lsmCalls > 0 /\ LsmCall(getMotion9)
  BY <1>4, Motion9Method, ReadsLsm
<1>5. CASE lsmCalls > 0 /\ LsmCall(getMotion6)
  BY <1>5, Motion6Method, ReadsLsm
<1> QED
  BY <1>1, <1>2, <1>3, <1>4, <1>5 DEF LsmUser

(* What every step of a method finds done before it.                       *)
THEOREM LsmInvHolds == LsmSpec => []LsmInv
<1>1. LsmInit => LsmInv
  BY InitLsm
<1>2. LsmInv /\ [LsmNext]_lsmVars => LsmInv'
  <2> SUFFICES ASSUME LsmInv, [LsmNext]_lsmVars
               PROVE  LsmInv'
    OBVIOUS
  <2>1. CASE UNCHANGED lsmVars
    BY <2>1 DEF lsmVars, LsmInv, LsmTypeOK, Method, LsmOrder, Scaled, Framed, Has
  <2> QED
    BY <2>1, SampleLsm, ConfigureLsm, SleepLsm, SelectLsm, ScaledLsm, ReadLsm, RotateLsm,
       ReturnLsm, FailLsm, UserLsm DEF LsmNext
<1> QED
  BY <1>1, <1>2, PTL DEF LsmSpec

(* Registers, scales, lists and what was handed out keep their types.      *)
THEOREM LsmTypeCorrect == LsmSpec => []LsmTypeOK
<1>1. LsmInv => LsmTypeOK
  BY DEF LsmInv
<1> QED
  BY <1>1, LsmInvHolds, PTL

(* Between two calls each scale is that of the range in its register and   *)
(* the sensor is on, whatever set_*_scale calls and readings were made, as *)
(* long as no transfer has failed.                                         *)
THEOREM ScalesMatchHolds == LsmSpec => []ScalesMatch
<1>1. LsmInv => ScalesMatch
  BY NoMethod DEF LsmInv, ScalesMatch, Scaled
<1> QED
  BY <1>1, LsmInvHolds, PTL

(* Between two calls the object keeps no list in the frame of the chip: by *)
(* whatever mixture of methods it was read, it was turned exactly once, as *)
(* long as no transfer has failed.                                         *)
THEOREM KeptInBodyFrameHolds == LsmSpec => []KeptInBodyFrame
<1>1. LsmInv => KeptInBodyFrame
  <2> SUFFICES ASSUME LsmInv, lsmTodo = <<>>, lsmFails = 0, NEW s \in Sensors
               PROVE  lists[s].frame \in {"zero", "body"}
    BY DEF KeptInBodyFrame
  <2>1. lists[s].frame # "chip"
    BY NoMethod DEF LsmInv, Framed
  <2> QED
    BY <2>1 DEF LsmInv, LsmTypeOK, Readings, Frames
<1> QED
  BY <1>1, LsmInvHolds, PTL
----------------------------------------------------------------------------
(* The MS5611: update computes from a pressure and a temperature of its    *)
(* own call.                                                               *)

Step ==
  {refresh("pressure"), refresh("temperature"), readInto("d1"), readInto("d2"),
   calculate("update"), calculate("user"), Wait, readProm}

(* Which access follows which in a method of more than one.                *)
InOrder(t) ==
  \A i \in 1..Len(t) :
    /\ t[i] = readProm => i + 1 < Len(t) /\ t[i + 1] \in {readProm, refresh("pressure")}
    /\ t[i] = refresh("pressure") /\ i < Len(t) =>
         i + 2 < Len(t) /\ t[i + 1] = Wait /\ t[i + 2] = readInto("d1")
    /\ t[i] = Wait => i + 1 < Len(t) /\ t[i + 1] \in {readInto("d1"), readInto("d2")}
    /\ t[i] = readInto("d1") /\ i < Len(t) => i + 1 < Len(t) /\ t[i + 1] = refresh("temperature")
    /\ t[i] = refresh("temperature") /\ i < Len(t) =>
         i + 2 < Len(t) /\ t[i + 1] = Wait /\ t[i + 2] = readInto("d2")
    /\ t[i] = readInto("d2") /\ i < Len(t) => t[i + 1] = calculate("update")
    /\ t[i] = calculate("update") /\ i < Len(t) =>
         i + 1 < Len(t) /\ t[i + 1] = refresh("pressure")
    /\ t[i] = calculate("user") => i = Len(t)

Program(t) == t \in Seq(Step) /\ InOrder(t)

LEMMA StepsDiffer ==
  /\ refresh("pressure") # refresh("temperature")
  /\ readInto("d1") # readInto("d2")
  /\ calculate("update") # calculate("user")
  /\ \A x, y : refresh(x) # readInto(y) /\ refresh(x) # calculate(y) /\ readInto(x) # calculate(y)
  /\ \A x : /\ refresh(x) # Wait /\ refresh(x) # readProm
            /\ readInto(x) # Wait /\ readInto(x) # readProm
            /\ calculate(x) # Wait /\ calculate(x) # readProm
  /\ Wait # readProm
BY DEF refresh, readInto, calculate, Wait, readProm

LEMMA OneStep ==
  ASSUME NEW x \in Step, x # readProm, x # Wait
  PROVE  Program(<<x>>)
BY DEF Program, InOrder

LEMMA UpdateSteps ==
  /\ update \in Seq(Step) /\ Len(update) = 7
  /\ update[1] = refresh("pressure") /\ update[2] = Wait /\ update[3] = readInto("d1")
  /\ update[4] = refresh("temperature") /\ update[5] = Wait /\ update[6] = readInto("d2")
  /\ update[7] = calculate("update")
BY DEF update, Step

LEMMA UpdateProgram == Program(update)
<1>1. PICK u : u = update
  OBVIOUS
<1>2. /\ u \in Seq(Step) /\ Len(u) = 7
      /\ u[1] = refresh("pressure") /\ u[2] = Wait /\ u[3] = readInto("d1")
      /\ u[4] = refresh("temperature") /\ u[5] = Wait /\ u[6] = readInto("d2")
      /\ u[7] = calculate("update")
  BY <1>1, UpdateSteps
<1>3. InOrder(u)
  BY <1>2, StepsDiffer DEF InOrder
<1> QED
  BY <1>1, <1>2, <1>3 DEF Program

LEMMA Appended ==
  ASSUME NEW a \in Seq(Step), NEW b \in Seq(Step)
  PROVE  /\ a \o b \in Seq(Step) /\ Len(a \o b) = Len(a) + Len(b)
         /\ \A i \in 1..Len(a) : (a \o b)[i] = a[i]
         /\ \A i \in 1..Len(b) : (a \o b)[i + Len(a)] = b[i]
OBVIOUS

(* The coefficients are read before the update, and test updates again.    *)
LEMMA InitializeProgram ==
  /\ Program(baro_initialize) /\ Len(baro_initialize) = 13
  /\ baro_initialize[1] = readProm /\ baro_initialize[13] = calculate("update")
<1>1. PICK u : u = update
  OBVIOUS
<1>2. PICK p : p = <<readProm, readProm, readProm, readProm, readProm, readProm>>
  OBVIOUS
<1>3. PICK t : t = p \o u
  OBVIOUS
<1>4. t = baro_initialize
  BY <1>1, <1>2, <1>3 DEF baro_initialize
<1>5. u \in Seq(Step) /\ Len(u) = 7 /\ InOrder(u) /\ u[1] = refresh("pressure") /\ u[7] = calculate("update")
  BY <1>1, UpdateSteps, UpdateProgram DEF Program
<1>6. p \in Seq(Step) /\ Len(p) = 6 /\ \A i \in 1..6 : p[i] = readProm
  BY <1>2 DEF Step
<1>0. /\ t \in Seq(Step) /\ Len(t) = Len(p) + Len(u)
      /\ \A i \in 1..Len(p) : t[i] = p[i]
      /\ \A i \in 1..Len(u) : t[i + Len(p)] = u[i]
  <2>1. p \in Seq(Step) /\ u \in Seq(Step)
    BY <1>5, <1>6
  <2> QED
    BY <2>1, <1>3, Appended
<1>7. t \in Seq(Step) /\ Len(t) = 13
  BY <1>0, <1>5, <1>6
<1>8. \A i \in 1..6 : t[i] = readProm
  BY <1>0, <1>6
<1>9. \A i \in 1..7 : t[i + 6] = u[i]
  BY <1>0, <1>5, <1>6
<1>10. InOrder(t)
  <2> SUFFICES ASSUME NEW i \in 1..13
               PROVE  InOrder(t)!(i)
    BY <1>7 DEF InOrder
  <2>1. CASE i <= 6
    <3>1. t[i] = readProm /\ t[i + 1] \in {readProm, refresh("pressure")}
      BY <2>1, <1>5, <1>8, <1>9
    <3> QED
      BY <2>1, <3>1, <1>7, StepsDiffer DEF InOrder
  <2>2. CASE i > 6
    <3>1. PICK j \in 1..7 : i = j + 6
      BY <2>2
    <3>2. t[i] = u[j] /\ (j + 1 <= 7 => t[i + 1] = u[j + 1]) /\ (j + 2 <= 7 => t[i + 2] = u[j + 2])
      BY <3>1, <1>9
    <3> QED
      BY <3>1, <3>2, <1>5, <1>7 DEF InOrder
  <2> QED
    BY <2>1, <2>2
<1> QED
  BY <1>4, <1>5, <1>7, <1>8, <1>9, <1>10 DEF Program

LEMMA TestProgram == Program(baro_test) /\ Len(baro_test) = 20 /\ baro_test[1] = readProm
<1>1. PICK u : u = update
  OBVIOUS
<1>2. PICK p : p = baro_initialize
  OBVIOUS
<1>3. PICK t : t = p \o u
  OBVIOUS
<1>4. t = baro_test
  BY <1>1, <1>2, <1>3 DEF baro_test
<1>5. u \in Seq(Step) /\ Len(u) = 7 /\ InOrder(u) /\ u[1] = refresh("pressure")
  BY <1>1, UpdateSteps, UpdateProgram DEF Program
<1>6. /\ p \in Seq(Step) /\ Len(p) = 13 /\ InOrder(p)
      /\ p[1] = readProm /\ p[13] = calculate("update")
  BY <1>2, InitializeProgram DEF Program
<1>7. /\ t \in Seq(Step) /\ Len(t) = Len(p) + Len(u)
      /\ \A i \in 1..Len(p) : t[i] = p[i]
      /\ \A i \in 1..Len(u) : t[i + Len(p)] = u[i]
  <2>1. p \in Seq(Step) /\ u \in Seq(Step)
    BY <1>5, <1>6
  <2> QED
    BY <2>1, <1>3, Appended
<1>8. t \in Seq(Step) /\ Len(t) = 20
  BY <1>5, <1>6, <1>7
<1>9. \A i \in 1..13 : t[i] = p[i]
  BY <1>6, <1>7
<1>10. \A i \in 1..7 : t[i + 13] = u[i]
  BY <1>5, <1>6, <1>7
<1>11. InOrder(t)
  <2> SUFFICES ASSUME NEW i \in 1..20
               PROVE  InOrder(t)!(i)
    BY <1>8 DEF InOrder
  <2>1. CASE i < 13
    <3>1. t[i] = p[i] /\ t[i + 1] = p[i + 1] /\ (i + 2 <= 13 => t[i + 2] = p[i + 2])
      BY <2>1, <1>9
    <3> QED
      BY <2>1, <3>1, <1>6, <1>8 DEF InOrder
  <2>2. CASE i = 13
    <3>1. t[i] = calculate("update") /\ t[i + 1] = refresh("pressure")
      <4>1. t[13] = p[13] /\ t[1 + 13] = u[1]
        BY <1>9, <1>10
      <4> QED
        BY <4>1, <2>2, <1>5, <1>6
    <3> QED
      BY <2>2, <3>1, <1>8, StepsDiffer DEF InOrder
  <2>3. CASE i > 13
    <3>1. PICK j \in 1..7 : i = j + 13
      BY <2>3
    <3>2. t[i] = u[j] /\ (j + 1 <= 7 => t[i + 1] = u[j + 1]) /\ (j + 2 <= 7 => t[i + 2] = u[j + 2])
      BY <3>1, <1>10
    <3> QED
      BY <3>1, <3>2, <1>5, <1>8 DEF InOrder
  <2> QED
    BY <2>1, <2>2, <2>3
<1> QED
  BY <1>4, <1>6, <1>8, <1>9, <1>11 DEF Program

(* What is left of a method after an access.                               *)
LEMMA RestProgram ==
  ASSUME NEW t, Program(t), t # <<>>
  PROVE  /\ Program(Tail(t))
         /\ Len(Tail(t)) = Len(t) - 1
         /\ Len(t) > 1 => Tail(t)[1] = t[2]
         /\ Len(t) > 2 => Tail(t)[2] = t[3]
<1>1. t \in Seq(Step) /\ InOrder(t)
  BY DEF Program
<1>2. PICK r : r = Tail(t)
  OBVIOUS
<1>3. r \in Seq(Step) /\ Len(r) = Len(t) - 1 /\ Len(t) \in Nat /\ \A i \in 1..Len(r) : r[i] = t[i + 1]
  BY <1>1, <1>2
<1>4. InOrder(r)
  <2> SUFFICES ASSUME NEW i \in 1..Len(r)
               PROVE  InOrder(r)!(i)
    BY DEF InOrder
  <2>1. i + 1 \in 1..Len(t) /\ r[i] = t[i + 1]
    BY <1>3
  <2>2. InOrder(t)!(i + 1)
    BY <2>1, <1>1 DEF InOrder
  <2>3. (i + 1 <= Len(r) => r[i + 1] = t[i + 2]) /\ (i + 2 <= Len(r) => r[i + 2] = t[i + 3])
    BY <1>3
  <2>4. i + 1 + 1 = i + 2 /\ i + 1 + 2 = i + 3
    OBVIOUS
  <2> QED
    BY <2>1, <2>2, <2>3, <2>4, <1>3
<1> QED
  BY <1>2, <1>3, <1>4 DEF Program
----------------------------------------------------------------------------
M(what) == [of |-> what, call |-> baroCalls]
InHand(m) == pending = m \/ (pending = Nothing /\ adc = m)

(* What an access of a method of more than one finds done before it.       *)
Ready(t) ==
  t # <<>> =>
    /\ t[1] = refresh("pressure") /\ Len(t) > 1 => prom = 6
    /\ t[1] = Wait /\ t[2] = readInto("d1") => InHand(M("pressure")) /\ prom = 6
    /\ t[1] = readInto("d1") /\ Len(t) > 1 => adc = M("pressure") /\ pending = Nothing /\ prom = 6
    /\ t[1] = refresh("temperature") /\ Len(t) > 1 => d1 = M("pressure") /\ prom = 6
    /\ t[1] = Wait /\ t[2] = readInto("d2") =>
         d1 = M("pressure") /\ InHand(M("temperature")) /\ prom = 6
    /\ t[1] = readInto("d2") /\ Len(t) > 1 =>
         d1 = M("pressure") /\ adc = M("temperature") /\ pending = Nothing /\ prom = 6
    /\ t[1] = calculate("update") => d1 = M("pressure") /\ d2 = M("temperature") /\ prom = 6

Whole == BaroTypeOK /\ Program(baroTodo) /\ Ready(baroTodo) /\ UpdateIsWhole

LEMMA NothingConverted == Nothing \in Converted
BY BaroBoundsAssumption DEF Nothing, Converted

LEMMA Measured ==
  ASSUME BaroTypeOK
  PROVE  \A x \in {"pressure", "temperature"} : M(x) \in Converted /\ M(x) # Nothing
BY DEF M, Converted, Nothing, BaroTypeOK

LEMMA StepKinds ==
  ASSUME NEW x \in Step
  PROVE  /\ x.op = "convert" => x \in {refresh("pressure"), refresh("temperature")}
         /\ x.op = "read" => x \in {readInto("d1"), readInto("d2")}
         /\ x.op = "calculate" => x \in {calculate("update"), calculate("user")}
         /\ x.op = "sleep" => x = Wait
         /\ x.op = "prom" => x = readProm
<1>1. /\ \A y : refresh(y).op = "convert" /\ readInto(y).op = "read" /\ calculate(y).op = "calculate"
      /\ Wait.op = "sleep" /\ readProm.op = "prom"
  BY DEF refresh, readInto, calculate, Wait, readProm
<1> QED
  BY <1>1 DEF Step

LEMMA InitWhole == BaroInit => Whole
<1>1. <<>> \in Seq(Step) /\ Len(<<>>) = 0
  OBVIOUS
<1>2. Program(<<>>)
  BY <1>1 DEF Program, InOrder
<1> QED
  BY <1>2, BaroBoundsAssumption
     DEF BaroInit, Whole, BaroTypeOK, Converted, Nothing, Ready, UpdateIsWhole

Follows(t) ==
  /\ t[1] = readProm => 2 < Len(t) /\ t[2] \in {readProm, refresh("pressure")}
  /\ t[1] = refresh("pressure") /\ 1 < Len(t) =>
       3 < Len(t) /\ t[2] = Wait /\ t[3] = readInto("d1")
  /\ t[1] = Wait => 2 < Len(t) /\ t[2] \in {readInto("d1"), readInto("d2")}
  /\ t[1] = readInto("d1") /\ 1 < Len(t) => 2 < Len(t) /\ t[2] = refresh("temperature")
  /\ t[1] = refresh("temperature") /\ 1 < Len(t) =>
       3 < Len(t) /\ t[2] = Wait /\ t[3] = readInto("d2")
  /\ t[1] = readInto("d2") /\ 1 < Len(t) => t[2] = calculate("update")
  /\ t[1] = calculate("update") /\ 1 < Len(t) => 2 < Len(t) /\ t[2] = refresh("pressure")
  /\ t[1] = calculate("user") => Len(t) = 1

(* The access that is taken, and what it leaves.                           *)
LEMMA Taken ==
  ASSUME Whole, BaroDone, baroTodo # <<>>
  PROVE  /\ Program(baroTodo') /\ baroCalls' = baroCalls /\ baroFails' = baroFails
         /\ baroTodo[1] \in Step /\ Head(baroTodo) = baroTodo[1]
         /\ Len(baroTodo) \in Nat /\ Len(baroTodo) > 0 /\ Len(baroTodo') = Len(baroTodo) - 1
         /\ baroTodo' # <<>> => Len(baroTodo) > 1 /\ baroTodo'[1] = baroTodo[2]
         /\ Len(baroTodo) > 2 => baroTodo'[2] = baroTodo[3]
         /\ Follows(baroTodo)
<1>1. PICK t : t = baroTodo
  OBVIOUS
<1>2. Program(t) /\ t # <<>> /\ t \in Seq(Step) /\ InOrder(t)
  BY <1>1 DEF Whole, Program
<1>3. /\ Program(Tail(t)) /\ Len(Tail(t)) = Len(t) - 1
      /\ Len(t) > 1 => Tail(t)[1] = t[2]
      /\ Len(t) > 2 => Tail(t)[2] = t[3]
  BY <1>2, RestProgram
<1>4. Len(t) \in Nat /\ Len(t) > 0 /\ t[1] \in Step /\ Head(t) = t[1]
  BY <1>2
<1>5. Tail(t) # <<>> => Len(t) > 1
  <2>1. Tail(t) \in Seq(Step)
    BY <1>3 DEF Program
  <2>2. Tail(t) # <<>> => Len(Tail(t)) > 0
    BY <2>1
  <2> QED
    BY <2>2, <1>3, <1>4
<1>6. Follows(t)
  <2>1. 1 \in 1..Len(t) /\ 1 + 1 = 2 /\ 1 + 2 = 3
    BY <1>4
  <2>2. InOrder(t)!(1)
    BY <2>1, <1>2, Zenon DEF InOrder
  <2> QED
    BY <2>1, <2>2, <1>4 DEF Follows
<1> QED
  BY <1>1, <1>3, <1>4, <1>5, <1>6 DEF BaroDone

LEMMA ConvertsWhole ==
  ASSUME Whole, BaroConverts
  PROVE  Whole'
<1>1. pending # Nothing /\ adc' = pending /\ pending' = Nothing
  BY DEF BaroConverts, Convert
<1>2. UNCHANGED <<prom, d1, d2, values, baroTodo, baroCalls, baroFails>>
  BY DEF BaroConverts, baroObject
<1>3. BaroTypeOK'
  BY <1>1, <1>2, NothingConverted DEF Whole, BaroTypeOK
<1>4. M("pressure")' = M("pressure") /\ M("temperature")' = M("temperature")
  BY <1>2 DEF M
<1>5. Ready(baroTodo)'
  BY <1>1, <1>2, <1>4 DEF Whole, Ready, InHand
<1> QED
  BY <1>2, <1>3, <1>5 DEF Whole, Program, InOrder, UpdateIsWhole

(* What has to be shown of a step that takes an access off the list.       *)
LEMMA AfterAccess ==
  ASSUME Whole, BaroDone, baroTodo # <<>>, BaroTypeOK', UpdateIsWhole',
         baroTodo' # <<>> => Ready(baroTodo)'
  PROVE  Whole'
<1>1. Program(baroTodo')
  BY Taken
<1>2. Ready(baroTodo)'
  BY DEF Ready
<1> QED
  BY <1>1, <1>2 DEF Whole, Program, InOrder

LEMMA SleepWhole ==
  ASSUME Whole, BaroSleep
  PROVE  Whole'
<1>1. baroTodo # <<>> /\ Head(baroTodo).op = "sleep" /\ BaroDone
  BY DEF BaroSleep, BaroAt
<1>2. UNCHANGED <<prom, d1, d2, values, baroCalls, baroFails>> /\ Convert
  BY DEF BaroSleep, baroObject, BaroDone
<1>3. baroTodo[1] = Wait
  BY <1>1, Taken, StepKinds
<1>4. BaroTypeOK' /\ UpdateIsWhole'
  BY <1>2, NothingConverted DEF Whole, BaroTypeOK, UpdateIsWhole, Convert
<1>5. M("pressure")' = M("pressure") /\ M("temperature")' = M("temperature")
  BY <1>2 DEF M
<1>6. \A x : x # Nothing /\ InHand(x) => adc' = x /\ pending' = Nothing
  BY <1>2 DEF InHand, Convert
<1>7. \A x \in {"pressure", "temperature"} : M(x) # Nothing
  BY Measured DEF Whole
<1>8. Len(baroTodo) \in Nat /\ Len(baroTodo) > 2 /\ baroTodo'[1] = baroTodo[2]
      /\ baroTodo[2] \in {readInto("d1"), readInto("d2")}
  <2>1. 2 < Len(baroTodo) /\ baroTodo[2] \in {readInto("d1"), readInto("d2")} /\ Len(baroTodo) \in Nat
    BY <1>1, <1>3, Taken DEF Follows
  <2>2. Len(baroTodo') # 0
    BY <2>1, <1>1, Taken
  <2> QED
    BY <2>1, <2>2, <1>1, Taken
<1>9. Ready(baroTodo)'
  BY <1>1, <1>2, <1>3, <1>5, <1>6, <1>8, <1>7, StepsDiffer DEF Whole, Ready
<1> QED
  BY <1>1, <1>4, <1>9, AfterAccess

LEMMA RefreshWhole ==
  ASSUME Whole, BaroRefresh
  PROVE  Whole'
<1>1. baroTodo # <<>> /\ Head(baroTodo).op = "convert" /\ BaroDone
  BY DEF BaroRefresh, BaroAt
<1>2. UNCHANGED <<adc, prom, d1, d2, values, baroCalls, baroFails>>
  BY DEF BaroRefresh, baroObject, BaroDone
<1>3. PICK x \in {"pressure", "temperature"} : baroTodo[1] = refresh(x)
  BY <1>1, Taken, StepKinds
<1>4. pending' = M(x)
  BY <1>1, <1>3, Taken DEF BaroRefresh, M, refresh
<1>5. BaroTypeOK' /\ UpdateIsWhole'
  BY <1>2, <1>4, Measured DEF Whole, BaroTypeOK, UpdateIsWhole
<1>6. M("pressure")' = M("pressure") /\ M("temperature")' = M("temperature")
  BY <1>2 DEF M
<1>7. ASSUME baroTodo' # <<>>
      PROVE  Ready(baroTodo)'
  <2>1. /\ Len(baroTodo) > 3 /\ baroTodo'[1] = Wait
        /\ x = "pressure" => baroTodo'[2] = readInto("d1")
        /\ x = "temperature" => baroTodo'[2] = readInto("d2")
    BY <1>1, <1>3, <1>7, Taken, StepsDiffer DEF Follows
  <2>2. prom = 6 /\ (x = "temperature" => d1 = M("pressure"))
    BY <1>1, <1>3, <1>7, Taken, StepsDiffer DEF Whole, Ready
  <2> QED
    BY <2>1, <2>2, <1>2, <1>4, <1>6, StepsDiffer DEF Ready, InHand
<1> QED
  BY <1>1, <1>5, <1>7, AfterAccess

LEMMA ReadWhole ==
  ASSUME Whole, BaroRead
  PROVE  Whole'
<1>1. baroTodo # <<>> /\ Head(baroTodo).op = "read" /\ BaroDone
  BY DEF BaroRead, BaroAt
<1>2. UNCHANGED <<pending, prom, values, baroCalls, baroFails>>
  BY DEF BaroRead, BaroDone
<1>3. PICK result \in Converted :
        /\ pending = Nothing => result = adc
        /\ \/ Head(baroTodo).arg = "d1" /\ d1' = result /\ UNCHANGED d2
           \/ Head(baroTodo).arg = "d2" /\ d2' = result /\ UNCHANGED d1
  BY NothingConverted DEF BaroRead, Whole, BaroTypeOK
<1>4. BaroTypeOK' /\ UpdateIsWhole'
  BY <1>2, <1>3, NothingConverted DEF Whole, BaroTypeOK, UpdateIsWhole, BaroRead
<1>5. M("pressure")' = M("pressure") /\ M("temperature")' = M("temperature")
  BY <1>2 DEF M
<1>6. ASSUME baroTodo' # <<>>
      PROVE  Ready(baroTodo)'
  <2>0. Len(baroTodo) > 1 /\ baroTodo'[1] = baroTodo[2]
    BY <1>1, <1>6, Taken
  <2>1. CASE baroTodo[1] = readInto("d1")
    <3>1. baroTodo'[1] = refresh("temperature")
      BY <2>0, <2>1, <1>1, Taken DEF Follows
    <3>2. d1' = M("pressure") /\ prom' = 6
      <4>1. adc = M("pressure") /\ pending = Nothing /\ prom = 6
        BY <2>0, <2>1, <1>1 DEF Whole, Ready
      <4>2. Head(baroTodo).arg = "d1"
        BY <2>1, <1>1, Taken DEF readInto
      <4> QED
        BY <4>1, <4>2, <1>2, <1>3
    <3> QED
      BY <3>1, <3>2, <1>5, StepsDiffer DEF Ready
  <2>2. CASE baroTodo[1] = readInto("d2")
    <3>1. baroTodo'[1] = calculate("update")
      BY <2>0, <2>2, <1>1, Taken DEF Follows
    <3>2. d1' = M("pressure") /\ d2' = M("temperature") /\ prom' = 6
      <4>1. d1 = M("pressure") /\ adc = M("temperature") /\ pending = Nothing /\ prom = 6
        BY <2>0, <2>2, <1>1 DEF Whole, Ready
      <4>2. Head(baroTodo).arg = "d2"
        BY <2>2, <1>1, Taken DEF readInto
      <4> QED
        BY <4>1, <4>2, <1>2, <1>3
    <3> QED
      BY <3>1, <3>2, <1>5, StepsDiffer DEF Ready
  <2> QED
    BY <2>1, <2>2, <1>1, Taken, StepKinds
<1> QED
  BY <1>1, <1>4, <1>6, AfterAccess

LEMMA PromWhole ==
  ASSUME Whole, BaroProm
  PROVE  Whole'
<1>1. baroTodo # <<>> /\ Head(baroTodo).op = "prom" /\ BaroDone
  BY DEF BaroProm, BaroAt
<1>2. UNCHANGED <<adc, pending, d1, d2, values, baroCalls, baroFails>>
  BY DEF BaroProm, baroChip, BaroDone
<1>3. baroTodo[1] = readProm
  BY <1>1, Taken, StepKinds
<1>4. /\ Len(baroTodo) \in Nat /\ 2 < Len(baroTodo)
      /\ baroTodo[2] \in {readProm, refresh("pressure")}
  BY <1>1, <1>3, Taken DEF Follows
<1>5. prom' \in {prom, 6}
  BY DEF BaroProm, PromRead
<1>6. BaroTypeOK' /\ UpdateIsWhole'
  BY <1>2, <1>5 DEF Whole, BaroTypeOK, UpdateIsWhole
<1>7. ASSUME baroTodo' # <<>>
      PROVE  Ready(baroTodo)'
  <2>1. baroTodo'[1] = baroTodo[2]
    BY <1>1, <1>7, Taken
  <2>2. baroTodo[2] = refresh("pressure") => prom' = 6
    BY DEF BaroProm, PromRead, refresh
  <2> QED
    BY <2>1, <2>2, <1>4, StepsDiffer DEF Ready
<1> QED
  BY <1>1, <1>6, <1>7, AfterAccess

LEMMA CalculateWhole ==
  ASSUME Whole, BaroCalculate
  PROVE  Whole'
<1>1. baroTodo # <<>> /\ Head(baroTodo).op = "calculate" /\ BaroDone
  BY DEF BaroCalculate, BaroAt
<1>2. UNCHANGED <<adc, pending, prom, d1, d2, baroCalls, baroFails>>
  BY DEF BaroCalculate, baroChip, BaroDone
<1>3. PICK by \in {"update", "user"} : baroTodo[1] = calculate(by)
  BY <1>1, Taken, StepKinds
<1>4. values' = [d1 |-> d1, d2 |-> d2, prom |-> prom, by |-> by]
  BY <1>1, <1>3, Taken DEF BaroCalculate, calculate
<1>5. BaroTypeOK'
  BY <1>2, <1>4 DEF Whole, BaroTypeOK
<1>6. by = "update" => d1 = M("pressure") /\ d2 = M("temperature") /\ prom = 6
  BY <1>1, <1>3 DEF Whole, Ready
<1>7. UpdateIsWhole'
  BY <1>4, <1>6 DEF UpdateIsWhole, M
<1>8. ASSUME baroTodo' # <<>>
      PROVE  Ready(baroTodo)'
  <2>1. Len(baroTodo) > 1 /\ baroTodo'[1] = baroTodo[2]
    BY <1>1, <1>8, Taken
  <2>2. by = "update" /\ baroTodo[2] = refresh("pressure")
    BY <2>1, <1>1, <1>3, Taken DEF Follows
  <2> QED
    BY <2>1, <2>2, <1>2, <1>6, StepsDiffer DEF Ready
<1> QED
  BY <1>1, <1>5, <1>7, <1>8, AfterAccess

LEMMA FailWhole ==
  ASSUME Whole, BaroFail
  PROVE  Whole'
<1>1. baroTodo' = <<>> /\ UNCHANGED <<adc, pending, prom, d1, d2, values, baroCalls>>
  BY DEF BaroFail, baroChip, baroObject
<1>2. baroFails' \in 0..MaxBaroFails
  BY BaroBoundsAssumption DEF BaroFail, Whole, BaroTypeOK
<1>3. BaroTypeOK' /\ UpdateIsWhole'
  BY <1>1, <1>2 DEF Whole, BaroTypeOK, UpdateIsWhole
<1>4. <<>> \in Seq(Step) /\ Len(<<>>) = 0
  OBVIOUS
<1>5. Program(baroTodo)' /\ Ready(baroTodo)'
  BY <1>1, <1>4 DEF Program, InOrder, Ready
<1> QED
  BY <1>3, <1>5 DEF Whole

LEMMA CallWhole ==
  ASSUME Whole, NEW method, BaroCall(method), Program(method), method # <<>>,
         method[1] = refresh("pressure") /\ Len(method) > 1 => prom = 6,
         \/ method[1] = readProm \/ method[1] = refresh("pressure")
         \/ Len(method) = 1 /\ method[1] \notin {Wait, calculate("update")}
  PROVE  Whole'
<1>1. baroTodo' = method /\ UNCHANGED <<adc, pending, prom, d1, d2, values, baroFails>>
  BY DEF BaroCall, baroChip, baroObject
<1>2. baroCalls' \in 0..MaxBaroCalls
  BY BaroBoundsAssumption DEF BaroCall, Whole, BaroTypeOK
<1>3. BaroTypeOK' /\ UpdateIsWhole'
  BY <1>1, <1>2 DEF Whole, BaroTypeOK, UpdateIsWhole
<1>4. Ready(baroTodo)'
  <2>1. CASE method[1] \in {readProm, refresh("pressure")}
    BY <2>1, <1>1, StepsDiffer DEF Ready
  <2>2. CASE Len(method) = 1 /\ method[1] \notin {Wait, calculate("update")}
    BY <2>2, <1>1 DEF Ready
  <2> QED
    BY <2>1, <2>2
<1> QED
  BY <1>1, <1>3, <1>4 DEF Whole, Program, InOrder

LEMMA UserWhole ==
  ASSUME Whole, BaroUser
  PROVE  Whole'
<1>1. CASE BaroCall(baro_initialize)
  <2>1. baro_initialize # <<>>
    BY InitializeProgram DEF Program
  <2> QED
    BY <1>1, <2>1, InitializeProgram, StepsDiffer, CallWhole
<1>2. CASE BaroCall(baro_test)
  <2>1. baro_test # <<>>
    <3>1. Len(<<>>) = 0 /\ 0 # 20
      OBVIOUS
    <3> QED
      BY <3>1, TestProgram, Zenon
  <2> QED
    BY <1>2, <2>1, TestProgram, StepsDiffer, CallWhole
<1>3. CASE prom = 6 /\ BaroCall(update)
  <2>1. update # <<>>
    BY UpdateSteps
  <2> QED
    BY <1>3, <2>1, UpdateSteps, UpdateProgram, CallWhole
<1>4. ASSUME NEW access \in {refresh("pressure"), refresh("temperature"),
                           readInto("d1"), readInto("d2"), calculate("user")},
             BaroCall(<<access>>)
      PROVE  Whole'
  <2>1. access \in Step /\ access \notin {readProm, Wait, calculate("update")}
    BY StepsDiffer DEF Step
  <2>2. PICK m : m = <<access>>
    OBVIOUS
  <2>3. Program(m)
    BY <2>1, <2>2, OneStep
  <2>4. m # <<>> /\ Len(m) = 1 /\ m[1] = access
    BY <2>2
  <2>5. BaroCall(m)
    BY <1>4, <2>2
  <2>6. /\ m[1] = refresh("pressure") /\ Len(m) > 1 => prom = 6
        /\ m[1] \notin {Wait, calculate("update")}
    BY <2>1, <2>4
  <2> QED
    BY <2>3, <2>4, <2>5, <2>6, CallWhole, Zenon
<1> QED
  BY <1>1, <1>2, <1>3, <1>4 DEF BaroUser

(* Every access of a method finds what the accesses before it were for.    *)
THEOREM WholeHolds == BaroSpec => []Whole
<1>1. BaroInit => Whole
  BY InitWhole
<1>2. Whole /\ [BaroNext]_baroVars => Whole'
  <2> SUFFICES ASSUME Whole, [BaroNext]_baroVars
               PROVE  Whole'
    OBVIOUS
  <2>1. CASE UNCHANGED baroVars
    BY <2>1 DEF baroVars, Whole, BaroTypeOK, Program, InOrder, Ready, InHand, M, UpdateIsWhole
  <2> QED
    BY <2>1, ConvertsWhole, SleepWhole, RefreshWhole, ReadWhole, PromWhole,
       CalculateWhole, FailWhole, UserWhole DEF BaroNext
<1> QED
  BY <1>1, <1>2, PTL DEF BaroSpec

(* The chip and the object hold what was converted in some call, the       *)
(* coefficients are six at most, and the bounds are kept.                  *)
THEOREM BaroTypeCorrect == BaroSpec => []BaroTypeOK
<1>1. Whole => BaroTypeOK
  BY DEF Whole
<1> QED
  BY <1>1, WholeHolds, PTL

(* What update stores as PRES and TEMP is computed from a pressure and a   *)
(* temperature of that call with all coefficients: refreshPressure, a      *)
(* sleep and readPressure leave nothing of an earlier conversion behind.   *)
THEOREM UpdateIsWholeHolds == BaroSpec => []UpdateIsWhole
<1>1. Whole => UpdateIsWhole
  BY DEF Whole
<1> QED
  BY <1>1, WholeHolds, PTL
=============================================================================
