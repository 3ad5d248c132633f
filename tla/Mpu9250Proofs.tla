--------------------------- MODULE Mpu9250Proofs ---------------------------
(* The proofs about the MPU9250, for any ranges and any number of calls.   *)
(* The user is always between two accesses of a known method: the          *)
(* invariant says which, and what the accesses before have achieved.       *)
EXTENDS Mpu9250, TLAPS

Scaled == {"acc", "gyro"}
Ranges(s) == IF s = "acc" THEN AccRange ELSE GyroRange

Vals == AccRange \cup GyroRange \cup BOOLEAN \cup Blocks \cup {"reset", "continuous", ""} \cup 1..7
        \cup SUBSET {"acc", "gyro", "mag", "asa"}
Names == Scaled \cup {"master", "read", "block", "do", "count", "",
                      "calib_mag", "AK8963_whoami", "read_mag", "read_all", "read_acc", "read_gyro"}
IsAccess(x) ==
  \/ /\ x.op = "write"
     /\ \/ x.name = "acc" /\ x.val \in AccRange
        \/ x.name = "gyro" /\ x.val \in GyroRange
        \/ x.name = "master" /\ x.val = TRUE
        \/ x.name = "read" /\ x.val \in BOOLEAN
        \/ x.name = "block" /\ x.val \in Blocks
        \/ x.name = "do" /\ x.val \in {"reset", "continuous"}
        \/ x.name = "count" /\ x.val \in 1..7
  \/ x.op = "scale" /\ x.name \in Scaled /\ x.val \in Ranges(x.name)
  \/ /\ x.op = "burst" /\ x.val \subseteq {"acc", "gyro", "mag", "asa"}
     /\ "mag" \in x.val => x.name \in {"read_mag", "read_all"}
  \/ x.op \in {"sleep", "reset"}
Access ==
  {x \in [op : {"write", "reset", "sleep", "scale", "burst"}, name : Names, val : Vals] : IsAccess(x)}

(* k accesses of method m are done, and some are left.                     *)
At(m, k) == k \in 0..(Len(m) - 1) /\ mpuTodo = [i \in 1..(Len(m) - k) |-> m[k + i]]
----------------------------------------------------------------------------
(* The accesses of each method.                                            *)
LEMMA AccessTypes ==
  /\ \A s \in Scaled : \A r \in Ranges(s) : WriteReg(s, r) \in Access /\ Divide(s, r) \in Access
  /\ WriteReg("master", TRUE) \in Access
  /\ \A v \in BOOLEAN : WriteReg("read", v) \in Access
  /\ \A v \in Blocks : WriteReg("block", v) \in Access
  /\ \A v \in {"reset", "continuous"} : WriteReg("do", v) \in Access
  /\ \A v \in 1..7 : WriteReg("count", v) \in Access
  /\ Reset \in Access /\ Sleep \in Access
  /\ ReadRegs("AK8963_whoami", {}) \in Access /\ ReadRegs("calib_mag", {"asa"}) \in Access
  /\ ReadRegs("read_mag", {"mag"}) \in Access
  /\ ReadRegs("read_all", {"acc", "gyro", "mag"}) \in Access
  /\ ReadRegs("read_acc", {"acc"}) \in Access /\ ReadRegs("read_gyro", {"gyro"}) \in Access
BY DEF Access, IsAccess, Names, Vals, Scaled, Ranges, WriteReg, Divide, Reset, Sleep, ReadRegs

LEMMA Joined ==
  ASSUME NEW a \in Seq(Access), NEW b \in Seq(Access)
  PROVE  /\ a \o b \in Seq(Access) /\ Len(a \o b) = Len(a) + Len(b)
         /\ \A i \in 1..Len(a) : (a \o b)[i] = a[i]
         /\ \A i \in 1..Len(b) : (a \o b)[i + Len(a)] = b[i]
OBVIOUS

LEMMA OneMore ==
  ASSUME NEW a \in Seq(Access), NEW x \in Access
  PROVE  /\ Append(a, x) \in Seq(Access) /\ Len(Append(a, x)) = Len(a) + 1
         /\ \A i \in 1..Len(a) : Append(a, x)[i] = a[i]
         /\ Append(a, x)[Len(a) + 1] = x
OBVIOUS

(* A method that selects a block.                                          *)
Selects(m, block, count) ==
  /\ m \in Seq(Access)
  /\ m[1] = WriteReg("read", TRUE) /\ m[2] = WriteReg("block", block)
  /\ m[3] = WriteReg("count", count)

LEMMA SelectMethod ==
  ASSUME NEW block \in Blocks, NEW count \in 1..7
  PROVE  Selects(Select(block, count), block, count) /\ Len(Select(block, count)) = 3
<1>1. /\ WriteReg("read", TRUE) \in Access /\ WriteReg("block", block) \in Access
      /\ WriteReg("count", count) \in Access
  BY AccessTypes
<1>2. PICK t : t = Select(block, count)
  OBVIOUS
<1>3. t \in Seq(Access)
  <2>1. \A a, b, c \in Access : <<a, b, c>> \in Seq(Access)
    OBVIOUS
  <2> QED
    BY <1>1, <1>2, <2>1 DEF Select
<1>4. /\ Len(t) = 3 /\ t[1] = WriteReg("read", TRUE) /\ t[2] = WriteReg("block", block)
      /\ t[3] = WriteReg("count", count)
  BY <1>2 DEF Select
<1> QED
  BY <1>2, <1>3, <1>4 DEF Selects

LEMMA FetchMethod ==
  ASSUME NEW block \in Blocks, NEW count \in 1..7, NEW x \in Access
  PROVE  LET m == Select(block, count) \o <<Sleep, x>>
         IN Selects(m, block, count) /\ Len(m) = 5 /\ m[4] = Sleep /\ m[5] = x
<1>1. PICK s : s = Select(block, count)
  OBVIOUS
<1>2. PICK f : f = <<Sleep, x>>
  OBVIOUS
<1>3. f \in Seq(Access) /\ Len(f) = 2 /\ f[1] = Sleep /\ f[2] = x
  BY <1>2, AccessTypes
<1>4. Selects(s, block, count) /\ Len(s) = 3
  BY <1>1, SelectMethod
<1>5. s \in Seq(Access)
  BY <1>4 DEF Selects
<1>6. /\ s \o f \in Seq(Access) /\ Len(s \o f) = Len(s) + Len(f)
      /\ \A i \in 1..Len(s) : (s \o f)[i] = s[i]
      /\ \A i \in 1..Len(f) : (s \o f)[i + Len(s)] = f[i]
  BY <1>3, <1>5, Joined
<1>7. /\ Len(s \o f) = 5
      /\ \A i \in 1..3 : (s \o f)[i] = s[i]
      /\ \A i \in 1..2 : (s \o f)[i + 3] = f[i]
  BY <1>3, <1>4, <1>6
<1>8. /\ (s \o f)[1] = s[1] /\ (s \o f)[2] = s[2] /\ (s \o f)[3] = s[3]
      /\ (s \o f)[4] = f[1] /\ (s \o f)[5] = f[2]
  BY <1>7
<1> QED
  BY <1>1, <1>2, <1>3, <1>4, <1>6, <1>7, <1>8 DEF Selects

LEMMA FetchMethods ==
  /\ Selects(AK8963_whoami, "WIA", 1) /\ Len(AK8963_whoami) = 5 /\ AK8963_whoami[4] = Sleep
  /\ AK8963_whoami[5] = ReadRegs("AK8963_whoami", {})
  /\ Selects(calib_mag, "ASAX", 3) /\ Len(calib_mag) = 5 /\ calib_mag[4] = Sleep
  /\ calib_mag[5] = ReadRegs("calib_mag", {"asa"})
  /\ Selects(read_mag, "HXL", 7) /\ Len(read_mag) = 5 /\ read_mag[4] = Sleep
  /\ read_mag[5] = ReadRegs("read_mag", {"mag"})
<1>1. PICK w : w = ReadRegs("AK8963_whoami", {})
  OBVIOUS
<1>2. PICK c : c = ReadRegs("calib_mag", {"asa"})
  OBVIOUS
<1>3. PICK r : r = ReadRegs("read_mag", {"mag"})
  OBVIOUS
<1>4. w \in Access /\ c \in Access /\ r \in Access
  BY <1>1, <1>2, <1>3, AccessTypes
<1>5. /\ AK8963_whoami = Select("WIA", 1) \o <<Sleep, w>>
      /\ calib_mag = Select("ASAX", 3) \o <<Sleep, c>>
      /\ read_mag = Select("HXL", 7) \o <<Sleep, r>>
  BY <1>1, <1>2, <1>3 DEF AK8963_whoami, calib_mag, read_mag
<1>6. "WIA" \in Blocks /\ "ASAX" \in Blocks /\ "HXL" \in Blocks /\ 1 \in 1..7 /\ 3 \in 1..7 /\ 7 \in 1..7
  BY DEF Blocks
<1>7. Selects(AK8963_whoami, "WIA", 1) /\ Len(AK8963_whoami) = 5 /\ AK8963_whoami[4] = Sleep
      /\ AK8963_whoami[5] = w
  BY <1>4, <1>5, <1>6, FetchMethod
<1>8. Selects(calib_mag, "ASAX", 3) /\ Len(calib_mag) = 5 /\ calib_mag[4] = Sleep
      /\ calib_mag[5] = c
  BY <1>4, <1>5, <1>6, FetchMethod
<1>9. Selects(read_mag, "HXL", 7) /\ Len(read_mag) = 5 /\ read_mag[4] = Sleep
      /\ read_mag[5] = r
  BY <1>4, <1>5, <1>6, FetchMethod
<1> QED
  BY <1>1, <1>2, <1>3, <1>7, <1>8, <1>9

LEMMA ReadAllMethod ==
  /\ Selects(read_all, "HXL", 7) /\ Len(read_all) = 4
  /\ read_all[4] = ReadRegs("read_all", {"acc", "gyro", "mag"})
<1>1. PICK s : s = Select("HXL", 7)
  OBVIOUS
<1>2. PICK x : x = ReadRegs("read_all", {"acc", "gyro", "mag"})
  OBVIOUS
<1>3. x \in Access
  BY <1>2, AccessTypes
<1>4. Selects(s, "HXL", 7) /\ Len(s) = 3
  BY <1>1, SelectMethod DEF Blocks
<1>5. s \in Seq(Access)
  BY <1>4 DEF Selects
<1>6. /\ Append(s, x) \in Seq(Access) /\ Len(Append(s, x)) = Len(s) + 1
      /\ \A i \in 1..Len(s) : Append(s, x)[i] = s[i]
      /\ Append(s, x)[Len(s) + 1] = x
  BY <1>3, <1>5, OneMore
<1>7. /\ Len(Append(s, x)) = 4 /\ Append(s, x)[4] = x
      /\ Append(s, x)[1] = s[1] /\ Append(s, x)[2] = s[2] /\ Append(s, x)[3] = s[3]
  BY <1>4, <1>6
<1> QED
  BY <1>1, <1>2, <1>4, <1>6, <1>7 DEF Selects, read_all

LEMMA ShortMethods ==
  /\ read_acc \in Seq(Access) /\ Len(read_acc) = 1 /\ read_acc[1] = ReadRegs("read_acc", {"acc"})
  /\ read_gyro \in Seq(Access) /\ Len(read_gyro) = 1 /\ read_gyro[1] = ReadRegs("read_gyro", {"gyro"})
  /\ read_acc \o read_gyro \in Seq(Access) /\ Len(read_acc \o read_gyro) = 2
  /\ (read_acc \o read_gyro)[1] = ReadRegs("read_acc", {"acc"})
  /\ (read_acc \o read_gyro)[2] = ReadRegs("read_gyro", {"gyro"})
<1>1. /\ read_acc \in Seq(Access) /\ Len(read_acc) = 1 /\ read_acc[1] = ReadRegs("read_acc", {"acc"})
      /\ read_gyro \in Seq(Access) /\ Len(read_gyro) = 1 /\ read_gyro[1] = ReadRegs("read_gyro", {"gyro"})
  BY AccessTypes DEF read_acc, read_gyro
<1>2. /\ read_acc \o read_gyro \in Seq(Access) /\ Len(read_acc \o read_gyro) = 2
      /\ (read_acc \o read_gyro)[1] = read_acc[1]
      /\ (read_acc \o read_gyro)[1 + Len(read_acc)] = read_gyro[1]
  BY <1>1, Joined
<1>3. (read_acc \o read_gyro)[2] = read_gyro[1]
  BY <1>1, <1>2
<1> QED
  BY <1>1, <1>2, <1>3

LEMMA ScaleMethod ==
  ASSUME NEW s \in Scaled, NEW r \in Ranges(s)
  PROVE  /\ SetScale(s, r) \in Seq(Access) /\ Len(SetScale(s, r)) = 2
         /\ SetScale(s, r)[1] = WriteReg(s, r) /\ SetScale(s, r)[2] = Divide(s, r)
BY AccessTypes DEF SetScale

LEMMA TableMethod ==
  LET t == MPU_Init_Data IN
  /\ t \in Seq(Access) /\ Len(t) = 22
  /\ t[1] = Reset
  /\ \A i \in {2, 4, 6, 8, 10, 12, 14, 16, 18, 20, 22} : t[i] = Sleep
  /\ t[3] = WriteReg("gyro", GyroMax) /\ t[5] = WriteReg("acc", AccInit)
  /\ t[7] = WriteReg("master", TRUE) /\ t[9] = WriteReg("read", FALSE)
  /\ t[11] = WriteReg("block", "CNTL2") /\ t[13] = WriteReg("do", "reset")
  /\ t[15] = WriteReg("count", 1) /\ t[17] = WriteReg("block", "CNTL1")
  /\ t[19] = WriteReg("do", "continuous") /\ t[21] = WriteReg("count", 1)
<1>1. /\ WriteReg("gyro", GyroMax) \in Access /\ WriteReg("acc", AccInit) \in Access
      /\ WriteReg("master", TRUE) \in Access /\ WriteReg("read", FALSE) \in Access
      /\ WriteReg("block", "CNTL2") \in Access /\ WriteReg("do", "reset") \in Access
      /\ WriteReg("count", 1) \in Access /\ WriteReg("block", "CNTL1") \in Access
      /\ WriteReg("do", "continuous") \in Access /\ Reset \in Access /\ Sleep \in Access
  <2>1. "acc" \in Scaled /\ "gyro" \in Scaled /\ AccInit \in Ranges("acc") /\ GyroMax \in Ranges("gyro")
    BY MpuRangeAssumption DEF Scaled, Ranges
  <2>2. "CNTL1" \in Blocks /\ "CNTL2" \in Blocks
    BY DEF Blocks
  <2>3. 1 \in 1..7 /\ TRUE \in BOOLEAN /\ FALSE \in BOOLEAN
    OBVIOUS
  <2> QED
    BY <2>1, <2>2, <2>3, AccessTypes
<1>2. PICK t : t = MPU_Init_Data
  OBVIOUS
<1>3. t \in Seq(Access)
  <2>1. \A a1, a2, a3, a4, a5, a6, a7, a8, a9, a10, a11 \in Access :
          <<a1, a2, a3, a2, a4, a2, a5, a2, a6, a2, a7, a2, a8, a2, a9, a2, a10, a2, a11, a2, a9, a2>>
            \in Seq(Access)
    OBVIOUS
  <2> QED
    BY <1>1, <1>2, <2>1 DEF MPU_Init_Data
<1>4. Len(t) = 22
  BY <1>2 DEF MPU_Init_Data
<1>5. t[1] = Reset /\ \A i \in {2, 4, 6, 8, 10, 12, 14, 16, 18, 20, 22} : t[i] = Sleep
  BY <1>2 DEF MPU_Init_Data
<1>6. /\ t[3] = WriteReg("gyro", GyroMax) /\ t[5] = WriteReg("acc", AccInit)
      /\ t[7] = WriteReg("master", TRUE) /\ t[9] = WriteReg("read", FALSE)
      /\ t[11] = WriteReg("block", "CNTL2") /\ t[13] = WriteReg("do", "reset")
      /\ t[15] = WriteReg("count", 1) /\ t[17] = WriteReg("block", "CNTL1")
      /\ t[19] = WriteReg("do", "continuous") /\ t[21] = WriteReg("count", 1)
  BY <1>2 DEF MPU_Init_Data
<1> QED
  BY <1>2, <1>3, <1>4, <1>5, <1>6

LEMMA InitializeMethod ==
  LET m == initialize IN
  /\ m \in Seq(Access) /\ Len(m) = 31
  /\ m[1] = Reset
  /\ \A i \in {2, 4, 6, 8, 10, 12, 14, 16, 18, 20, 22, 30} : m[i] = Sleep
  /\ m[3] = WriteReg("gyro", GyroMax) /\ m[5] = WriteReg("acc", AccInit)
  /\ m[7] = WriteReg("master", TRUE) /\ m[9] = WriteReg("read", FALSE)
  /\ m[11] = WriteReg("block", "CNTL2") /\ m[13] = WriteReg("do", "reset")
  /\ m[15] = WriteReg("count", 1) /\ m[17] = WriteReg("block", "CNTL1")
  /\ m[19] = WriteReg("do", "continuous") /\ m[21] = WriteReg("count", 1)
  /\ m[23] = WriteReg("acc", AccMax) /\ m[24] = Divide("acc", AccMax)
  /\ m[25] = WriteReg("gyro", GyroMax) /\ m[26] = Divide("gyro", GyroMax)
  /\ m[27] = WriteReg("read", TRUE) /\ m[28] = WriteReg("block", "ASAX")
  /\ m[29] = WriteReg("count", 3) /\ m[31] = ReadRegs("calib_mag", {"asa"})
<1>1. PICK t : t = MPU_Init_Data
  OBVIOUS
<1>2. PICK a : a = SetScale("acc", AccMax)
  OBVIOUS
<1>3. PICK g : g = SetScale("gyro", GyroMax)
  OBVIOUS
<1>4. PICK c : c = calib_mag
  OBVIOUS
<1>5. t \in Seq(Access) /\ Len(t) = 22
  BY <1>1, TableMethod
<1>6. /\ a \in Seq(Access) /\ Len(a) = 2 /\ g \in Seq(Access) /\ Len(g) = 2
      /\ a[1] = WriteReg("acc", AccMax) /\ a[2] = Divide("acc", AccMax)
      /\ g[1] = WriteReg("gyro", GyroMax) /\ g[2] = Divide("gyro", GyroMax)
  <2>1. "acc" \in Scaled /\ "gyro" \in Scaled /\ AccMax \in Ranges("acc") /\ GyroMax \in Ranges("gyro")
    BY MpuRangeAssumption DEF Scaled, Ranges
  <2> QED
    BY <1>2, <1>3, <2>1, ScaleMethod
<1>7. /\ c \in Seq(Access) /\ Len(c) = 5
      /\ c[1] = WriteReg("read", TRUE) /\ c[2] = WriteReg("block", "ASAX")
      /\ c[3] = WriteReg("count", 3) /\ c[4] = Sleep /\ c[5] = ReadRegs("calib_mag", {"asa"})
  BY <1>4, FetchMethods DEF Selects
<1>8. PICK b : b = a \o g
  OBVIOUS
<1>9. b \in Seq(Access) /\ Len(b) = 4 /\ b[1] = a[1] /\ b[2] = a[2] /\ b[3] = g[1] /\ b[4] = g[2]
  <2>1. /\ b \in Seq(Access) /\ Len(b) = Len(a) + Len(g)
        /\ \A i \in 1..Len(a) : b[i] = a[i]
        /\ \A i \in 1..Len(g) : b[i + Len(a)] = g[i]
    BY <1>6, <1>8, Joined
  <2> QED
    BY <2>1, <1>6
<1>10. PICK d : d = t \o b
  OBVIOUS
<1>11. /\ d \in Seq(Access) /\ Len(d) = 26
       /\ \A i \in 1..22 : d[i] = t[i]
       /\ \A i \in 1..4 : d[i + 22] = b[i]
  <2>1. /\ d \in Seq(Access) /\ Len(d) = Len(t) + Len(b)
        /\ \A i \in 1..Len(t) : d[i] = t[i]
        /\ \A i \in 1..Len(b) : d[i + Len(t)] = b[i]
    BY <1>5, <1>9, <1>10, Joined
  <2> QED
    BY <2>1, <1>5, <1>9
<1>12. PICK m : m = d \o c
  OBVIOUS
<1>13. /\ m \in Seq(Access) /\ Len(m) = 31
       /\ \A i \in 1..26 : m[i] = d[i]
       /\ \A i \in 1..5 : m[i + 26] = c[i]
  <2>1. /\ m \in Seq(Access) /\ Len(m) = Len(d) + Len(c)
        /\ \A i \in 1..Len(d) : m[i] = d[i]
        /\ \A i \in 1..Len(c) : m[i + Len(d)] = c[i]
    BY <1>7, <1>11, <1>12, Joined
  <2> QED
    BY <2>1, <1>7, <1>11
<1>14. /\ \A i \in 1..22 : m[i] = t[i]
       /\ m[23] = a[1] /\ m[24] = a[2] /\ m[25] = g[1] /\ m[26] = g[2]
       /\ m[27] = c[1] /\ m[28] = c[2] /\ m[29] = c[3] /\ m[30] = c[4] /\ m[31] = c[5]
  <2>1. ASSUME NEW i \in 1..22 PROVE m[i] = t[i]
    <3>1. i \in 1..26
      OBVIOUS
    <3> QED
      BY <3>1, <1>11, <1>13
  <2>2. /\ d[1 + 22] = b[1] /\ d[2 + 22] = b[2] /\ d[3 + 22] = b[3] /\ d[4 + 22] = b[4]
        /\ m[1 + 26] = c[1] /\ m[2 + 26] = c[2] /\ m[3 + 26] = c[3] /\ m[4 + 26] = c[4]
        /\ m[5 + 26] = c[5]
    BY <1>11, <1>13
  <2>3. m[23] = d[23] /\ m[24] = d[24] /\ m[25] = d[25] /\ m[26] = d[26]
    BY <1>13
  <2> QED
    BY <1>9, <2>1, <2>2, <2>3
<1>15. m = initialize
  <2>1. \A x, y \in Seq(Access) : \A z \in Seq(Access) : (x \o y) \o z = x \o y \o z
    OBVIOUS
  <2> QED
    BY <1>1, <1>2, <1>3, <1>4, <1>8, <1>10, <1>12 DEF initialize, InitScales
<1>16. /\ t[1] = Reset
       /\ \A i \in {2, 4, 6, 8, 10, 12, 14, 16, 18, 20, 22} : t[i] = Sleep
       /\ t[3] = WriteReg("gyro", GyroMax) /\ t[5] = WriteReg("acc", AccInit)
       /\ t[7] = WriteReg("master", TRUE) /\ t[9] = WriteReg("read", FALSE)
       /\ t[11] = WriteReg("block", "CNTL2") /\ t[13] = WriteReg("do", "reset")
       /\ t[15] = WriteReg("count", 1) /\ t[17] = WriteReg("block", "CNTL1")
       /\ t[19] = WriteReg("do", "continuous") /\ t[21] = WriteReg("count", 1)
  BY <1>1, TableMethod
<1>17. /\ m[1] = Reset
       /\ \A i \in {2, 4, 6, 8, 10, 12, 14, 16, 18, 20, 22, 30} : m[i] = Sleep
       /\ m[3] = WriteReg("gyro", GyroMax) /\ m[5] = WriteReg("acc", AccInit)
       /\ m[7] = WriteReg("master", TRUE) /\ m[9] = WriteReg("read", FALSE)
       /\ m[11] = WriteReg("block", "CNTL2") /\ m[13] = WriteReg("do", "reset")
       /\ m[15] = WriteReg("count", 1) /\ m[17] = WriteReg("block", "CNTL1")
       /\ m[19] = WriteReg("do", "continuous") /\ m[21] = WriteReg("count", 1)
  <2>2. ASSUME NEW i \in {2, 4, 6, 8, 10, 12, 14, 16, 18, 20, 22} PROVE m[i] = Sleep
    <3>1. i \in 1..22
      OBVIOUS
    <3>2. m[i] = t[i]
      BY <3>1, <1>14
    <3> QED
      BY <3>2, <1>16
  <2>3. m[30] = Sleep
    BY <1>7, <1>14
  <2>4. /\ m[1] = t[1] /\ m[3] = t[3] /\ m[5] = t[5] /\ m[7] = t[7] /\ m[9] = t[9] /\ m[11] = t[11]
        /\ m[13] = t[13] /\ m[15] = t[15] /\ m[17] = t[17] /\ m[19] = t[19] /\ m[21] = t[21]
    BY <1>14
  <2> QED
    BY <2>2, <2>3, <2>4, <1>16
<1>18. /\ m[23] = WriteReg("acc", AccMax) /\ m[24] = Divide("acc", AccMax)
       /\ m[25] = WriteReg("gyro", GyroMax) /\ m[26] = Divide("gyro", GyroMax)
       /\ m[27] = WriteReg("read", TRUE) /\ m[28] = WriteReg("block", "ASAX")
       /\ m[29] = WriteReg("count", 3) /\ m[31] = ReadRegs("calib_mag", {"asa"})
  BY <1>6, <1>7, <1>14
<1> QED
  BY <1>13, <1>15, <1>17, <1>18
----------------------------------------------------------------------------
(* The rest of a method.                                                   *)
LEMMA HeadAndTail ==
  ASSUME NEW t \in Seq(Access), Len(t) > 0
  PROVE  /\ t # <<>> /\ Head(t) = t[1]
         /\ Tail(t) \in Seq(Access) /\ Len(Tail(t)) = Len(t) - 1
         /\ \A i \in 1..Len(Tail(t)) : Tail(t)[i] = t[i + 1]
OBVIOUS

LEMMA RestOf ==
  ASSUME NEW m \in Seq(Access), NEW k \in 0..(Len(m) - 1),
         NEW t, t = [i \in 1..(Len(m) - k) |-> m[k + i]]
  PROVE  /\ t \in Seq(Access) /\ t # <<>> /\ Head(t) = m[k + 1]
         /\ k + 1 = Len(m) => Tail(t) = <<>>
         /\ k + 1 < Len(m) => Tail(t) = [i \in 1..(Len(m) - (k + 1)) |-> m[k + 1 + i]]
<1>1. Len(m) - k \in Nat /\ Len(m) - k > 0 /\ \A i \in 1..(Len(m) - k) : m[k + i] \in Access
  OBVIOUS
<1>2. PICK n \in Nat : n = Len(m) - k
  BY <1>1
<1>3. t \in [1..n -> Access] /\ n > 0 /\ t[1] = m[k + 1]
  BY <1>1, <1>2
<1>4. t \in Seq(Access) /\ Len(t) = n
  BY <1>2, <1>3
<1>5. t # <<>> /\ Head(t) = m[k + 1]
  BY <1>3, <1>4, HeadAndTail
<1>6. Tail(t) \in Seq(Access) /\ Len(Tail(t)) = n - 1
      /\ \A i \in 1..Len(Tail(t)) : Tail(t)[i] = t[i + 1]
  BY <1>3, <1>4, HeadAndTail
<1>7. CASE k + 1 = Len(m)
  BY <1>2, <1>4, <1>5, <1>6, <1>7
<1>8. CASE k + 1 < Len(m)
  <2>1. ASSUME NEW i \in 1..Len(Tail(t)) PROVE Tail(t)[i] = m[k + 1 + i]
    <3>1. i + 1 \in 1..n /\ k + (i + 1) = k + 1 + i
      BY <1>6, <1>2
    <3> QED
      BY <3>1, <1>6, <1>2
  <2>2. Tail(t) = [i \in 1..Len(Tail(t)) |-> Tail(t)[i]]
    BY <1>6
  <2>3. Len(Tail(t)) = Len(m) - (k + 1)
    BY <1>6, <1>2
  <2>4. Tail(t) = [i \in 1..Len(Tail(t)) |-> m[k + 1 + i]]
    BY <2>1, <2>2
  <2> QED
    BY <2>3, <2>4, <1>4, <1>5, <1>8
<1> QED
  BY <1>4, <1>5, <1>7, <1>8

LEMMA AtRest ==
  ASSUME NEW m \in Seq(Access), NEW k, At(m, k)
  PROVE  /\ k \in 0..(Len(m) - 1) /\ Len(m) \in Nat
         /\ mpuTodo \in Seq(Access) /\ mpuTodo # <<>> /\ Head(mpuTodo) = m[k + 1]
         /\ MpuDone => /\ k + 1 = Len(m) => mpuTodo' = <<>>
                       /\ k + 1 < Len(m) => At(m, k + 1)'
<1>1. k \in 0..(Len(m) - 1) /\ mpuTodo = [i \in 1..(Len(m) - k) |-> m[k + i]]
  BY DEF At
<1>2. PICK t : t = mpuTodo
  OBVIOUS
<1>3. /\ t \in Seq(Access) /\ t # <<>> /\ Head(t) = m[k + 1]
      /\ k + 1 = Len(m) => Tail(t) = <<>>
      /\ k + 1 < Len(m) => Tail(t) = [i \in 1..(Len(m) - (k + 1)) |-> m[k + 1 + i]]
  BY <1>1, <1>2, RestOf
<1>4. Len(m) \in Nat
  OBVIOUS
<1>5. k + 1 < Len(m) => k + 1 \in 0..(Len(m) - 1)
  BY <1>1, <1>4
<1> QED
  BY <1>1, <1>2, <1>3, <1>4, <1>5 DEF MpuDone, At
----------------------------------------------------------------------------
(* Where the user is, and what the accesses before have achieved.          *)

(* After initialize slave 0 reads from a magnetometer that measures.       *)
Running == mpuReg.master /\ mpuReg.read /\ akMode = "continuous"
Matched(s) == divider[s] = mpuReg[s]
Fresh(s) == ~rescaled => mpuOut[s] = mpuReg[s]
Ready == Running /\ \A s \in Scaled : Matched(s) /\ Fresh(s)

Copied(block, count) == \A i \in 1..count : mpuExt[i] = block

Idle == mpuTodo = <<>> /\ (Ready \/ (mpuCalls = 0 /\ \A s \in Scaled : divider[s] = Unset))

Initializing(k) ==
  /\ At(initialize, k)
  /\ k >= 7 => mpuReg.master
  /\ k >= 9 /\ k < 27 => ~mpuReg.read
  /\ k >= 13 => mpuReg.do # "none"
  /\ k >= 27 => mpuReg.read
  /\ k >= 17 /\ k < 28 => mpuReg.block = "CNTL1"
  /\ k >= 28 => mpuReg.block = "ASAX"
  /\ k >= 19 => mpuReg.do = "continuous"
  /\ k >= 21 /\ k < 29 => mpuReg.count = 1
  /\ k >= 29 => mpuReg.count = 3
  /\ k >= 22 => akMode = "continuous"
  /\ k >= 23 => mpuReg.acc = AccMax
  /\ k >= 24 => divider.acc = AccMax
  /\ k >= 25 => mpuReg.gyro = GyroMax
  /\ k >= 26 => divider.gyro = GyroMax
  /\ k >= 30 => Copied("ASAX", 3) /\ \A s \in Scaled : mpuOut[s] = mpuReg[s]

(* A method m that selects a block and waits for its bytes.                *)
Fetching(m, block, count, k) ==
  /\ At(m, k) /\ Ready
  /\ k >= 2 => mpuReg.block = block
  /\ k >= 3 => mpuReg.count = count
  /\ k >= 4 => Copied(block, count)

Taking(m, k) == At(m, k) /\ Ready

(* The user has asked for a range.                                         *)
Scaling(s, r, k) ==
  /\ At(SetScale(s, r), k) /\ Running /\ rescaled
  /\ \A q \in Scaled \ {s} : Matched(q)
  /\ k = 0 => Matched(s)
  /\ k = 1 => mpuReg[s] = r

Position ==
  \/ Idle
  \/ \E k \in Nat :
       \/ Initializing(k)
       \/ Fetching(AK8963_whoami, "WIA", 1, k) \/ Fetching(calib_mag, "ASAX", 3, k)
       \/ Fetching(read_mag, "HXL", 7, k)
       \/ \E m \in {read_all, read_acc, read_gyro, read_acc \o read_gyro} : Taking(m, k)
       \/ \E s \in Scaled : \E r \in Ranges(s) : Scaling(s, r, k)

(* CNTL1 is never written before there is something to write.              *)
Defined == mpuReg.block = "CNTL1" => mpuReg.do # "none"

StateTypes ==
  /\ mpuReg \in [acc : AccRange, gyro : GyroRange, master : BOOLEAN, read : BOOLEAN,
                 block : Blocks, do : {"none", "reset", "continuous"}, count : 0..7]
  /\ akMode \in {"down", "single", "continuous"}
  /\ mpuOut \in [acc : AccRange, gyro : GyroRange]
  /\ mpuExt \in [1..7 -> Byte]
  /\ divider \in [acc : AccRange \cup {Unset}, gyro : GyroRange \cup {Unset}]
  /\ mpuData \in [acc : Reading(AccRange), gyro : Reading(GyroRange),
                  mag : [by : {"none", "read_mag", "read_all"}, bytes : Bytes(6)], asa : Bytes(3)]
  /\ mpuCalls \in 0..MaxMpuCalls
  /\ rescaled \in BOOLEAN

MpuInv == StateTypes /\ Position /\ Defined /\ SampleMatchesDivider /\ BytesAreTheirs
----------------------------------------------------------------------------
(* What each kind of access does.                                          *)
LEMMA TodoTypes ==
  ASSUME Position
  PROVE  \/ mpuTodo = <<>>
         \/ mpuTodo \in Seq(Access) /\ mpuTodo # <<>> /\ Head(mpuTodo) \in Access
<1>1. \A m \in Seq(Access) : \A k :
        At(m, k) => mpuTodo \in Seq(Access) /\ mpuTodo # <<>> /\ Head(mpuTodo) \in Access
  <2> SUFFICES ASSUME NEW m \in Seq(Access), NEW k, At(m, k)
               PROVE  mpuTodo \in Seq(Access) /\ mpuTodo # <<>> /\ Head(mpuTodo) \in Access
    OBVIOUS
  <2>1. mpuTodo \in Seq(Access) /\ mpuTodo # <<>>
    BY AtRest
  <2>2. PICK t \in Seq(Access) : t = mpuTodo
    BY <2>1
  <2>3. Head(t) \in Access
    BY <2>1, <2>2
  <2> QED
    BY <2>1, <2>2, <2>3
<1>2. initialize \in Seq(Access)
  BY InitializeMethod
<1>3. AK8963_whoami \in Seq(Access) /\ calib_mag \in Seq(Access) /\ read_mag \in Seq(Access)
  BY FetchMethods DEF Selects
<1>4. \A m \in {read_all, read_acc, read_gyro, read_acc \o read_gyro} : m \in Seq(Access)
  BY ReadAllMethod, ShortMethods DEF Selects
<1>5. \A s \in Scaled : \A r \in Ranges(s) : SetScale(s, r) \in Seq(Access)
  BY ScaleMethod
<1>6. CASE Idle
  BY <1>6 DEF Idle
<1>7. ASSUME NEW k, Initializing(k)
      PROVE  \E m \in Seq(Access) : At(m, k)
  BY <1>2, <1>7 DEF Initializing
<1>8. ASSUME NEW k, NEW m \in Seq(Access), NEW block, NEW count, Fetching(m, block, count, k)
      PROVE  \E q \in Seq(Access) : At(q, k)
  BY <1>8 DEF Fetching
<1>9. ASSUME NEW k, NEW m \in {read_all, read_acc, read_gyro, read_acc \o read_gyro}, Taking(m, k)
      PROVE  \E q \in Seq(Access) : At(q, k)
  BY <1>4, <1>9 DEF Taking
<1>10. ASSUME NEW k, NEW s \in Scaled, NEW r \in Ranges(s), Scaling(s, r, k)
       PROVE  \E q \in Seq(Access) : At(q, k)
  BY <1>5, <1>10 DEF Scaling
<1>11. Idle \/ \E k \in Nat : \E q \in Seq(Access) : At(q, k)
  BY <1>3, <1>7, <1>8, <1>9, <1>10 DEF Position
<1> QED
  BY <1>1, <1>6, <1>11

(* One register has changed.                                               *)
Written(x) ==
  /\ mpuReg'.acc = (IF x.name = "acc" THEN x.val ELSE mpuReg.acc)
  /\ mpuReg'.gyro = (IF x.name = "gyro" THEN x.val ELSE mpuReg.gyro)
  /\ mpuReg'.master = (IF x.name = "master" THEN x.val ELSE mpuReg.master)
  /\ mpuReg'.read = (IF x.name = "read" THEN x.val ELSE mpuReg.read)
  /\ mpuReg'.block = (IF x.name = "block" THEN x.val ELSE mpuReg.block)
  /\ mpuReg'.do = (IF x.name = "do" THEN x.val ELSE mpuReg.do)
  /\ mpuReg'.count = (IF x.name = "count" THEN x.val ELSE mpuReg.count)

(* While slave 0 reads, the magnetometer keeps its mode; CNTL1 sets it.    *)
LEMMA SampleEffect ==
  ASSUME StateTypes, Defined, MpuSample
  PROVE  /\ akMode' \in {"down", "single", "continuous"}
         /\ mpuOut' \in [acc : AccRange, gyro : GyroRange]
         /\ mpuExt' \in [1..7 -> Byte]
         /\ \A s \in Scaled : mpuOut'[s] = mpuReg[s]
         /\ mpuReg.read => akMode' = akMode
         /\ mpuReg.block = "ASAX" => akMode' = akMode
         /\ mpuReg.block = "CNTL1" /\ mpuReg.do = "continuous" =>
              /\ akMode = "continuous" => akMode' = "continuous"
              /\ mpuReg.master /\ ~mpuReg.read /\ mpuReg.count > 0 => akMode' = "continuous"
         /\ mpuReg.master /\ mpuReg.read /\ (akMode = "continuous" \/ mpuReg.block # "HXL") =>
              \A i \in 1..mpuReg.count : mpuExt'[i] = mpuReg.block
<1>1. akMode' \in {"down", "single", "continuous"}
  BY DEF StateTypes, Defined, MpuSample
<1>2. mpuOut' \in [acc : AccRange, gyro : GyroRange] /\ \A s \in Scaled : mpuOut'[s] = mpuReg[s]
  BY DEF StateTypes, MpuSample, Scaled
<1>3. mpuExt' \in [1..7 -> Byte]
  BY DEF StateTypes, MpuSample, Byte, Blocks
<1>4. /\ mpuReg.read => akMode' = akMode
      /\ mpuReg.block = "ASAX" => akMode' = akMode
      /\ mpuReg.block = "CNTL1" /\ mpuReg.do = "continuous" =>
              /\ akMode = "continuous" => akMode' = "continuous"
              /\ mpuReg.master /\ ~mpuReg.read /\ mpuReg.count > 0 => akMode' = "continuous"
  BY DEF StateTypes, MpuSample
<1>5. ASSUME mpuReg.master, mpuReg.read, akMode = "continuous" \/ mpuReg.block # "HXL",
             NEW i \in 1..mpuReg.count
      PROVE  mpuExt'[i] = mpuReg.block
  <2>1. mpuReg.count \in 0..7 /\ mpuReg.count > 0 /\ i \in 1..7 /\ i <= mpuReg.count
    BY <1>5 DEF StateTypes
  <2>2. ~(mpuReg.block = "HXL" /\ akMode # "continuous")
    BY <1>5
  <2>3. mpuExt' = [j \in 1..7 |-> IF j <= mpuReg.count THEN mpuReg.block ELSE mpuExt[j]]
    BY <2>1, <2>2, <1>5 DEF MpuSample
  <2> QED
    BY <2>1, <2>3
<1> QED
  BY <1>1, <1>2, <1>3, <1>4, <1>5
----------------------------------------------------------------------------
(* The steps of initialize.                                                *)
InitKind(x, k) ==
  \/ x.op = "reset" /\ k = 0
  \/ x.op = "sleep" /\ k \in {1, 3, 5, 7, 9, 11, 13, 15, 17, 19, 21, 29}
  \/ /\ x.op = "write"
     /\ \/ x.name = "gyro" /\ x.val = GyroMax /\ k \in {2, 24}
        \/ x.name = "acc" /\ x.val = AccInit /\ k = 4
        \/ x.name = "acc" /\ x.val = AccMax /\ k = 22
        \/ x.name = "master" /\ x.val = TRUE /\ k = 6
        \/ x.name = "read" /\ x.val = FALSE /\ k = 8
        \/ x.name = "read" /\ x.val = TRUE /\ k = 26
        \/ x.name = "block" /\ x.val = "CNTL2" /\ k = 10
        \/ x.name = "block" /\ x.val = "CNTL1" /\ k = 16
        \/ x.name = "block" /\ x.val = "ASAX" /\ k = 27
        \/ x.name = "do" /\ x.val = "reset" /\ k = 12
        \/ x.name = "do" /\ x.val = "continuous" /\ k = 18
        \/ x.name = "count" /\ x.val = 1 /\ k \in {14, 20}
        \/ x.name = "count" /\ x.val = 3 /\ k = 28
  \/ /\ x.op = "scale"
     /\ \/ x.name = "acc" /\ x.val = AccMax /\ k = 23
        \/ x.name = "gyro" /\ x.val = GyroMax /\ k = 25
  \/ x.op = "burst" /\ x.val = {"asa"} /\ k = 30

LEMMA InitKinds ==
  ASSUME NEW k \in 0..30
  PROVE  InitKind(initialize[k + 1], k)
<1>1. PICK m : m = initialize
  OBVIOUS
<1>2. /\ m[1] = Reset
      /\ \A i \in {2, 4, 6, 8, 10, 12, 14, 16, 18, 20, 22, 30} : m[i] = Sleep
      /\ m[3] = WriteReg("gyro", GyroMax) /\ m[5] = WriteReg("acc", AccInit)
      /\ m[7] = WriteReg("master", TRUE) /\ m[9] = WriteReg("read", FALSE)
      /\ m[11] = WriteReg("block", "CNTL2") /\ m[13] = WriteReg("do", "reset")
      /\ m[15] = WriteReg("count", 1) /\ m[17] = WriteReg("block", "CNTL1")
      /\ m[19] = WriteReg("do", "continuous") /\ m[21] = WriteReg("count", 1)
      /\ m[23] = WriteReg("acc", AccMax) /\ m[24] = Divide("acc", AccMax)
      /\ m[25] = WriteReg("gyro", GyroMax) /\ m[26] = Divide("gyro", GyroMax)
      /\ m[27] = WriteReg("read", TRUE) /\ m[28] = WriteReg("block", "ASAX")
      /\ m[29] = WriteReg("count", 3) /\ m[31] = ReadRegs("calib_mag", {"asa"})
  BY <1>1, InitializeMethod
<1>3. \/ (k = 0 /\ k + 1 = 1) \/ (k = 2 /\ k + 1 = 3) \/ (k = 4 /\ k + 1 = 5) \/ (k = 6 /\ k + 1 = 7)
      \/ (k = 8 /\ k + 1 = 9) \/ (k = 10 /\ k + 1 = 11) \/ (k = 12 /\ k + 1 = 13) \/ (k = 14 /\ k + 1 = 15)
      \/ (k = 16 /\ k + 1 = 17) \/ (k = 18 /\ k + 1 = 19) \/ (k = 20 /\ k + 1 = 21) \/ (k = 22 /\ k + 1 = 23)
      \/ (k = 23 /\ k + 1 = 24) \/ (k = 24 /\ k + 1 = 25) \/ (k = 25 /\ k + 1 = 26) \/ (k = 26 /\ k + 1 = 27)
      \/ (k = 27 /\ k + 1 = 28) \/ (k = 28 /\ k + 1 = 29) \/ (k = 30 /\ k + 1 = 31)
      \/ /\ k \in {1, 3, 5, 7, 9, 11, 13, 15, 17, 19, 21, 29}
         /\ k + 1 \in {2, 4, 6, 8, 10, 12, 14, 16, 18, 20, 22, 30}
  OBVIOUS
<1>4. PICK x, j : x = m[j] /\ j = k + 1
  OBVIOUS
<1>5. CASE k \in {1, 3, 5, 7, 9, 11, 13, 15, 17, 19, 21, 29}
  <2>1. x = Sleep
    BY <1>2, <1>3, <1>4, <1>5
  <2>2. x.op = "sleep"
    BY <2>1 DEF Sleep
  <2> QED
    BY <2>2, <1>1, <1>4, <1>5 DEF InitKind
<1>6. CASE k = 0
  <2>1. x = Reset
    BY <1>2, <1>4, <1>6
  <2>2. x.op = "reset"
    BY <2>1 DEF Reset
  <2> QED
    BY <2>2, <1>1, <1>4, <1>6 DEF InitKind
<1>7. CASE k = 2
  BY <1>1, <1>2, <1>4, <1>7 DEF InitKind, WriteReg
<1>8. CASE k = 4
  BY <1>1, <1>2, <1>4, <1>8 DEF InitKind, WriteReg
<1>9. CASE k = 6
  <2>1. j = 7
    BY <1>4, <1>9
  <2>2. x = WriteReg("master", TRUE)
    BY <1>2, <1>4, <2>1, Zenon
  <2> QED
    BY <2>2, <1>1, <1>4, <1>9, SMT DEF InitKind, WriteReg
<1>10. CASE k = 8
  <2>1. j = 9
    BY <1>4, <1>10
  <2>2. x = WriteReg("read", FALSE)
    BY <1>2, <1>4, <2>1, Zenon
  <2> QED
    BY <2>2, <1>1, <1>4, <1>10, SMT DEF InitKind, WriteReg
<1>11. CASE k = 10
  BY <1>1, <1>2, <1>4, <1>11 DEF InitKind, WriteReg
<1>12. CASE k = 12
  BY <1>1, <1>2, <1>4, <1>12 DEF InitKind, WriteReg
<1>13. CASE k = 14
  BY <1>1, <1>2, <1>4, <1>13 DEF InitKind, WriteReg
<1>14. CASE k = 16
  BY <1>1, <1>2, <1>4, <1>14 DEF InitKind, WriteReg
<1>15. CASE k = 18
  BY <1>1, <1>2, <1>4, <1>15 DEF InitKind, WriteReg
<1>16. CASE k = 20
  BY <1>1, <1>2, <1>4, <1>16 DEF InitKind, WriteReg
<1>17. CASE k = 22
  BY <1>1, <1>2, <1>4, <1>17 DEF InitKind, WriteReg
<1>18. CASE k = 23
  BY <1>1, <1>2, <1>4, <1>18 DEF InitKind, Divide
<1>19. CASE k = 24
  BY <1>1, <1>2, <1>4, <1>19 DEF InitKind, WriteReg
<1>20. CASE k = 25
  BY <1>1, <1>2, <1>4, <1>20 DEF InitKind, Divide
<1>21. CASE k = 26
  <2>1. j = 27
    BY <1>4, <1>21
  <2>2. x = WriteReg("read", TRUE)
    BY <1>2, <1>4, <2>1, Zenon
  <2> QED
    BY <2>2, <1>1, <1>4, <1>21, SMT DEF InitKind, WriteReg
<1>22. CASE k = 27
  BY <1>1, <1>2, <1>4, <1>22 DEF InitKind, WriteReg
<1>23. CASE k = 28
  BY <1>1, <1>2, <1>4, <1>23 DEF InitKind, WriteReg
<1>24. CASE k = 30
  BY <1>1, <1>2, <1>4, <1>24 DEF InitKind, ReadRegs
<1> QED
  BY <1>3, <1>5, <1>6, <1>7, <1>8, <1>9, <1>10, <1>11, <1>12, <1>13, <1>14, <1>15, <1>16, <1>17, <1>18, <1>19, <1>20, <1>21, <1>22, <1>23, <1>24

LEMMA InitRest ==
  ASSUME NEW k \in 0..30, Initializing(k)
  PROVE  /\ Head(mpuTodo) = initialize[k + 1]
         /\ MpuDone => (k < 30 => At(initialize, k + 1)') /\ (k = 30 => mpuTodo' = <<>>)
<1>1. PICK m : m = initialize
  OBVIOUS
<1>2. m \in Seq(Access) /\ Len(m) = 31 /\ At(m, k)
  BY <1>1, InitializeMethod DEF Initializing
<1>3. /\ Head(mpuTodo) = m[k + 1]
      /\ MpuDone => /\ k + 1 = Len(m) => mpuTodo' = <<>>
                    /\ k + 1 < Len(m) => At(m, k + 1)'
  BY <1>2, AtRest
<1> QED
  BY <1>1, <1>2, <1>3

(* What a written register achieves.                                       *)
LEMMA InitWrite ==
  ASSUME StateTypes, Defined, NEW k \in 0..30, Initializing(k), MpuWrite
  PROVE  k < 30 /\ Initializing(k + 1)' /\ Defined'
<1>1. PICK x : x = Head(mpuTodo)
  OBVIOUS
<1>2. initialize \in Seq(Access) /\ Len(initialize) = 31 /\ At(initialize, k)
  BY InitializeMethod DEF Initializing
<1>3. x = initialize[k + 1] /\ (k < 30 => At(initialize, k + 1)')
  BY <1>1, InitRest DEF MpuWrite
<1>4. x.op = "write" /\ mpuReg' = [mpuReg EXCEPT ![x.name] = x.val]
  BY <1>1 DEF MpuWrite, MpuAt
<1>5. InitKind(x, k)
  BY <1>3, InitKinds
<1>6. \/ x.name = "gyro" /\ x.val = GyroMax /\ k \in {2, 24}
      \/ x.name = "acc" /\ x.val = AccInit /\ k = 4
      \/ x.name = "acc" /\ x.val = AccMax /\ k = 22
      \/ x.name = "master" /\ x.val = TRUE /\ k = 6
      \/ x.name = "read" /\ x.val = FALSE /\ k = 8
      \/ x.name = "read" /\ x.val = TRUE /\ k = 26
      \/ x.name = "block" /\ x.val = "CNTL2" /\ k = 10
      \/ x.name = "block" /\ x.val = "CNTL1" /\ k = 16
      \/ x.name = "block" /\ x.val = "ASAX" /\ k = 27
      \/ x.name = "do" /\ x.val = "reset" /\ k = 12
      \/ x.name = "do" /\ x.val = "continuous" /\ k = 18
      \/ x.name = "count" /\ x.val = 1 /\ k \in {14, 20}
      \/ x.name = "count" /\ x.val = 3 /\ k = 28
  BY <1>4, <1>5 DEF InitKind
<1>7. x.name \in {"acc", "gyro", "master", "read", "block", "do", "count"} /\ k < 30
  BY <1>6
<1>8. Written(x)
  BY <1>4, <1>7 DEF StateTypes, Written
<1>9. akMode' = akMode /\ divider' = divider
  BY DEF MpuWrite
<1>10. At(initialize, k + 1)' /\ ~(k + 1 >= 30)
  BY <1>3, <1>6, <1>7
<1>11. Defined'
  BY <1>6, <1>8 DEF Initializing, Written, Defined
<1> QED
  BY <1>6, <1>7, <1>8, <1>9, <1>10, <1>11 DEF Initializing, Written

LEMMA InitReset ==
  ASSUME StateTypes, NEW k \in 0..30, Initializing(k), MpuReset
  PROVE  k = 0 /\ Initializing(k + 1)'
<1>1. PICK x : x = Head(mpuTodo)
  OBVIOUS
<1>2. x = initialize[k + 1] /\ (k < 30 => At(initialize, k + 1)')
  BY <1>1, InitRest DEF MpuReset
<1>3. x.op = "reset"
  BY <1>1 DEF MpuReset, MpuAt
<1>4. k = 0
  BY <1>2, <1>3, InitKinds DEF InitKind
<1> QED
  BY <1>2, <1>4 DEF Initializing

LEMMA InitSleep ==
  ASSUME StateTypes, Defined, NEW k \in 0..30, Initializing(k), MpuSleep
  PROVE  k < 30 /\ Initializing(k + 1)'
<1>1. PICK x : x = Head(mpuTodo)
  OBVIOUS
<1>2. x = initialize[k + 1] /\ (k < 30 => At(initialize, k + 1)')
  BY <1>1, InitRest DEF MpuSleep
<1>3. x.op = "sleep"
  BY <1>1 DEF MpuSleep, MpuAt
<1>4. k \in {1, 3, 5, 7, 9, 11, 13, 15, 17, 19, 21, 29}
  BY <1>2, <1>3, InitKinds DEF InitKind
<1>5. /\ \A s \in Scaled : mpuOut'[s] = mpuReg[s]
      /\ mpuReg.block = "ASAX" => akMode' = akMode
      /\ mpuReg.block = "CNTL1" /\ mpuReg.do = "continuous" =>
           /\ akMode = "continuous" => akMode' = "continuous"
           /\ mpuReg.master /\ ~mpuReg.read /\ mpuReg.count > 0 => akMode' = "continuous"
      /\ mpuReg.master /\ mpuReg.read /\ (akMode = "continuous" \/ mpuReg.block # "HXL") =>
           \A i \in 1..mpuReg.count : mpuExt'[i] = mpuReg.block
  BY SampleEffect DEF MpuSleep
<1>6. mpuReg' = mpuReg /\ divider' = divider
  BY DEF MpuSleep
<1>7. k < 30 /\ At(initialize, k + 1)'
  BY <1>2, <1>4
<1>8. k + 1 >= 22 => akMode' = "continuous"
  BY <1>4, <1>5 DEF Initializing
<1>9. k + 1 >= 30 => Copied("ASAX", 3)' /\ \A s \in Scaled : mpuOut'[s] = mpuReg'[s]
  BY <1>4, <1>5, <1>6 DEF Initializing, Copied
<1> QED
  BY <1>4, <1>6, <1>7, <1>8, <1>9 DEF Initializing

LEMMA InitDivide ==
  ASSUME StateTypes, NEW k \in 0..30, Initializing(k), MpuDivider
  PROVE  k < 30 /\ Initializing(k + 1)'
<1>1. PICK x : x = Head(mpuTodo)
  OBVIOUS
<1>2. x = initialize[k + 1] /\ (k < 30 => At(initialize, k + 1)')
  BY <1>1, InitRest DEF MpuDivider
<1>3. x.op = "scale" /\ divider' = [divider EXCEPT ![x.name] = x.val]
  BY <1>1 DEF MpuDivider, MpuAt
<1>4. \/ x.name = "acc" /\ x.val = AccMax /\ k = 23
      \/ x.name = "gyro" /\ x.val = GyroMax /\ k = 25
  BY <1>2, <1>3, InitKinds DEF InitKind
<1>5. /\ divider'.acc = (IF x.name = "acc" THEN x.val ELSE divider.acc)
      /\ divider'.gyro = (IF x.name = "gyro" THEN x.val ELSE divider.gyro)
  BY <1>3, <1>4 DEF StateTypes
<1>6. UNCHANGED mpuChip
  BY DEF MpuDivider
<1>7. k < 30 /\ At(initialize, k + 1)' /\ ~(k + 1 >= 30)
  BY <1>2, <1>4
<1> QED
  BY <1>4, <1>5, <1>6, <1>7 DEF Initializing, mpuChip

LEMMA InitBurst ==
  ASSUME StateTypes, NEW k \in 0..30, Initializing(k), MpuBurst
  PROVE  /\ mpuTodo' = <<>> /\ Ready'
         /\ \A i \in 1..3 : mpuData'.asa[i] = "ASAX"
         /\ mpuData'.mag = mpuData.mag
         /\ \A s \in Scaled : mpuData'[s] = mpuData[s]
<1>1. PICK x : x = Head(mpuTodo)
  OBVIOUS
<1>2. x = initialize[k + 1] /\ (k = 30 => mpuTodo' = <<>>)
  BY <1>1, InitRest DEF MpuBurst
<1>3. x.op = "burst"
  BY <1>1 DEF MpuBurst, MpuAt
<1>4. k = 30 /\ x.val = {"asa"}
  BY <1>2, <1>3, InitKinds DEF InitKind
<1>5. UNCHANGED <<mpuChip, divider, rescaled>>
  BY DEF MpuBurst, MpuDone
<1>6. Ready'
  BY <1>4, <1>5 DEF Initializing, Ready, Running, Matched, Fresh, Scaled, mpuChip
<1>7. /\ "asa" \in Head(mpuTodo).val /\ "mag" \notin Head(mpuTodo).val
      /\ "acc" \notin Head(mpuTodo).val /\ "gyro" \notin Head(mpuTodo).val
  BY <1>1, <1>4
<1>8. mpuData' = [acc |-> mpuData.acc, gyro |-> mpuData.gyro, asa |-> First(3), mag |-> mpuData.mag]
  BY <1>7 DEF MpuBurst
<1>9. \A i \in 1..3 : First(3)[i] = "ASAX"
  BY <1>4 DEF Initializing, Copied, First
<1> QED
  BY <1>2, <1>4, <1>6, <1>8, <1>9 DEF Scaled

LEMMA InitSampled ==
  ASSUME StateTypes, Defined, NEW k \in 0..30, Initializing(k), MpuSampled
  PROVE  Initializing(k)'
<1>1. /\ \A s \in Scaled : mpuOut'[s] = mpuReg[s]
      /\ mpuReg.block = "ASAX" => akMode' = akMode
      /\ mpuReg.block = "CNTL1" /\ mpuReg.do = "continuous" =>
           (akMode = "continuous" => akMode' = "continuous")
      /\ mpuReg.master /\ mpuReg.read /\ (akMode = "continuous" \/ mpuReg.block # "HXL") =>
           \A i \in 1..mpuReg.count : mpuExt'[i] = mpuReg.block
  BY SampleEffect DEF MpuSampled
<1>2. UNCHANGED <<mpuReg, divider, mpuTodo>>
  BY DEF MpuSampled
<1>3. At(initialize, k)'
  BY <1>2 DEF Initializing, At
<1>4. k >= 22 => akMode' = "continuous"
  BY <1>1 DEF Initializing
<1>5. k >= 30 => Copied("ASAX", 3)' /\ \A s \in Scaled : mpuOut'[s] = mpuReg'[s]
  BY <1>1, <1>2 DEF Initializing, Copied
<1> QED
  BY <1>2, <1>3, <1>4, <1>5 DEF Initializing
----------------------------------------------------------------------------
(* The steps of the methods that fetch from the magnetometer.              *)
MpuAccess == MpuWrite \/ MpuReset \/ MpuSleep \/ MpuDivider \/ MpuBurst

LEMMA KindOf ==
  ASSUME MpuAccess
  PROVE  /\ Head(mpuTodo).op = "write" => MpuWrite
         /\ Head(mpuTodo).op = "sleep" => MpuSleep
         /\ Head(mpuTodo).op = "scale" => MpuDivider
         /\ Head(mpuTodo).op = "burst" => MpuBurst
         /\ MpuDone
BY DEF MpuAccess, MpuAt, MpuWrite, MpuReset, MpuSleep, MpuDivider, MpuBurst

(* A write that leaves the ranges and what Running speaks of.              *)
LEMMA SelectWrite ==
  ASSUME StateTypes, Defined, MpuWrite, Ready, NEW x, x = Head(mpuTodo),
         \/ x.name = "read" /\ x.val = TRUE
         \/ x.name = "block" /\ x.val \in Blocks \ {"CNTL1"}
         \/ x.name = "count"
  PROVE  Written(x) /\ Ready' /\ Defined' /\ mpuExt' = mpuExt
<1>1. mpuReg' = [mpuReg EXCEPT ![x.name] = x.val]
  BY DEF MpuWrite
<1>2. Written(x)
  BY <1>1 DEF StateTypes, Written
<1>3. UNCHANGED <<akMode, mpuOut, mpuExt, divider, rescaled>>
  BY DEF MpuWrite, MpuDone
<1> QED
  BY <1>2, <1>3 DEF Written, Ready, Running, Matched, Fresh, Scaled, Defined

LEMMA FetchStep ==
  ASSUME StateTypes, Defined, NEW m, NEW block \in Blocks \ {"CNTL1"}, NEW count \in 1..7, NEW by, NEW what,
         Selects(m, block, count), Len(m) = 5, m[4] = Sleep, m[5] = ReadRegs(by, what),
         NEW k, Fetching(m, block, count, k), MpuAccess
  PROVE  /\ Ready' /\ Defined'
         /\ \/ k \in 0..3 /\ Fetching(m, block, count, k + 1)' /\ mpuData' = mpuData
            \/ /\ k = 4 /\ mpuTodo' = <<>> /\ MpuBurst /\ Copied(block, count)
               /\ Head(mpuTodo).name = by /\ Head(mpuTodo).val = what
<1>1. m \in Seq(Access) /\ At(m, k) /\ Ready
  BY DEF Selects, Fetching
<1>2. PICK x : x = Head(mpuTodo)
  OBVIOUS
<1>3. /\ k \in 0..4 /\ x = m[k + 1]
      /\ k = 4 => mpuTodo' = <<>>
      /\ k < 4 => At(m, k + 1)'
  <2>1. /\ k \in 0..(Len(m) - 1) /\ Head(mpuTodo) = m[k + 1]
        /\ MpuDone => /\ k + 1 = Len(m) => mpuTodo' = <<>>
                      /\ k + 1 < Len(m) => At(m, k + 1)'
    BY <1>1, AtRest
  <2>2. MpuDone
    BY KindOf
  <2> QED
    BY <2>1, <2>2, <1>2
<1>4. CASE k = 0
  <2>1. x.op = "write" /\ x.name = "read" /\ x.val = TRUE
    BY <1>3, <1>4 DEF Selects, WriteReg
  <2>2. MpuWrite
    BY <2>1, <1>2, KindOf
  <2>3. Ready' /\ Defined'
    BY <2>1, <2>2, <1>1, <1>2, SelectWrite
  <2> QED
    BY <2>2, <2>3, <1>3, <1>4 DEF Fetching, MpuWrite
<1>5. CASE k = 1
  <2>1. x.op = "write" /\ x.name = "block" /\ x.val = block
    BY <1>3, <1>5 DEF Selects, WriteReg
  <2>2. MpuWrite
    BY <2>1, <1>2, KindOf
  <2>3. Ready' /\ Defined' /\ Written(x)
    BY <2>1, <2>2, <1>1, <1>2, SelectWrite
  <2> QED
    BY <2>1, <2>2, <2>3, <1>3, <1>5 DEF Fetching, MpuWrite, Written
<1>6. CASE k = 2
  <2>1. x.op = "write" /\ x.name = "count" /\ x.val = count
    BY <1>3, <1>6 DEF Selects, WriteReg
  <2>2. MpuWrite
    BY <2>1, <1>2, KindOf
  <2>3. Ready' /\ Defined' /\ Written(x)
    BY <2>1, <2>2, <1>1, <1>2, SelectWrite
  <2> QED
    BY <2>1, <2>2, <2>3, <1>3, <1>6 DEF Fetching, MpuWrite, Written
<1>7. CASE k = 3
  <2>1. MpuSleep
    <3>1. x = Sleep
      BY <1>3, <1>7
    <3>2. x.op = "sleep"
      BY <3>1 DEF Sleep
    <3> QED
      BY <3>2, <1>2, KindOf
  <2>2. mpuReg.block = block /\ mpuReg.count = count
    BY <1>7 DEF Fetching
  <2>3. /\ \A s \in Scaled : mpuOut'[s] = mpuReg[s]
        /\ mpuReg.read => akMode' = akMode
        /\ mpuReg.master /\ mpuReg.read /\ (akMode = "continuous" \/ mpuReg.block # "HXL") =>
             \A i \in 1..mpuReg.count : mpuExt'[i] = mpuReg.block
    BY <2>1, SampleEffect DEF MpuSleep
  <2>4. UNCHANGED <<mpuReg, divider, mpuData, rescaled>>
    BY <2>1 DEF MpuSleep, MpuDone
  <2>5. Ready' /\ Defined'
    BY <1>1, <2>3, <2>4 DEF Ready, Running, Matched, Fresh, Defined
  <2>6. Copied(block, count)'
    BY <1>1, <2>2, <2>3 DEF Ready, Running, Copied
  <2> QED
    BY <2>2, <2>4, <2>5, <2>6, <1>3, <1>7 DEF Fetching
<1>8. CASE k = 4
  <2>1. x.op = "burst" /\ x.name = by /\ x.val = what
    BY <1>3, <1>8 DEF ReadRegs
  <2>2. MpuBurst
    BY <2>1, <1>2, KindOf
  <2>3. UNCHANGED <<mpuChip, divider, rescaled>>
    BY <2>2 DEF MpuBurst, MpuDone
  <2>4. Ready' /\ Defined'
    BY <1>1, <2>3 DEF Ready, Running, Matched, Fresh, Defined, mpuChip
  <2> QED
    BY <2>1, <2>2, <2>4, <1>2, <1>3, <1>8 DEF Fetching
<1> QED
  BY <1>3, <1>4, <1>5, <1>6, <1>7, <1>8

(* Methods that wait for nothing: what they take from slave 0 is not for   *)
(* read_mag.                                                               *)
IsTaking(x) ==
  \/ /\ x.op = "write"
     /\ \/ x.name = "read" /\ x.val = TRUE
        \/ x.name = "block" /\ x.val = "HXL"
        \/ x.name = "count"
  \/ /\ x.op = "burst" /\ "asa" \notin x.val
     /\ "mag" \in x.val => x.name = "read_all"

LEMMA TakingMethods ==
  ASSUME NEW m \in {read_all, read_acc, read_gyro, read_acc \o read_gyro}
  PROVE  m \in Seq(Access) /\ Len(m) \in 1..4 /\ \A i \in 1..Len(m) : IsTaking(m[i])
<1>1. CASE m = read_all
  <2>1. /\ m \in Seq(Access) /\ Len(m) = 4
        /\ m[1] = WriteReg("read", TRUE) /\ m[2] = WriteReg("block", "HXL")
        /\ m[3] = WriteReg("count", 7) /\ m[4] = ReadRegs("read_all", {"acc", "gyro", "mag"})
    BY <1>1, ReadAllMethod DEF Selects
  <2>2. IsTaking(WriteReg("read", TRUE)) /\ IsTaking(WriteReg("block", "HXL"))
        /\ IsTaking(WriteReg("count", 7)) /\ IsTaking(ReadRegs("read_all", {"acc", "gyro", "mag"}))
    BY DEF IsTaking, WriteReg, ReadRegs
  <2>3. IsTaking(m[1]) /\ IsTaking(m[2]) /\ IsTaking(m[3]) /\ IsTaking(m[4])
    BY <2>1, <2>2, Zenon
  <2>4. Len(m) = 4
    BY <2>1
  <2>5. Len(m) \in 1..4 /\ \A i \in 1..Len(m) : i = 1 \/ i = 2 \/ i = 3 \/ i = 4
    BY <2>4
  <2>6. \A i \in 1..Len(m) : IsTaking(m[i])
    BY <2>3, <2>5, Zenon
  <2> QED
    BY <2>1, <2>5, <2>6
<1>2. IsTaking(ReadRegs("read_acc", {"acc"})) /\ IsTaking(ReadRegs("read_gyro", {"gyro"}))
  BY DEF IsTaking, ReadRegs
<1>3. CASE m = read_acc
  <2>1. m \in Seq(Access) /\ Len(m) = 1 /\ IsTaking(m[1])
    BY <1>2, <1>3, ShortMethods, Zenon
  <2> QED
    BY <2>1
<1>4. CASE m = read_gyro
  <2>1. m \in Seq(Access) /\ Len(m) = 1 /\ IsTaking(m[1])
    BY <1>2, <1>4, ShortMethods, Zenon
  <2> QED
    BY <2>1
<1>5. CASE m = read_acc \o read_gyro
  <2>1. m \in Seq(Access) /\ Len(m) = 2 /\ IsTaking(m[1]) /\ IsTaking(m[2])
    BY <1>2, <1>5, ShortMethods, Zenon
  <2> QED
    BY <2>1
<1> QED
  BY <1>1, <1>3, <1>4, <1>5

LEMMA TakeStep ==
  ASSUME StateTypes, Defined, NEW m \in {read_all, read_acc, read_gyro, read_acc \o read_gyro},
         NEW k, Taking(m, k), MpuAccess
  PROVE  /\ k \in 0..3 /\ Ready' /\ Defined'
         /\ mpuTodo' = <<>> \/ Taking(m, k + 1)'
         /\ \/ mpuData' = mpuData
            \/ /\ MpuBurst /\ "asa" \notin Head(mpuTodo).val
               /\ "mag" \in Head(mpuTodo).val => Head(mpuTodo).name = "read_all"
<1>1. m \in Seq(Access) /\ Len(m) \in 1..4 /\ \A i \in 1..Len(m) : IsTaking(m[i])
  BY TakingMethods
<1>2. At(m, k) /\ Ready
  BY DEF Taking
<1>3. PICK x : x = Head(mpuTodo)
  OBVIOUS
<1>4. k \in 0..3 /\ x = m[k + 1] /\ k + 1 \in 1..Len(m) /\ (mpuTodo' = <<>> \/ At(m, k + 1)')
  <2>1. /\ k \in 0..(Len(m) - 1) /\ Head(mpuTodo) = m[k + 1]
        /\ MpuDone => /\ k + 1 = Len(m) => mpuTodo' = <<>>
                      /\ k + 1 < Len(m) => At(m, k + 1)'
    BY <1>1, <1>2, AtRest
  <2>2. MpuDone
    BY KindOf
  <2> QED
    BY <2>1, <2>2, <1>1, <1>3
<1>5. IsTaking(x)
  BY <1>1, <1>4
<1>6. CASE x.op = "write"
  <2>1. MpuWrite
    BY <1>3, <1>6, KindOf
  <2>2. \/ x.name = "read" /\ x.val = TRUE
        \/ x.name = "block" /\ x.val \in Blocks \ {"CNTL1"}
        \/ x.name = "count"
    BY <1>5, <1>6 DEF IsTaking, Blocks
  <2>3. Ready' /\ Defined'
    BY <2>1, <2>2, <1>2, <1>3, SelectWrite
  <2> QED
    BY <2>1, <2>3, <1>4 DEF Taking, MpuWrite
<1>7. CASE x.op = "burst"
  <2>1. MpuBurst
    BY <1>3, <1>7, KindOf
  <2>2. UNCHANGED <<mpuChip, divider, rescaled>>
    BY <2>1 DEF MpuBurst, MpuDone
  <2>3. Ready' /\ Defined'
    BY <1>2, <2>2 DEF Ready, Running, Matched, Fresh, Defined, mpuChip
  <2> QED
    BY <2>1, <2>3, <1>3, <1>4, <1>5, <1>7 DEF Taking, IsTaking
<1> QED
  BY <1>5, <1>6, <1>7 DEF IsTaking
----------------------------------------------------------------------------
(* The two steps of a set_*_scale.                                         *)
LEMMA ScaleStep ==
  ASSUME StateTypes, Defined, NEW s \in Scaled, NEW r \in Ranges(s), NEW k, Scaling(s, r, k), MpuAccess
  PROVE  /\ mpuData' = mpuData /\ Defined'
         /\ \/ k = 0 /\ Scaling(s, r, 1)'
            \/ k = 1 /\ mpuTodo' = <<>> /\ Ready'
<1>1. PICK m : m = SetScale(s, r)
  OBVIOUS
<1>2. /\ m \in Seq(Access) /\ Len(m) = 2 /\ m[1] = WriteReg(s, r) /\ m[2] = Divide(s, r)
  BY <1>1, ScaleMethod
<1>3. PICK x : x = Head(mpuTodo)
  OBVIOUS
<1>4. /\ k \in 0..1 /\ x = m[k + 1]
      /\ k = 1 => mpuTodo' = <<>>
      /\ k = 0 => At(m, 1)'
  <2>1. /\ k \in 0..(Len(m) - 1) /\ Head(mpuTodo) = m[k + 1]
        /\ MpuDone => /\ k + 1 = Len(m) => mpuTodo' = <<>>
                      /\ k + 1 < Len(m) => At(m, k + 1)'
    BY <1>1, <1>2, AtRest DEF Scaling
  <2>2. MpuDone
    BY KindOf
  <2>3. k \in 0..1 /\ x = m[k + 1] /\ (k = 1 => mpuTodo' = <<>>)
    BY <2>1, <2>2, <1>2, <1>3
  <2>4. k = 0 => k + 1 = 1 /\ At(m, k + 1)'
    BY <2>1, <2>2, <1>2
  <2> QED
    BY <2>3, <2>4
<1>5. CASE k = 0
  <2>1. x.op = "write" /\ x.name = s /\ x.val = r
    BY <1>2, <1>4, <1>5 DEF WriteReg
  <2>2. MpuWrite
    BY <2>1, <1>3, KindOf
  <2>3. Written(x)
    BY <2>1, <2>2, <1>3 DEF MpuWrite, StateTypes, Written, Scaled
  <2>4. UNCHANGED <<akMode, divider, mpuData, rescaled>>
    BY <2>2 DEF MpuWrite, MpuDone
  <2>5. mpuReg'[s] = r /\ (\A q \in Scaled \ {s} : Matched(q)') /\ Running' /\ Defined'
    BY <2>1, <2>3, <2>4 DEF Written, Scaled, Matched, Scaling, Running, Defined
  <2> QED
    BY <2>4, <2>5, <1>1, <1>4, <1>5 DEF Scaling
<1>6. CASE k = 1
  <2>1. x.op = "scale" /\ x.name = s /\ x.val = r
    BY <1>2, <1>4, <1>6 DEF Divide
  <2>2. MpuDivider
    BY <2>1, <1>3, KindOf
  <2>3. divider' = [divider EXCEPT ![s] = r]
    BY <2>1, <2>2, <1>3 DEF MpuDivider
  <2>4. UNCHANGED <<mpuChip, mpuData, rescaled>>
    BY <2>2 DEF MpuDivider, MpuDone
  <2>5. \A q \in Scaled : Matched(q)'
    BY <2>3, <2>4, <1>6 DEF Scaling, Matched, Scaled, StateTypes, mpuChip
  <2>6. Ready' /\ Defined'
    BY <2>4, <2>5 DEF Scaling, Ready, Running, Fresh, Defined, mpuChip
  <2> QED
    BY <2>4, <2>6, <1>4, <1>6
<1> QED
  BY <1>4, <1>5, <1>6
----------------------------------------------------------------------------
(* What the readings become.                                               *)
LEMMA BurstEffect ==
  ASSUME StateTypes, MpuBurst, NEW x, x = Head(mpuTodo), IsAccess(x), x.op = "burst"
  PROVE  /\ \A s \in Scaled : mpuData'[s] = IF s \in x.val THEN [range |-> mpuOut[s], divider |-> divider[s]]
                                            ELSE mpuData[s]
         /\ mpuData'.asa = IF "asa" \in x.val THEN First(3) ELSE mpuData.asa
         /\ mpuData'.mag = IF "mag" \in x.val THEN [by |-> x.name, bytes |-> First(6)] ELSE mpuData.mag
         /\ mpuData' \in [acc : Reading(AccRange), gyro : Reading(GyroRange),
                          mag : [by : {"none", "read_mag", "read_all"}, bytes : Bytes(6)], asa : Bytes(3)]
<1>1. mpuData' =
        [acc |-> IF "acc" \in x.val THEN [range |-> mpuOut["acc"], divider |-> divider["acc"]] ELSE mpuData["acc"],
         gyro |-> IF "gyro" \in x.val THEN [range |-> mpuOut["gyro"], divider |-> divider["gyro"]]
                  ELSE mpuData["gyro"],
         asa |-> IF "asa" \in x.val THEN First(3) ELSE mpuData.asa,
         mag |-> IF "mag" \in x.val THEN [by |-> x.name, bytes |-> First(6)] ELSE mpuData.mag]
  BY DEF MpuBurst
<1>2. "mag" \in x.val => x.name \in {"read_mag", "read_all"}
  BY DEF IsAccess
<1>3. First(3) \in Bytes(3) /\ First(6) \in Bytes(6)
  BY DEF StateTypes, First, Bytes
<1>4. mpuData \in [acc : Reading(AccRange), gyro : Reading(GyroRange),
                   mag : [by : {"none", "read_mag", "read_all"}, bytes : Bytes(6)], asa : Bytes(3)]
  BY DEF StateTypes
<1>5. /\ [range |-> mpuOut["acc"], divider |-> divider["acc"]] \in Reading(AccRange)
      /\ [range |-> mpuOut["gyro"], divider |-> divider["gyro"]] \in Reading(GyroRange)
  BY DEF StateTypes, Reading
<1>6. \A s \in Scaled : mpuData'[s] = IF s \in x.val THEN [range |-> mpuOut[s], divider |-> divider[s]]
                                     ELSE mpuData[s]
  BY <1>1 DEF Scaled
<1>7. mpuData' \in [acc : Reading(AccRange), gyro : Reading(GyroRange),
                    mag : [by : {"none", "read_mag", "read_all"}, bytes : Bytes(6)], asa : Bytes(3)]
  BY <1>1, <1>2, <1>3, <1>4, <1>5
<1> QED
  BY <1>1, <1>6, <1>7

(* The user's calls.                                                       *)
LEMMA UserCalls ==
  ASSUME MpuUser
  PROVE  \/ MpuCall(initialize) /\ rescaled' = rescaled
         \/ /\ mpuCalls > 0 /\ rescaled' = rescaled
            /\ \/ MpuCall(AK8963_whoami) \/ MpuCall(calib_mag) \/ MpuCall(read_mag)
               \/ \E m \in {read_all, read_acc, read_gyro, read_acc \o read_gyro} : MpuCall(m)
         \/ /\ mpuCalls > 0 /\ rescaled' = TRUE
            /\ \E s \in Scaled : \E r \in Ranges(s) : MpuCall(SetScale(s, r))
BY DEF MpuUser, Scaled, Ranges

LEMMA CallStarts ==
  ASSUME NEW m \in Seq(Access), Len(m) > 0, MpuCall(m)
  PROVE  At(m, 0)'
<1>1. m = [i \in 1..Len(m) |-> m[i]] /\ Len(m) \in Nat
  OBVIOUS
<1>2. Len(m) - 0 = Len(m) /\ \A i \in 1..Len(m) : m[0 + i] = m[i]
  BY <1>1
<1>3. m = [i \in 1..(Len(m) - 0) |-> m[0 + i]]
  BY <1>1, <1>2
<1>4. 0 \in 0..(Len(m) - 1) /\ mpuTodo' = m
  BY <1>1 DEF MpuCall
<1> QED
  BY <1>3, <1>4 DEF At

(* The types, after any step.                                              *)
LEMMA AccessIsTyped == \A x \in Access : IsAccess(x)
BY DEF Access

LEMMA TypesStep ==
  ASSUME StateTypes, Defined, Position, MpuNext
  PROVE  StateTypes'
<1>1. CASE MpuSampled
  <2>1. akMode' \in {"down", "single", "continuous"} /\ mpuExt' \in [1..7 -> Byte]
        /\ mpuOut' \in [acc : AccRange, gyro : GyroRange]
    BY <1>1, SampleEffect DEF MpuSampled
  <2>2. UNCHANGED <<mpuReg, mpuTodo, divider, mpuData, mpuCalls, rescaled>>
    BY <1>1 DEF MpuSampled
  <2> QED
    BY <2>1, <2>2 DEF StateTypes
<1>2. CASE MpuSleep
  <2>1. akMode' \in {"down", "single", "continuous"} /\ mpuExt' \in [1..7 -> Byte]
        /\ mpuOut' \in [acc : AccRange, gyro : GyroRange]
    BY <1>2, SampleEffect DEF MpuSleep
  <2>2. UNCHANGED <<mpuReg, divider, mpuData, mpuCalls, rescaled>>
    BY <1>2 DEF MpuSleep, MpuDone
  <2> QED
    BY <2>1, <2>2 DEF StateTypes
<1>3. mpuTodo # <<>> => IsAccess(Head(mpuTodo))
  BY TodoTypes, AccessIsTyped
<1>4. CASE MpuWrite
  <2>1. PICK x : x = Head(mpuTodo)
    OBVIOUS
  <2>2. IsAccess(x) /\ x.op = "write" /\ mpuReg' = [mpuReg EXCEPT ![x.name] = x.val]
    BY <2>1, <1>3, <1>4 DEF MpuWrite, MpuAt
  <2>3. mpuReg' \in [acc : AccRange, gyro : GyroRange, master : BOOLEAN, read : BOOLEAN,
                     block : Blocks, do : {"none", "reset", "continuous"}, count : 0..7]
    <3>1. CASE x.name = "acc"
      BY <2>2, <3>1 DEF StateTypes, IsAccess
    <3>2. CASE x.name = "gyro"
      BY <2>2, <3>2 DEF StateTypes, IsAccess
    <3>3. CASE x.name = "master"
      BY <2>2, <3>3 DEF StateTypes, IsAccess
    <3>4. CASE x.name = "read"
      BY <2>2, <3>4 DEF StateTypes, IsAccess
    <3>5. CASE x.name = "block"
      BY <2>2, <3>5 DEF StateTypes, IsAccess
    <3>6. CASE x.name = "do"
      BY <2>2, <3>6 DEF StateTypes, IsAccess
    <3>7. CASE x.name = "count"
      BY <2>2, <3>7 DEF StateTypes, IsAccess
    <3> QED
      BY <2>2, <3>1, <3>2, <3>3, <3>4, <3>5, <3>6, <3>7 DEF IsAccess
  <2>4. UNCHANGED <<akMode, mpuOut, mpuExt, divider, mpuData, mpuCalls, rescaled>>
    BY <1>4 DEF MpuWrite, MpuDone
  <2> QED
    BY <2>3, <2>4 DEF StateTypes
<1>5. CASE MpuReset
  <2>1. PoweredUp \in [acc : AccRange, gyro : GyroRange, master : BOOLEAN, read : BOOLEAN,
                       block : Blocks, do : {"none", "reset", "continuous"}, count : 0..7]
    BY MpuRangeAssumption DEF PoweredUp, Blocks
  <2> QED
    BY <1>5, <2>1 DEF MpuReset, MpuDone, StateTypes, Byte, Blocks
<1>6. CASE MpuDivider
  <2>1. PICK x : x = Head(mpuTodo)
    OBVIOUS
  <2>2. IsAccess(x) /\ x.op = "scale" /\ divider' = [divider EXCEPT ![x.name] = x.val]
    BY <2>1, <1>3, <1>6 DEF MpuDivider, MpuAt
  <2>3. divider' \in [acc : AccRange \cup {Unset}, gyro : GyroRange \cup {Unset}]
    BY <2>2 DEF StateTypes, IsAccess, Scaled, Ranges
  <2>4. UNCHANGED <<mpuReg, akMode, mpuOut, mpuExt, mpuData, mpuCalls, rescaled>>
    BY <1>6 DEF MpuDivider, MpuDone, mpuChip
  <2> QED
    BY <2>3, <2>4 DEF StateTypes
<1>7. CASE MpuBurst
  <2>1. PICK x : x = Head(mpuTodo)
    OBVIOUS
  <2>2. IsAccess(x) /\ x.op = "burst"
    BY <2>1, <1>3, <1>7 DEF MpuBurst, MpuAt
  <2>3. mpuData' \in [acc : Reading(AccRange), gyro : Reading(GyroRange),
                      mag : [by : {"none", "read_mag", "read_all"}, bytes : Bytes(6)], asa : Bytes(3)]
    BY <2>1, <2>2, <1>7, BurstEffect
  <2>4. UNCHANGED <<mpuReg, akMode, mpuOut, mpuExt, divider, mpuCalls, rescaled>>
    BY <1>7 DEF MpuBurst, MpuDone, mpuChip
  <2> QED
    BY <2>3, <2>4 DEF StateTypes
<1>8. CASE MpuUser
  <2>1. \E m : MpuCall(m)
    BY <1>8, UserCalls
  <2>2. /\ UNCHANGED <<mpuReg, akMode, mpuOut, mpuExt, divider, mpuData>>
        /\ mpuCalls < MaxMpuCalls /\ mpuCalls' = mpuCalls + 1
    BY <2>1 DEF MpuCall, mpuChip
  <2>3. mpuCalls' \in 0..MaxMpuCalls
    BY <2>2, MpuRangeAssumption DEF StateTypes
  <2>4. rescaled' \in BOOLEAN
    BY <1>8, UserCalls DEF StateTypes
  <2> QED
    BY <2>2, <2>3, <2>4 DEF StateTypes
<1> QED
  BY <1>1, <1>2, <1>4, <1>5, <1>6, <1>7, <1>8 DEF MpuNext
----------------------------------------------------------------------------
(* The invariant, step by step.                                            *)
LEMMA InitMpu == MpuInit => MpuInv
<1> SUFFICES ASSUME MpuInit PROVE MpuInv
  OBVIOUS
<1>1. StateTypes
  <2>1. mpuReg \in [acc : AccRange, gyro : GyroRange, master : BOOLEAN, read : BOOLEAN,
                    block : Blocks, do : {"none", "reset", "continuous"}, count : 0..7]
    BY MpuRangeAssumption DEF MpuInit, PoweredUp, Blocks
  <2>2. mpuOut \in [acc : AccRange, gyro : GyroRange] /\ mpuExt \in [1..7 -> Byte]
    BY MpuRangeAssumption DEF MpuInit, Byte, Blocks
  <2>3. divider \in [acc : AccRange \cup {Unset}, gyro : GyroRange \cup {Unset}]
    BY DEF MpuInit
  <2>4. [range |-> Unset, divider |-> Unset] \in Reading(AccRange)
        /\ [range |-> Unset, divider |-> Unset] \in Reading(GyroRange)
    BY DEF Reading
  <2>5. <<>> \in Bytes(3) /\ <<>> \in Bytes(6)
    BY DEF Bytes
  <2>6. mpuData \in [acc : Reading(AccRange), gyro : Reading(GyroRange),
                     mag : [by : {"none", "read_mag", "read_all"}, bytes : Bytes(6)], asa : Bytes(3)]
    BY <2>4, <2>5 DEF MpuInit
  <2>7. akMode = "down" /\ mpuCalls = 0 /\ rescaled = FALSE
    BY DEF MpuInit
  <2>8. 0 \in 0..MaxMpuCalls
    BY MpuRangeAssumption
  <2> QED
    BY <2>1, <2>2, <2>3, <2>6, <2>7, <2>8 DEF StateTypes
<1>2. Position
  BY DEF MpuInit, Position, Idle, Scaled
<1>3. Defined /\ SampleMatchesDivider /\ BytesAreTheirs
  BY DEF MpuInit, Defined, PoweredUp, SampleMatchesDivider, BytesAreTheirs
<1> QED
  BY <1>1, <1>2, <1>3 DEF MpuInv

(* Samples between two accesses.                                           *)
LEMMA SampledMpu ==
  ASSUME MpuInv, MpuSampled
  PROVE  MpuInv'
<1>1. StateTypes'
  BY TypesStep DEF MpuInv, MpuNext
<1>2. UNCHANGED <<mpuReg, mpuTodo, divider, mpuData, mpuCalls, rescaled>>
  BY DEF MpuSampled
<1>3. Defined' /\ SampleMatchesDivider' /\ BytesAreTheirs'
  BY <1>2 DEF MpuInv, Defined, SampleMatchesDivider, BytesAreTheirs
<1>4. /\ \A s \in Scaled : mpuOut'[s] = mpuReg[s]
      /\ mpuReg.read => akMode' = akMode
      /\ mpuReg.master /\ mpuReg.read /\ (akMode = "continuous" \/ mpuReg.block # "HXL") =>
           \A i \in 1..mpuReg.count : mpuExt'[i] = mpuReg.block
  BY SampleEffect DEF MpuSampled, MpuInv
<1>5. Running => Running'
  BY <1>2, <1>4 DEF Running
<1>6. Ready => Ready'
  BY <1>2, <1>4, <1>5 DEF Ready, Matched, Fresh
<1>7. \A m, k : At(m, k) => At(m, k)'
  BY <1>2 DEF At
<1>8. CASE Idle
  <2>1. Idle'
    BY <1>2, <1>6, <1>8 DEF Idle
  <2> QED
    BY <2>1, <1>1, <1>3 DEF MpuInv, Position
<1>9. ASSUME NEW k \in Nat, Initializing(k)
      PROVE  Initializing(k)'
  <2>1. k \in 0..30
    BY <1>9, InitializeMethod DEF Initializing, At
  <2> QED
    BY <2>1, <1>9, InitSampled DEF MpuInv
<1>10. ASSUME NEW k \in Nat, NEW m, NEW block, NEW count, Fetching(m, block, count, k), count \in 1..7
       PROVE  Fetching(m, block, count, k)'
  <2>1. At(m, k)' /\ Ready' /\ mpuReg' = mpuReg
    BY <1>2, <1>6, <1>7, <1>10 DEF Fetching
  <2>2. ASSUME k >= 4 PROVE Copied(block, count)'
    BY <1>4, <1>10, <2>2 DEF Fetching, Copied, Ready, Running
  <2> QED
    BY <2>1, <2>2, <1>10 DEF Fetching
<1>11. ASSUME NEW k \in Nat, NEW m, Taking(m, k)
       PROVE  Taking(m, k)'
  BY <1>6, <1>7, <1>11 DEF Taking
<1>12. ASSUME NEW k \in Nat, NEW s \in Scaled, NEW r \in Ranges(s), Scaling(s, r, k)
       PROVE  Scaling(s, r, k)'
  BY <1>2, <1>5, <1>7, <1>12 DEF Scaling, Matched
<1>13. 1 \in 1..7 /\ 3 \in 1..7 /\ 7 \in 1..7
  OBVIOUS
<1>14. CASE ~Idle
  <2>1. Position'
    BY <1>9, <1>10, <1>11, <1>12, <1>13, <1>14 DEF MpuInv, Position
  <2> QED
    BY <2>1, <1>1, <1>3 DEF MpuInv
<1> QED
  BY <1>8, <1>14

(* The readings that a burst of a method leaves are what they should be.   *)
LEMMA StillTheirs ==
  ASSUME MpuInv, MpuBurst, Ready, NEW x, x = Head(mpuTodo), IsAccess(x), x.op = "burst",
         "asa" \in x.val => Copied("ASAX", 3),
         "mag" \in x.val => x.name = "read_all" \/ Copied("HXL", 7)
  PROVE  SampleMatchesDivider' /\ BytesAreTheirs'
<1>1. /\ \A s \in Scaled : mpuData'[s] = IF s \in x.val THEN [range |-> mpuOut[s], divider |-> divider[s]]
                                        ELSE mpuData[s]
      /\ mpuData'.asa = IF "asa" \in x.val THEN First(3) ELSE mpuData.asa
      /\ mpuData'.mag = IF "mag" \in x.val THEN [by |-> x.name, bytes |-> First(6)] ELSE mpuData.mag
  BY BurstEffect DEF MpuInv
<1>2. rescaled' = rescaled
  BY DEF MpuBurst, MpuDone
<1>3. ~rescaled => \A s \in Scaled : mpuOut[s] = divider[s]
  BY DEF Ready, Matched, Fresh
<1>4. SampleMatchesDivider'
  BY <1>1, <1>2, <1>3 DEF MpuInv, SampleMatchesDivider, Scaled
<1>5. \A i \in DOMAIN mpuData'.asa : mpuData'.asa[i] = "ASAX"
  <2>1. CASE "asa" \in x.val
    <3>1. mpuData'.asa = First(3) /\ Copied("ASAX", 3)
      BY <1>1, <2>1
    <3>2. DOMAIN First(3) = 1..3 /\ \A i \in 1..3 : First(3)[i] = "ASAX"
      BY <3>1 DEF First, Copied
    <3> QED
      BY <3>1, <3>2
  <2> QED
    BY <1>1, <2>1 DEF MpuInv, BytesAreTheirs
<1>6. mpuData'.mag.by = "read_mag" => \A i \in DOMAIN mpuData'.mag.bytes : mpuData'.mag.bytes[i] = "HXL"
  <2>1. CASE "mag" \in x.val /\ x.name # "read_all"
    <3>1. mpuData'.mag.bytes = First(6) /\ Copied("HXL", 7)
      BY <1>1, <2>1
    <3>2. DOMAIN First(6) = 1..6 /\ \A i \in 1..6 : First(6)[i] = "HXL"
      BY <3>1 DEF First, Copied
    <3> QED
      BY <3>1, <3>2
  <2>2. CASE "mag" \in x.val /\ x.name = "read_all"
    BY <1>1, <2>2
  <2>3. CASE "mag" \notin x.val
    BY <1>1, <2>3 DEF MpuInv, BytesAreTheirs
  <2> QED
    BY <2>1, <2>2, <2>3
<1> QED
  BY <1>4, <1>5, <1>6 DEF BytesAreTheirs

(* An access of the method that runs.                                      *)
LEMMA AccessMpu ==
  ASSUME MpuInv, MpuAccess
  PROVE  MpuInv'
<1>1. StateTypes' /\ StateTypes /\ Defined /\ Position
  BY TypesStep DEF MpuInv, MpuNext, MpuAccess
<1>2. PICK x : x = Head(mpuTodo)
  OBVIOUS
<1>3. mpuTodo # <<>> /\ IsAccess(x)
  BY <1>1, <1>2, TodoTypes, AccessIsTyped
        DEF MpuAccess, MpuWrite, MpuReset, MpuSleep, MpuDivider, MpuBurst, MpuAt
<1>4. MpuBurst => x.op = "burst"
  BY <1>2 DEF MpuBurst, MpuAt
<1>5. rescaled' = rescaled
  BY KindOf DEF MpuDone
<1>6. mpuData' = mpuData => SampleMatchesDivider' /\ BytesAreTheirs'
  BY <1>5 DEF MpuInv, SampleMatchesDivider, BytesAreTheirs
<1>7. mpuTodo' = <<>> /\ Ready' => Position'
  BY DEF Position, Idle
<1>8. ASSUME NEW k \in Nat, Initializing(k)
      PROVE  MpuInv'
  <2>1. k \in 0..30
    BY <1>8, InitializeMethod DEF Initializing, At
  <2>2. CASE MpuBurst
    <3>1. /\ mpuTodo' = <<>> /\ Ready'
          /\ \A i \in 1..3 : mpuData'.asa[i] = "ASAX"
          /\ mpuData'.mag = mpuData.mag
          /\ \A s \in Scaled : mpuData'[s] = mpuData[s]
      BY <1>1, <1>8, <2>1, <2>2, InitBurst
    <3>2. Defined'
      BY <1>1, <2>2 DEF MpuBurst, mpuChip, Defined
    <3>3. DOMAIN mpuData'.asa \subseteq 1..3
      BY <1>1 DEF StateTypes, Bytes
    <3>4. SampleMatchesDivider' /\ BytesAreTheirs'
      BY <3>1, <3>3, <1>5 DEF MpuInv, SampleMatchesDivider, BytesAreTheirs, Scaled
    <3> QED
      BY <3>1, <3>2, <3>4, <1>1, <1>7 DEF MpuInv
  <2>3. CASE ~MpuBurst
    <3>1. mpuData' = mpuData
      BY <2>3 DEF MpuAccess, MpuWrite, MpuReset, MpuSleep, MpuDivider
    <3>2. Initializing(k + 1)'
      BY <1>1, <1>8, <2>1, <2>3, InitWrite, InitReset, InitSleep, InitDivide DEF MpuAccess
    <3>3. Defined'
      <4>1. MpuReset => Defined'
        BY DEF MpuReset, Defined, PoweredUp
      <4>2. MpuSleep \/ MpuDivider => Defined'
        BY <1>1 DEF MpuSleep, MpuDivider, mpuChip, Defined
      <4> QED
        BY <4>1, <4>2, <1>1, <1>8, <2>1, <2>3, InitWrite DEF MpuAccess
    <3>4. Position'
      BY <3>2, <2>1 DEF Position
    <3> QED
      BY <3>1, <3>3, <3>4, <1>1, <1>6 DEF MpuInv
  <2> QED
    BY <2>2, <2>3
<1>9. ASSUME NEW k \in Nat, NEW m \in {read_all, read_acc, read_gyro, read_acc \o read_gyro}, Taking(m, k)
      PROVE  MpuInv'
  <2>1. /\ k \in 0..3 /\ Ready' /\ Defined'
        /\ mpuTodo' = <<>> \/ Taking(m, k + 1)'
        /\ \/ mpuData' = mpuData
           \/ /\ MpuBurst /\ "asa" \notin x.val
              /\ "mag" \in x.val => x.name = "read_all"
    BY <1>1, <1>2, <1>9, TakeStep
  <2>2. Position'
    <3>1. CASE mpuTodo' = <<>>
      BY <2>1, <3>1, <1>7
    <3>2. CASE Taking(m, k + 1)'
      <4>1. k + 1 \in Nat
        BY <2>1
      <4> QED
        BY <3>2, <4>1 DEF Position
    <3> QED
      BY <2>1, <3>1, <3>2
  <2>3. Ready
    BY <1>9 DEF Taking
  <2>4. SampleMatchesDivider' /\ BytesAreTheirs'
    BY <2>1, <2>3, <1>2, <1>3, <1>4, <1>6, StillTheirs
  <2> QED
    BY <2>1, <2>2, <2>4, <1>1 DEF MpuInv
<1>10. ASSUME NEW k \in Nat, NEW s \in Scaled, NEW r \in Ranges(s), Scaling(s, r, k)
       PROVE  MpuInv'
  <2>1. /\ mpuData' = mpuData /\ Defined'
        /\ \/ k = 0 /\ Scaling(s, r, 1)'
           \/ k = 1 /\ mpuTodo' = <<>> /\ Ready'
    BY <1>1, <1>10, ScaleStep
  <2>2. Position'
    BY <2>1, <1>7 DEF Position
  <2> QED
    BY <2>1, <2>2, <1>1, <1>6 DEF MpuInv
<1>11. ASSUME NEW k \in Nat, NEW m, NEW block \in Blocks \ {"CNTL1"}, NEW count \in 1..7, NEW by, NEW what,
              Selects(m, block, count), Len(m) = 5, m[4] = Sleep, m[5] = ReadRegs(by, what),
              Fetching(m, block, count, k),
              \A j \in Nat : Fetching(m, block, count, j)' => Position',
              "asa" \in what => block = "ASAX" /\ count = 3,
              "mag" \in what => block = "HXL" /\ count = 7
       PROVE  MpuInv'
  <2>1. /\ Ready' /\ Defined'
        /\ \/ k \in 0..3 /\ Fetching(m, block, count, k + 1)' /\ mpuData' = mpuData
           \/ /\ k = 4 /\ mpuTodo' = <<>> /\ MpuBurst /\ Copied(block, count)
              /\ x.name = by /\ x.val = what
    BY <1>1, <1>2, <1>11, FetchStep
  <2>2. Position'
    BY <2>1, <1>7, <1>11
  <2>3. Ready
    BY <1>11 DEF Fetching
  <2>4. SampleMatchesDivider' /\ BytesAreTheirs'
    <3>1. CASE mpuData' = mpuData
      BY <3>1, <1>6
    <3>2. CASE MpuBurst /\ Copied(block, count) /\ x.val = what
      BY <3>2, <2>3, <1>2, <1>3, <1>4, <1>11, StillTheirs
    <3> QED
      BY <2>1, <3>1, <3>2
  <2> QED
    BY <2>1, <2>2, <2>4, <1>1 DEF MpuInv
<1>12. /\ "WIA" \in Blocks \ {"CNTL1"} /\ "ASAX" \in Blocks \ {"CNTL1"} /\ "HXL" \in Blocks \ {"CNTL1"}
       /\ 1 \in 1..7 /\ 3 \in 1..7 /\ 7 \in 1..7
  BY DEF Blocks
<1>13. ASSUME NEW k \in Nat, Fetching(AK8963_whoami, "WIA", 1, k)
       PROVE  MpuInv'
  <2>1. \A j \in Nat : Fetching(AK8963_whoami, "WIA", 1, j)' => Position'
    BY DEF Position
  <2> QED
    BY <2>1, <1>11, <1>12, <1>13, FetchMethods
<1>14. ASSUME NEW k \in Nat, Fetching(calib_mag, "ASAX", 3, k)
       PROVE  MpuInv'
  <2>1. \A j \in Nat : Fetching(calib_mag, "ASAX", 3, j)' => Position'
    BY DEF Position
  <2> QED
    BY <2>1, <1>11, <1>12, <1>14, FetchMethods
<1>15. ASSUME NEW k \in Nat, Fetching(read_mag, "HXL", 7, k)
       PROVE  MpuInv'
  <2>1. \A j \in Nat : Fetching(read_mag, "HXL", 7, j)' => Position'
    BY DEF Position
  <2> QED
    BY <2>1, <1>11, <1>12, <1>15, FetchMethods
<1>16. ~Idle
  BY <1>3 DEF Idle
<1> QED
  BY <1>1, <1>8, <1>9, <1>10, <1>13, <1>14, <1>15, <1>16 DEF Position

(* Between two methods the user is idle.                                   *)
LEMMA IdleAtRest ==
  ASSUME Position, mpuTodo = <<>>
  PROVE  Idle
<1>1. \A q \in Seq(Access) : \A k : ~At(q, k)
  BY AtRest
<1>2. initialize \in Seq(Access)
  BY InitializeMethod
<1>3. AK8963_whoami \in Seq(Access) /\ calib_mag \in Seq(Access) /\ read_mag \in Seq(Access)
  BY FetchMethods DEF Selects
<1>4. \A q \in {read_all, read_acc, read_gyro, read_acc \o read_gyro} : q \in Seq(Access)
  BY ReadAllMethod, ShortMethods DEF Selects
<1>5. \A s \in Scaled : \A r \in Ranges(s) : SetScale(s, r) \in Seq(Access)
  BY ScaleMethod
<1> QED
  BY <1>1, <1>2, <1>3, <1>4, <1>5 DEF Position, Initializing, Fetching, Taking, Scaling

(* A call starts a method.                                                 *)
LEMMA CallMpu ==
  ASSUME MpuInv, MpuUser
  PROVE  MpuInv'
<1>1. StateTypes' /\ StateTypes /\ Defined /\ Position
  BY TypesStep DEF MpuInv, MpuNext
<1>2. ASSUME NEW m, MpuCall(m)
      PROVE  /\ UNCHANGED <<mpuReg, akMode, mpuOut, mpuExt, divider, mpuData>>
             /\ Idle /\ (mpuCalls > 0 => Ready)
  <2>1. UNCHANGED <<mpuReg, akMode, mpuOut, mpuExt, divider, mpuData>> /\ mpuTodo = <<>>
    BY <1>2 DEF MpuCall, mpuChip
  <2>2. Idle
    BY <2>1, <1>1, IdleAtRest
  <2>3. mpuCalls > 0 => mpuCalls # 0
    BY <1>1 DEF StateTypes
  <2> QED
    BY <2>1, <2>2, <2>3 DEF Idle
<1>3. PICK called : MpuCall(called)
  BY UserCalls
<1>4. /\ UNCHANGED <<mpuReg, akMode, mpuOut, mpuExt, divider, mpuData>>
      /\ mpuCalls > 0 => Ready
  BY <1>2, <1>3
<1>5. Defined' /\ BytesAreTheirs'
  BY <1>4 DEF MpuInv, Defined, BytesAreTheirs
<1>6. SampleMatchesDivider'
  <2>1. rescaled' = rescaled \/ rescaled' = TRUE
    BY UserCalls
  <2> QED
    BY <2>1, <1>4 DEF MpuInv, SampleMatchesDivider
<1>7. Position' => MpuInv'
  BY <1>1, <1>5, <1>6 DEF MpuInv
<1>8. CASE MpuCall(initialize)
  <2>1. At(initialize, 0)'
    <3>1. initialize \in Seq(Access) /\ Len(initialize) > 0
      BY InitializeMethod
    <3> QED
      BY <3>1, <1>8, CallStarts
  <2>2. Initializing(0)'
    BY <2>1 DEF Initializing
  <2>3. 0 \in Nat
    OBVIOUS
  <2> QED
    BY <2>2, <2>3, <1>7 DEF Position
<1>9. ASSUME mpuCalls > 0, rescaled' = rescaled,
             NEW m \in Seq(Access), NEW block, NEW count, Len(m) = 5, MpuCall(m)
      PROVE  Fetching(m, block, count, 0)'
  <2>1. At(m, 0)'
    <3>1. Len(m) > 0
      BY <1>9
    <3> QED
      BY <3>1, <1>9, CallStarts
  <2>2. Ready'
    BY <1>4, <1>9 DEF Ready, Running, Matched, Fresh
  <2> QED
    BY <2>1, <2>2 DEF Fetching
<1>10. CASE /\ mpuCalls > 0 /\ rescaled' = rescaled
            /\ MpuCall(AK8963_whoami) \/ MpuCall(calib_mag) \/ MpuCall(read_mag)
  <2>1. /\ AK8963_whoami \in Seq(Access) /\ Len(AK8963_whoami) = 5
        /\ calib_mag \in Seq(Access) /\ Len(calib_mag) = 5
        /\ read_mag \in Seq(Access) /\ Len(read_mag) = 5
    BY FetchMethods DEF Selects
  <2>2. \/ Fetching(AK8963_whoami, "WIA", 1, 0)' \/ Fetching(calib_mag, "ASAX", 3, 0)'
        \/ Fetching(read_mag, "HXL", 7, 0)'
    BY <2>1, <1>9, <1>10
  <2>3. 0 \in Nat
    OBVIOUS
  <2> QED
    BY <2>2, <2>3, <1>7 DEF Position
<1>11. ASSUME mpuCalls > 0, rescaled' = rescaled,
              NEW m \in {read_all, read_acc, read_gyro, read_acc \o read_gyro}, MpuCall(m)
       PROVE  MpuInv'
  <2>1. m \in Seq(Access) /\ Len(m) > 0
    <3>1. m \in Seq(Access) /\ Len(m) \in 1..4
      BY <1>11, TakingMethods
    <3>2. \A n \in 1..4 : n > 0
      OBVIOUS
    <3> QED
      BY <3>1, <3>2, Zenon
  <2>2. At(m, 0)'
    BY <2>1, <1>11, CallStarts
  <2>3. Ready'
    BY <1>4, <1>11 DEF Ready, Running, Matched, Fresh
  <2>4. 0 \in Nat /\ Taking(m, 0)'
    BY <2>2, <2>3 DEF Taking
  <2> QED
    BY <2>4, <1>7 DEF Position
<1>12. ASSUME mpuCalls > 0, rescaled' = TRUE,
              NEW s \in Scaled, NEW r \in Ranges(s), MpuCall(SetScale(s, r))
       PROVE  MpuInv'
  <2>1. SetScale(s, r) \in Seq(Access) /\ Len(SetScale(s, r)) > 0
    BY ScaleMethod
  <2>2. At(SetScale(s, r), 0)'
    BY <2>1, <1>12, CallStarts
  <2>3. Running' /\ \A q \in Scaled : Matched(q)'
    BY <1>4, <1>12 DEF Ready, Running, Matched
  <2>4. Scaling(s, r, 0)'
    BY <2>2, <2>3, <1>12 DEF Scaling
  <2>5. 0 \in Nat
    OBVIOUS
  <2> QED
    BY <2>4, <2>5, <1>7 DEF Position
<1> QED
  BY UserCalls, <1>8, <1>10, <1>11, <1>12

LEMMA StepMpu == MpuInv /\ [MpuNext]_mpuVars => MpuInv'
<1> SUFFICES ASSUME MpuInv, [MpuNext]_mpuVars PROVE MpuInv'
  OBVIOUS
<1>1. CASE MpuSampled
  BY <1>1, SampledMpu
<1>2. CASE MpuUser
  BY <1>2, CallMpu
<1>3. CASE MpuAccess
  BY <1>3, AccessMpu
<1>4. CASE UNCHANGED mpuVars
  <2>1. StateTypes' /\ Defined' /\ SampleMatchesDivider' /\ BytesAreTheirs'
    BY <1>4 DEF MpuInv, StateTypes, Defined, SampleMatchesDivider, BytesAreTheirs, mpuVars
  <2>2. (\A s \in Scaled : (Matched(s) => Matched(s)') /\ (Fresh(s) => Fresh(s)'))
        /\ (Running => Running') /\ \A block, count : Copied(block, count) => Copied(block, count)'
    BY <1>4 DEF Matched, Fresh, Running, Copied, mpuVars
  <2>3. /\ Ready => Ready'
        /\ \A m, k : At(m, k) => At(m, k)'
    BY <1>4, <2>2 DEF Ready, At, mpuVars
  <2>4. Idle => Idle'
    BY <1>4, <2>3 DEF Idle, mpuVars
  <2>5. \A k : Initializing(k) => Initializing(k)'
    BY <1>4, <2>2, <2>3 DEF Initializing, mpuVars
  <2>6. \A m, block, count, k : Fetching(m, block, count, k) => Fetching(m, block, count, k)'
    BY <1>4, <2>2, <2>3 DEF Fetching, mpuVars
  <2>7. \A m, k : Taking(m, k) => Taking(m, k)'
    BY <2>3 DEF Taking
  <2>8. \A s \in Scaled : \A r, k : Scaling(s, r, k) => Scaling(s, r, k)'
    BY <1>4, <2>2, <2>3 DEF Scaling, mpuVars
  <2>9. Position'
    BY <2>4, <2>5, <2>6, <2>7, <2>8 DEF MpuInv, Position
  <2> QED
    BY <2>1, <2>9 DEF MpuInv
<1> QED
  BY <1>1, <1>2, <1>3, <1>4 DEF MpuNext, MpuAccess

(* Whatever the user calls and whenever the chip samples, the invariant    *)
(* holds.                                                                  *)
THEOREM MpuInvHolds == MpuSpec => []MpuInv
BY InitMpu, StepMpu, PTL DEF MpuSpec
----------------------------------------------------------------------------
(* The registers, the readings and the accesses left are typed: no method  *)
(* writes a value that its register cannot hold (WriteReg, ReadRegs).      *)
THEOREM MpuTypeCorrect == MpuSpec => []MpuTypeOK
<1>1. MpuInv => MpuTypeOK
  <2> SUFFICES ASSUME MpuInv PROVE MpuTypeOK
    OBVIOUS
  <2>1. \A i \in DOMAIN mpuTodo : mpuTodo[i].op \in {"write", "reset", "sleep", "scale", "burst"}
    <3>1. mpuTodo = <<>> \/ mpuTodo \in Seq(Access)
      BY TodoTypes DEF MpuInv
    <3>2. \A i \in DOMAIN mpuTodo : mpuTodo[i] \in Access
      BY <3>1
    <3>3. \A x \in Access : x.op \in {"write", "reset", "sleep", "scale", "burst"}
      BY DEF Access
    <3> QED
      BY <3>2, <3>3
  <2> QED
    BY <2>1 DEF MpuInv, StateTypes, MpuTypeOK
<1> QED
  BY <1>1, MpuInvHolds, PTL

(* After every method of the class a divider that is set is the one for    *)
(* the range the chip has (initialize, set_acc_scale, set_gyro_scale).     *)
THEOREM DividersMatchHolds == MpuSpec => []DividersMatch
<1>1. MpuInv => DividersMatch
  <2> SUFFICES ASSUME MpuInv, mpuTodo = <<>>, NEW s \in Scaled, divider[s] # Unset
               PROVE  divider[s] = mpuReg[s]
    BY DEF DividersMatch, Scaled
  <2>1. Idle
    BY IdleAtRest DEF MpuInv
  <2> QED
    BY <2>1 DEF Idle, Ready, Matched
<1> QED
  BY <1>1, MpuInvHolds, PTL

(* A sample is divided by the divider of the range it was taken with,      *)
(* unless the user has changed a range himself (getMotion6, getMotion9).   *)
THEOREM SampleMatchesDividerHolds == MpuSpec => []SampleMatchesDivider
<1>1. MpuInv => SampleMatchesDivider
  BY DEF MpuInv
<1> QED
  BY <1>1, MpuInvHolds, PTL

(* The sensitivity comes from ASAX and what read_mag returns from HXL,     *)
(* although the methods share slave 0 (calib_mag, read_mag).               *)
THEOREM BytesAreTheirsHolds == MpuSpec => []BytesAreTheirs
<1>1. MpuInv => BytesAreTheirs
  BY DEF MpuInv
<1> QED
  BY <1>1, MpuInvHolds, PTL
=============================================================================
