------------------------------ MODULE Mpu9250 ------------------------------
(* Class MPU9250 of navio/mpu9250.py.  Every method is a sequence of       *)
(* register accesses, and the chip (external) takes its samples and lets   *)
(* slave 0 of its I2C master exchange bytes with the magnetometer AK8963   *)
(* between any two of them, at least once during a sleep.  A sample is     *)
(* known by the range it was taken with, a byte of EXT_SENS_DATA by the    *)
(* register of the magnetometer it was copied from.                        *)
EXTENDS Naturals, Sequences

CONSTANTS AccRange, GyroRange,  (* ranges of set_acc_scale and set_gyro_scale *)
          AccMax, GyroMax,      (* those that initialize selects *)
          AccInit,              (* the range it writes first *)
          AccReset, GyroReset,  (* those of a chip after its reset *)
          MaxMpuCalls           (* bound: calls of the user *)
ASSUME MpuRangeAssumption ==
  /\ {AccMax, AccInit, AccReset} \subseteq AccRange /\ {GyroMax, GyroReset} \subseteq GyroRange
  /\ 0 \notin AccRange \cup GyroRange
  /\ MaxMpuCalls \in Nat

VARIABLES mpuReg,   (* registers: ranges, I2C master, slave 0 *)
          akMode,   (* CNTL1 of the magnetometer *)
          mpuOut,   (* the ranges of the latest sample *)
          mpuExt,   (* EXT_SENS_DATA_00 to _06 *)
          mpuTodo,  (* the accesses left of the method that runs *)
          divider,  (* acc_divider and gyro_divider, as the range they are for *)
          mpuData,  (* accelerometer_data, gyroscope_data, magnetometer_data and _ASA *)
          mpuCalls,
          rescaled  (* history: the user has called a set_*_scale *)

mpuVars == <<mpuReg, akMode, mpuOut, mpuExt, mpuTodo, divider, mpuData, mpuCalls, rescaled>>
mpuChip == <<mpuReg, akMode, mpuOut, mpuExt>>

Blocks == {"CNTL1", "CNTL2", "WIA", "ASAX", "HXL", "none"}
Byte == Blocks \cup {"idle"}
Bytes(n) == [1..n -> Byte] \cup {<<>>}
Unset == 0
Reading(range) == [range : range \cup {Unset}, divider : range \cup {Unset}]

MpuTypeOK ==
  /\ mpuReg \in [acc : AccRange, gyro : GyroRange, master : BOOLEAN, read : BOOLEAN,
                 block : Blocks, do : {"none", "reset", "continuous"}, count : 0..7]
  /\ akMode \in {"down", "single", "continuous"}
  /\ mpuOut \in [acc : AccRange, gyro : GyroRange]
  /\ mpuExt \in [1..7 -> Byte]
  /\ \A i \in DOMAIN mpuTodo : mpuTodo[i].op \in {"write", "reset", "sleep", "scale", "burst"}
  /\ divider \in [acc : AccRange \cup {Unset}, gyro : GyroRange \cup {Unset}]
  /\ mpuData \in [acc : Reading(AccRange), gyro : Reading(GyroRange),
                  mag : [by : {"none", "read_mag", "read_all"}, bytes : Bytes(6)], asa : Bytes(3)]
  /\ mpuCalls \in 0..MaxMpuCalls
  /\ rescaled \in BOOLEAN

PoweredUp == [acc |-> AccReset, gyro |-> GyroReset, master |-> FALSE, read |-> FALSE,
              block |-> "none", do |-> "none", count |-> 0]

MpuInit ==
  /\ mpuReg = PoweredUp
  /\ akMode = "down"
  /\ mpuOut = [acc |-> AccReset, gyro |-> GyroReset]
  /\ mpuExt = [i \in 1..7 |-> "none"]
  /\ mpuTodo = <<>>
  /\ divider = [acc |-> Unset, gyro |-> Unset]
  /\ mpuData = [acc |-> [range |-> Unset, divider |-> Unset],
                gyro |-> [range |-> Unset, divider |-> Unset],
                mag |-> [by |-> "none", bytes |-> <<>>], asa |-> <<>>]
  /\ mpuCalls = 0
  /\ rescaled = FALSE
----------------------------------------------------------------------------
(* The methods as sequences of accesses.                                   *)
WriteReg(reg, data) == [op |-> "write", name |-> reg, val |-> data]
Reset == [op |-> "reset", name |-> "", val |-> ""]
Sleep == [op |-> "sleep", name |-> "", val |-> ""]
Divide(sensor, range) == [op |-> "scale", name |-> sensor, val |-> range]

(* ReadRegs, and by whom: what the burst takes along.                      *)
ReadRegs(by, what) == [op |-> "burst", name |-> by, val |-> what]

\* The slip of counting the register address with the bytes.
SelectOneMore(block, count) ==
  <<WriteReg("read", TRUE), WriteReg("block", block), WriteReg("count", count + 1)>>

Select(block, count) ==
  <<WriteReg("read", TRUE), WriteReg("block", block), WriteReg("count", count)>>

\* The slip of reading what slave 0 has fetched without waiting for it.
CalibMagHasty == Append(Select("ASAX", 3), ReadRegs("calib_mag", {"asa"}))

calib_mag == Select("ASAX", 3) \o <<Sleep, ReadRegs("calib_mag", {"asa"})>>
AK8963_whoami == Select("WIA", 1) \o <<Sleep, ReadRegs("AK8963_whoami", {})>>

\* The same slip in read_mag.
ReadMagHasty == Append(Select("HXL", 7), ReadRegs("read_mag", {"mag"}))

read_mag == Select("HXL", 7) \o <<Sleep, ReadRegs("read_mag", {"mag"})>>
(* Its sleep is commented out.                                             *)
read_all == Append(Select("HXL", 7), ReadRegs("read_all", {"acc", "gyro", "mag"}))
read_acc == <<ReadRegs("read_acc", {"acc"})>>
read_gyro == <<ReadRegs("read_gyro", {"gyro"})>>

(* The register, then the divider; the register is read back for the       *)
(* return value only.                                                      *)
SetScale(sensor, range) == <<WriteReg(sensor, range), Divide(sensor, range)>>

\* The slip of leaving the registers to the table that was just written.
InitScalesByTable == <<Divide("acc", AccMax), Divide("gyro", GyroMax)>>

InitScales == SetScale("acc", AccMax) \o SetScale("gyro", GyroMax)

(* The table of registers, written slowly, then the ranges.                *)
MPU_Init_Data ==
  <<Reset, Sleep, WriteReg("gyro", GyroMax), Sleep, WriteReg("acc", AccInit), Sleep,
    WriteReg("master", TRUE), Sleep, WriteReg("read", FALSE), Sleep,
    WriteReg("block", "CNTL2"), Sleep, WriteReg("do", "reset"), Sleep, WriteReg("count", 1), Sleep,
    WriteReg("block", "CNTL1"), Sleep, WriteReg("do", "continuous"), Sleep,
    WriteReg("count", 1), Sleep>>
initialize == MPU_Init_Data \o InitScales \o calib_mag
----------------------------------------------------------------------------
(* The chip takes a sample.  Slave 0 copies bytes from the magnetometer,   *)
(* which measures only in continuous mode, or writes one to it; in CNTL1   *)
(* the 1 that resets through CNTL2 means a single measurement.             *)
MpuSample ==
  /\ mpuOut' = [acc |-> mpuReg.acc, gyro |-> mpuReg.gyro]
  /\ LET on == mpuReg.master /\ mpuReg.count > 0
         byte == IF mpuReg.block = "HXL" /\ akMode # "continuous" THEN "idle" ELSE mpuReg.block
     IN /\ mpuExt' = IF on /\ mpuReg.read
                     THEN [i \in 1..7 |-> IF i <= mpuReg.count THEN byte ELSE mpuExt[i]]
                     ELSE mpuExt
        /\ akMode' = IF ~on \/ mpuReg.read THEN akMode
                     ELSE IF mpuReg.block = "CNTL2" THEN "down"
                     ELSE IF mpuReg.block # "CNTL1" THEN akMode
                     ELSE IF mpuReg.do = "reset" THEN "single" ELSE mpuReg.do

MpuSampled == MpuSample /\ UNCHANGED <<mpuReg, mpuTodo, divider, mpuData, mpuCalls, rescaled>>

MpuDone == mpuTodo' = Tail(mpuTodo) /\ UNCHANGED <<mpuCalls, rescaled>>
MpuAt(op) == mpuTodo # <<>> /\ Head(mpuTodo).op = op

MpuWrite ==
  /\ MpuAt("write")
  /\ mpuReg' = [mpuReg EXCEPT ![Head(mpuTodo).name] = Head(mpuTodo).val]
  /\ MpuDone
  /\ UNCHANGED <<akMode, mpuOut, mpuExt, divider, mpuData>>

(* Bit 7 of PWR_MGMT_1.                                                    *)
MpuReset ==
  /\ MpuAt("reset")
  /\ mpuReg' = PoweredUp
  /\ mpuExt' = [i \in 1..7 |-> "none"]
  /\ MpuDone
  /\ UNCHANGED <<akMode, mpuOut, divider, mpuData>>

(* 10 ms are several samples; the first makes the difference.              *)
MpuSleep ==
  /\ MpuAt("sleep")
  /\ MpuSample
  /\ MpuDone
  /\ UNCHANGED <<mpuReg, divider, mpuData>>

MpuDivider ==
  /\ MpuAt("scale")
  /\ divider' = [divider EXCEPT ![Head(mpuTodo).name] = Head(mpuTodo).val]
  /\ MpuDone
  /\ UNCHANGED <<mpuChip, mpuData>>

First(n) == [i \in 1..n |-> mpuExt[i]]

(* Registers read in one burst belong to one sample.                       *)
MpuBurst ==
  /\ MpuAt("burst")
  /\ LET takes(what) == what \in Head(mpuTodo).val
         scaled(what) == IF takes(what) THEN [range |-> mpuOut[what], divider |-> divider[what]]
                         ELSE mpuData[what]
     IN mpuData' =
          [acc |-> scaled("acc"), gyro |-> scaled("gyro"),
           asa |-> IF takes("asa") THEN First(3) ELSE mpuData.asa,
           mag |-> IF takes("mag") THEN [by |-> Head(mpuTodo).name, bytes |-> First(6)]
                   ELSE mpuData.mag]
  /\ MpuDone
  /\ UNCHANGED <<mpuChip, divider>>

MpuCall(method) ==
  /\ mpuTodo = <<>>
  /\ mpuCalls < MaxMpuCalls
  /\ mpuCalls' = mpuCalls + 1
  /\ mpuTodo' = method
  /\ UNCHANGED <<mpuChip, divider, mpuData>>

(* initialize comes first: "call this function at startup".                *)
MpuUser ==
  \/ MpuCall(initialize) /\ UNCHANGED rescaled
  \/ /\ mpuCalls > 0
     /\ \/ MpuCall(AK8963_whoami) \/ MpuCall(calib_mag)
        \/ MpuCall(read_acc) \/ MpuCall(read_gyro) \/ MpuCall(read_mag)
        \/ MpuCall(read_all)               \* getMotion9
        \/ MpuCall(read_acc \o read_gyro)  \* getMotion6
     /\ UNCHANGED rescaled
  \/ /\ mpuCalls > 0
     /\ \/ \E range \in AccRange : MpuCall(SetScale("acc", range))
        \/ \E range \in GyroRange : MpuCall(SetScale("gyro", range))
     /\ rescaled' = TRUE

MpuNext ==
  MpuSampled \/ MpuWrite \/ MpuReset \/ MpuSleep \/ MpuDivider \/ MpuBurst \/ MpuUser

MpuSpec == MpuInit /\ [][MpuNext]_mpuVars
----------------------------------------------------------------------------
(* Between two calls a divider that is set is the one for the range the    *)
(* chip has, also after the ranges that initialize writes and replaces.    *)
DividersMatch ==
  mpuTodo = <<>> =>
    \A s \in {"acc", "gyro"} : divider[s] # Unset => divider[s] = mpuReg[s]

(* Unless the user changes a range himself, a sample is never divided by   *)
(* the divider of another range: none from before initialize is left when  *)
(* it returns.                                                             *)
SampleMatchesDivider ==
  ~rescaled => \A s \in {"acc", "gyro"} : mpuData[s].range = mpuData[s].divider

(* The sensitivity comes from ASAX and what read_mag returns from HXL, in  *)
(* whatever order the methods share slave 0 and the bytes it copies to.    *)
BytesAreTheirs ==
  /\ \A i \in DOMAIN mpuData.asa : mpuData.asa[i] = "ASAX"
  /\ mpuData.mag.by = "read_mag" =>
       \A i \in DOMAIN mpuData.mag.bytes : mpuData.mag.bytes[i] = "HXL"

(* What the usage text of getMotion9 says: it "returns accel, gyro and mag *)
(* values".                                                                *)
MotionIsMeasured ==
  mpuData.mag.by = "read_all" =>
    \A i \in DOMAIN mpuData.mag.bytes : mpuData.mag.bytes[i] = "HXL"
=============================================================================
