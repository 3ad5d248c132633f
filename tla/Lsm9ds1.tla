------------------------------ MODULE Lsm9ds1 ------------------------------
(* Class LSM9DS1 of navio/lsm9ds1.py: the ranges of three sensors, changed *)
(* by reading, masking and writing their registers, and the lists of       *)
(* readings, which are written in place, turned to the frame of the        *)
(* MPU9250, and handed out by reference.  The chip is external; any        *)
(* transfer may raise OSError.                                             *)
EXTENDS Naturals, Sequences

CONSTANTS LsmRange,     (* ranges, the same set for each sensor *)
          LsmMax,       (* the range that initialize selects *)
          MaxLsmCalls,  (* bound: calls of the user *)
          MaxLsmFails   (* bound: failed transfers *)
ASSUME LsmRangeAssumption == LsmMax \in LsmRange /\ 0 \notin LsmRange
ASSUME LsmBoundsAssumption == MaxLsmCalls \in Nat /\ MaxLsmFails \in Nat

Sensors == {"acc", "gyro", "mag"}

VARIABLES python,    (* the interpreter: 2 or 3 *)
          lsmReg,    (* control registers: data rate and range *)
          lsmOut,    (* the ranges of the latest sample *)
          lsmTodo,   (* the steps left of the method that runs *)
          lsmScale,  (* gyro_scale, acc_scale and mag_scale, as the range they are for *)
          lists,     (* gyroscope_data, accelerometer_data and magnetometer_data *)
          held,      (* the lists that getMotion9 or getMotion6 returned last *)
          lsmCalls, lsmFails

lsmVars == <<python, lsmReg, lsmOut, lsmTodo, lsmScale, lists, held, lsmCalls, lsmFails>>
lsmBounds == <<lsmCalls, lsmFails>>

None3 == 0   \* a scale of None
Off == "off"
Frames == {"zero", "chip", "body"}

(* A list of readings: its frame, and the range and the scale it was       *)
(* computed with.                                                          *)
Readings == [frame : Frames, range : LsmRange \cup {None3}, scale : LsmRange \cup {None3}]
NoReadings == [frame |-> "zero", range |-> None3, scale |-> None3]

LsmTypeOK ==
  /\ python \in {2, 3}
  /\ lsmReg \in [Sensors -> [rate : {Off, "on"}, range : LsmRange]]
  /\ lsmOut \in [Sensors -> LsmRange]
  /\ lsmScale \in [Sensors -> LsmRange \cup {None3}]
  /\ lists \in [Sensors -> Readings]
  /\ held \in [Sensors -> [list : Readings, shared : BOOLEAN]]
  /\ lsmCalls \in 0..MaxLsmCalls /\ lsmFails \in 0..MaxLsmFails

LsmInit ==
  /\ python \in {2, 3}
  /\ \E range \in LsmRange :
       /\ lsmReg = [s \in Sensors |-> [rate |-> Off, range |-> range]]
       /\ lsmOut = [s \in Sensors |-> range]
  /\ lsmTodo = <<>>
  /\ lsmScale = [s \in Sensors |-> None3]
  /\ lists = [s \in Sensors |-> NoReadings]
  /\ held = [s \in Sensors |-> [list |-> NoReadings, shared |-> FALSE]]
  /\ lsmCalls = 0 /\ lsmFails = 0
----------------------------------------------------------------------------
(* The steps of the methods, and the methods.                              *)
step(op, s, range) == [op |-> op, s |-> s, range |-> range]
configure(s) == step("configure", s, LsmMax)
pause(s) == step("sleep", s, LsmMax)
select(s, range) == step("select", s, range)
rescale(s, range) == step("scale", s, range)
Measure(s) == step("read", s, LsmMax)
Turn(s) == step("rotate", s, LsmMax)
Return(sensors) == step("return", sensors, LsmMax)

set_scale(s, range) == <<select(s, range), rescale(s, range)>>

(* initialize: axes and data rates with the widest ranges, sleeps between  *)
(* the sensors, then the scales.                                           *)
lsm_initialize ==
  <<configure("gyro"), pause("gyro"), configure("acc"), pause("acc"),
    configure("mag"), pause("mag")>>
  \o set_scale("gyro", LsmMax) \o set_scale("acc", LsmMax) \o set_scale("mag", LsmMax)

lsm_read(s) == <<Measure(s), Turn(s)>>

\* The slip of turning the sensors of getMotion6 only.
LsmReadAllSix ==
  <<Measure("acc"), Measure("gyro"), Measure("mag"), Turn("acc"), Turn("gyro")>>

lsm_read_all ==
  <<Measure("acc"), Measure("gyro"), Measure("mag"), Turn("acc"), Turn("gyro"), Turn("mag")>>
getMotion9 == Append(lsm_read_all, Return(Sensors))
getMotion6 == Append(lsm_read("acc") \o lsm_read("gyro"), Return({"acc", "gyro"}))
----------------------------------------------------------------------------
LsmSample ==
  /\ lsmOut' = [s \in Sensors |-> lsmReg[s].range]
  /\ UNCHANGED <<python, lsmReg, lsmTodo, lsmScale, lists, held, lsmBounds>>

LsmAt(op) == lsmTodo # <<>> /\ Head(lsmTodo).op = op
LsmDone == lsmTodo' = Tail(lsmTodo) /\ UNCHANGED <<python, lsmBounds>>
LsmAbort == lsmTodo' = <<>> /\ UNCHANGED <<python, lsmBounds>>

LsmConfigure ==
  /\ LsmAt("configure")
  /\ lsmReg' = [lsmReg EXCEPT ![Head(lsmTodo).s] = [rate |-> "on", range |-> Head(lsmTodo).range]]
  /\ LsmDone
  /\ UNCHANGED <<lsmOut, lsmScale, lists, held>>

LsmSleep ==
  /\ LsmAt("sleep")
  /\ lsmOut' = [s \in Sensors |-> lsmReg[s].range]
  /\ LsmDone
  /\ UNCHANGED <<lsmReg, lsmScale, lists, held>>

\* The slip of masking with the bits of the range instead of the others.
MaskedRange(reg, range) == [rate |-> Off, range |-> range]

\* The slip of not masking: the bits of both ranges.
MaskedNot(reg, range) ==
  [reg EXCEPT !.range = IF @ = range THEN range ELSE @ + range]

(* BITS_FS_*_MASK keeps the bits of the data rate.                         *)
Masked(reg, range) == [reg EXCEPT !.range = range]

LsmSelect ==
  /\ LsmAt("select")
  /\ lsmReg' = [lsmReg EXCEPT ![Head(lsmTodo).s] = Masked(@, Head(lsmTodo).range)]
  /\ LsmDone
  /\ UNCHANGED <<lsmOut, lsmScale, lists, held>>

LsmScaled ==
  /\ LsmAt("scale")
  /\ LET s == Head(lsmTodo).s
     IN lsmScale' = [lsmScale EXCEPT ![s] = Head(lsmTodo).range]
  /\ LsmDone
  /\ UNCHANGED <<lsmReg, lsmOut, lists, held>>

(* The elements of a list are written where they are, so who holds the     *)
(* list sees them.                                                         *)
InPlace(s, readings) ==
  /\ lists' = [lists EXCEPT ![s] = readings]
  /\ held' = [held EXCEPT ![s].list = IF held[s].shared THEN readings ELSE @]

(* The burst and the loop over the axes.  xrange is a NameError in Python  *)
(* 3, and a scale of None a TypeError.                                     *)
LsmRead ==
  /\ LsmAt("read")
  /\ LET s == Head(lsmTodo).s
     IN IF python = 3 \/ lsmScale[s] = None3
        THEN LsmAbort /\ UNCHANGED <<lists, held>>
        ELSE /\ LsmDone
             /\ InPlace(s, [frame |-> "chip", range |-> lsmOut[s], scale |-> lsmScale[s]])
  /\ UNCHANGED <<lsmReg, lsmOut, lsmScale>>

(* The accelerometer and the gyroscope get a new list, the magnetometer's  *)
(* is changed in place.                                                    *)
LsmRotate ==
  /\ LsmAt("rotate")
  /\ LET s == Head(lsmTodo).s
         turned == [lists[s] EXCEPT !.frame = IF @ = "chip" THEN "body" ELSE "chip"]
     IN \/ /\ s # "mag"
           /\ lists' = [lists EXCEPT ![s] = turned]
           /\ held' = [held EXCEPT ![s].shared = FALSE]
        \/ /\ s = "mag"
           /\ InPlace(s, turned)
  /\ LsmDone
  /\ UNCHANGED <<lsmReg, lsmOut, lsmScale>>

LsmReturn ==
  /\ LsmAt("return")
  /\ held' = [s \in Sensors |-> IF s \in Head(lsmTodo).s
                                THEN [list |-> lists[s], shared |-> TRUE] ELSE held[s]]
  /\ LsmDone
  /\ UNCHANGED <<lsmReg, lsmOut, lsmScale, lists>>

(* A transfer raises OSError before it has an effect.                      *)
LsmFail ==
  /\ \/ LsmAt("configure") \/ LsmAt("select") \/ LsmAt("read")
  /\ lsmFails < MaxLsmFails
  /\ lsmFails' = lsmFails + 1
  /\ lsmTodo' = <<>>
  /\ UNCHANGED <<python, lsmReg, lsmOut, lsmScale, lists, held, lsmCalls>>

LsmCall(method) ==
  /\ lsmTodo = <<>>
  /\ lsmCalls < MaxLsmCalls
  /\ lsmCalls' = lsmCalls + 1
  /\ lsmTodo' = method
  /\ UNCHANGED <<python, lsmReg, lsmOut, lsmScale, lists, held, lsmFails>>

LsmUser ==
  \/ LsmCall(lsm_initialize)
  \/ /\ lsmCalls > 0
     /\ \/ \E s \in Sensors : LsmCall(lsm_read(s))
        \/ \E s \in Sensors, range \in LsmRange : LsmCall(set_scale(s, range))
        \/ LsmCall(getMotion9) \/ LsmCall(getMotion6)

LsmNext ==
  \/ LsmSample \/ LsmConfigure \/ LsmSleep \/ LsmSelect \/ LsmScaled
  \/ LsmRead \/ LsmRotate \/ LsmReturn \/ LsmFail \/ LsmUser

LsmSpec == LsmInit /\ [][LsmNext]_lsmVars
----------------------------------------------------------------------------
(* As long as no transfer has failed, a scale between two calls is that of *)
(* the range in the register, and changing ranges leaves the sensors on.   *)
ScalesMatch ==
  lsmTodo = <<>> /\ lsmFails = 0 /\ lsmCalls > 0 =>
    \A s \in Sensors : lsmScale[s] = lsmReg[s].range /\ lsmReg[s].rate = "on"

(* Between two calls every reading that the object keeps is in the frame   *)
(* of the MPU9250, by whatever mixture of read_* and read_all it was read, *)
(* as long as no transfer has failed in the middle of a read_all.          *)
KeptInBodyFrame ==
  lsmTodo = <<>> /\ lsmFails = 0 =>
    \A s \in Sensors : lists[s].frame \in {"zero", "body"}

(* "Change rotation of LSM9DS1 like in MPU-9250" says read_all: what       *)
(* getMotion9 and getMotion6 have returned is in that frame.               *)
ReturnedInBodyFrame ==
  lsmTodo = <<>> => \A s \in Sensors : held[s].list.frame \in {"zero", "body"}
=============================================================================
