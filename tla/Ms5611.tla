------------------------------- MODULE Ms5611 -------------------------------
(* Class MS5611 of navio/ms5611.py.  Both conversions of the chip          *)
(* (external) end in one result register, so the class has to read one     *)
(* before it starts the other; update does so with sleeps, and the         *)
(* refresh and read methods leave it to their callers.                     *)
EXTENDS Naturals, Sequences

CONSTANTS MaxBaroCalls,  (* bound: calls of the user *)
          MaxBaroFails   (* bound: failed transfers *)
ASSUME BaroBoundsAssumption == MaxBaroCalls \in Nat /\ MaxBaroFails \in Nat

VARIABLES adc,       (* the result register: what was converted, and in which call *)
          pending,   (* the conversion under way *)
          prom,      (* C1 to C6: how many of them are read *)
          d1, d2,    (* D1 and D2: what was read into them *)
          values,    (* PRES and TEMP: what they were computed from *)
          baroTodo, baroCalls, baroFails

baroVars == <<adc, pending, prom, d1, d2, values, baroTodo, baroCalls, baroFails>>
baroChip == <<adc, pending>>
baroObject == <<prom, d1, d2, values>>

Nothing == [of |-> "nothing", call |-> 0]
Converted == [of : {"pressure", "temperature", "nothing"}, call : 0..MaxBaroCalls]

BaroTypeOK ==
  /\ adc \in Converted /\ pending \in Converted
  /\ prom \in 0..6
  /\ d1 \in Converted /\ d2 \in Converted
  /\ values \in [d1 : Converted, d2 : Converted, prom : 0..6, by : {"none", "update", "user"}]
  /\ baroCalls \in 0..MaxBaroCalls /\ baroFails \in 0..MaxBaroFails

BaroInit ==
  /\ adc = Nothing /\ pending = Nothing
  /\ prom = 0
  /\ d1 = Nothing /\ d2 = Nothing
  /\ values = [d1 |-> Nothing, d2 |-> Nothing, prom |-> 0, by |-> "none"]
  /\ baroTodo = <<>>
  /\ baroCalls = 0 /\ baroFails = 0
----------------------------------------------------------------------------
(* The methods as sequences of accesses.                                   *)
refresh(what) == [op |-> "convert", arg |-> what]
readInto(field) == [op |-> "read", arg |-> field]
calculate(by) == [op |-> "calculate", arg |-> by]
Wait == [op |-> "sleep", arg |-> ""]
readProm == [op |-> "prom", arg |-> ""]

\* The slip of starting both conversions before reading either.
UpdateTogether ==
  <<refresh("pressure"), refresh("temperature"), Wait,
    readInto("d1"), readInto("d2"), calculate("update")>>

update ==
  <<refresh("pressure"), Wait, readInto("d1"),
    refresh("temperature"), Wait, readInto("d2"), calculate("update")>>

baro_initialize ==
  <<readProm, readProm, readProm, readProm, readProm, readProm>> \o update
baro_test == baro_initialize \o update
----------------------------------------------------------------------------
BaroAt(op) == baroTodo # <<>> /\ Head(baroTodo).op = op
BaroDone == baroTodo' = Tail(baroTodo) /\ UNCHANGED <<baroCalls, baroFails>>

(* The chip ends a conversion, within the sleep of 10 ms at the latest.    *)
Convert ==
  /\ adc' = IF pending = Nothing THEN adc ELSE pending
  /\ pending' = Nothing

BaroConverts ==
  /\ pending # Nothing
  /\ Convert
  /\ UNCHANGED <<baroObject, baroTodo, baroCalls, baroFails>>

BaroSleep ==
  /\ BaroAt("sleep")
  /\ Convert
  /\ BaroDone
  /\ UNCHANGED baroObject

(* refreshPressure and refreshTemperature.                                 *)
BaroRefresh ==
  /\ BaroAt("convert")
  /\ pending' = [of |-> Head(baroTodo).arg, call |-> baroCalls]
  /\ BaroDone
  /\ UNCHANGED <<adc, baroObject>>

(* readPressure and readTemperature; the chip answers with zero while it   *)
(* converts, and a second time after it was read.                          *)
BaroRead ==
  /\ BaroAt("read")
  /\ LET result == IF pending = Nothing THEN adc ELSE Nothing
     IN \/ /\ Head(baroTodo).arg = "d1"
           /\ d1' = result
           /\ UNCHANGED d2
        \/ /\ Head(baroTodo).arg = "d2"
           /\ d2' = result
           /\ UNCHANGED d1
  /\ adc' = IF pending = Nothing THEN Nothing ELSE adc
  /\ BaroDone
  /\ UNCHANGED <<pending, prom, values>>

\* The slip of appending the coefficients to those of the last call.
PromAppended == prom + 1

(* initialize reads C1 to C6 into locals and assigns them at its end.      *)
PromRead == IF Len(baroTodo) > 1 /\ baroTodo[2].op = "prom" THEN prom ELSE 6

BaroProm ==
  /\ BaroAt("prom")
  /\ prom' = PromRead
  /\ BaroDone
  /\ UNCHANGED <<baroChip, d1, d2, values>>

BaroCalculate ==
  /\ BaroAt("calculate")
  /\ values' = [d1 |-> d1, d2 |-> d2, prom |-> prom, by |-> Head(baroTodo).arg]
  /\ BaroDone
  /\ UNCHANGED <<baroChip, prom, d1, d2>>

(* A transfer raises OSError.                                              *)
BaroFail ==
  /\ BaroAt("convert") \/ BaroAt("read") \/ BaroAt("prom")
  /\ baroFails < MaxBaroFails
  /\ baroFails' = baroFails + 1
  /\ baroTodo' = <<>>
  /\ UNCHANGED <<baroChip, baroObject, baroCalls>>

BaroCall(method) ==
  /\ baroTodo = <<>>
  /\ baroCalls < MaxBaroCalls
  /\ baroCalls' = baroCalls + 1
  /\ baroTodo' = method
  /\ UNCHANGED <<baroChip, baroObject, baroFails>>

BaroUser ==
  \/ BaroCall(baro_initialize) \/ BaroCall(baro_test)
  \/ /\ prom = 6
     /\ \/ BaroCall(update)
        \/ \E step \in {refresh("pressure"), refresh("temperature"),
                        readInto("d1"), readInto("d2"), calculate("user")} :
             BaroCall(<<step>>)

BaroNext ==
  \/ BaroConverts \/ BaroSleep \/ BaroRefresh \/ BaroRead \/ BaroProm
  \/ BaroCalculate \/ BaroFail \/ BaroUser

BaroSpec == BaroInit /\ [][BaroNext]_baroVars
----------------------------------------------------------------------------
(* What update computes comes from a pressure and a temperature that were  *)
(* both measured in that call, with all six coefficients: whatever the     *)
(* caller has started and not read, and whatever has failed before.        *)
UpdateIsWhole ==
  values.by = "update" =>
    /\ values.d1.of = "pressure" /\ values.d2.of = "temperature"
    /\ values.d1.call = values.d2.call
    /\ values.prom = 6
=============================================================================
