---------------------------- MODULE TruckHardware ----------------------------
(***************************************************************************)
(* The ros2_control hardware of the truck (truck_control/hardware/         *)
(* truck.cpp): its lifecycle callbacks, the cyclic read() and write(), and *)
(* the sysfs PWM channels they drive.  The controller manager runs them    *)
(* one at a time, so each callback is one action; within it, every access  *)
(* to a channel may fail and the callback goes on, or gives up, as the     *)
(* code does.                                                              *)
(*                                                                         *)
(* Time is counted in ticks and kept as ages (t - start_time_s, ...), each *)
(* up to the value its threshold can tell apart.  A duty cycle is          *)
(* abstracted to the part it plays: "neutral" is 1.5 ms, "none" is what a  *)
(* channel has that was never given any.                                   *)
(***************************************************************************)
EXTENDS Integers, Sequences, FiniteSets

CONSTANTS
  JointOrder,   \* the channels of the joints, in the order of the map _joints
  Gear,         \* gears the operator selects, out of 1, 2, 3
  StartDelay,   \* ticks in 3.0 s: the start command is held this long
  StopDelay,    \* ticks in 0.3 s: the truck coasts this long
  BrakeTime,    \* ticks in 0.1 s: the first phase of a change to reverse
  ReverseTime,  \* ticks in 0.3 s: the whole change to reverse
  MaxGap,       \* bound: ticks between two writes
  MaxMoves,     \* bound: lifecycle transitions
  MaxCrashes,   \* bound: crashes of the process
  MaxFails      \* bound: accesses to the PWM files that fail

Joints  == {JointOrder[i] : i \in 1 .. Len(JointOrder)}
Channel == {"horn", "gear"} \cup Joints
Crane   == Joints \ {"steering", "traction"}

ASSUME JointAssumption ==
  /\ JointOrder \in Seq(STRING)
  /\ {"steering", "traction"} \subseteq Joints
  /\ {"horn", "gear"} \cap Joints = {}
ASSUME GearAssumption == Gear \subseteq 1 .. 3
ASSUME TimeAssumption ==
  /\ StartDelay \in Nat \ {0} /\ StopDelay \in Nat \ {0}
  /\ BrakeTime \in Nat \ {0} /\ ReverseTime \in Nat \ {0} /\ BrakeTime <= ReverseTime
  /\ MaxGap \in Nat \ {0}
ASSUME BoundAssumption == MaxMoves \in Nat /\ MaxCrashes \in Nat /\ MaxFails \in Nat

VARIABLES
  lifecycle,     \* the state of the hardware component
  pwm,           \* the PWM channels: exported, on (enabled), duty; and failed accesses
  \* members of TruckHardware
  enable,        \* _enable
  startApplied,  \* _start_applied_command
  gearApplied,   \* _gear_applied_command
  gearState,     \* _gear_state, which read() publishes
  \* statics of write()
  mStart, mEnable, mTraction, reverseMode,
  startAge,      \* t - start_time_s
  stopAge,       \* t - stop_time_s
  backAge,       \* t - start_drive_back_time_s
  \* observers: nothing depends on them
  sounded,       \* ticks the warning horn has sounded without a break
  heldOver,      \* a start was under way when the hardware was activated
  \* what is left of the bounds
  moves, crashes

members == <<enable, startApplied, gearApplied, gearState>>
statics == <<mStart, mEnable, mTraction, reverseMode, startAge, stopAge, backAge>>
observers == <<sounded, heldOver>>
vars == <<lifecycle, pwm, members, statics, observers, moves, crashes>>

-----------------------------------------------------------------------------
Pulse == {"none", "neutral", "warn", "honk", "low", "high",      \* horn and gear
          "angle", "moving", "forward", "brake", "reverse"}      \* joints
Unset == -1      \* whatever the memory of an uninitialised member holds
Sign  == {"back", "still", "ahead"}
Running == {"inactive", "active"}
ChannelOrder == <<"horn", "gear">> \o JointOrder
Command == [start : BOOLEAN, horn : BOOLEAN, gear : Gear, traction : Sign, crane : BOOLEAN]

PwmFiles == [exported : SUBSET Channel, on : SUBSET Channel,
             duty : [Channel -> Pulse], fails : 0 .. MaxFails]

\* Mutant: the age is one tick ahead of its limit.
AgedTooFar(age, dt, limit) == IF age + dt <= limit THEN age + dt ELSE limit + 1
Aged(age, dt, limit) == IF age + dt < limit THEN age + dt ELSE limit

Init ==
  /\ lifecycle = "unconfigured"
  /\ pwm = [exported |-> {}, on |-> {}, duty |-> [c \in Channel |-> "none"], fails |-> 0]
  /\ enable = FALSE /\ startApplied = Unset /\ gearApplied = Unset /\ gearState = Unset
  /\ mStart = FALSE /\ mEnable = FALSE /\ mTraction = "still" /\ reverseMode = FALSE
  /\ startAge = StartDelay /\ stopAge = StopDelay /\ backAge = ReverseTime
  /\ sounded = 0 /\ heldOver = FALSE
  /\ moves = 0 /\ crashes = 0

-----------------------------------------------------------------------------
(***************************************************************************)
(* Accesses to the PWM files.  Each operator gives the set of outcomes:    *)
(* the files after it, and whether the function reports success.           *)
(***************************************************************************)
Failed(p, n) == [p EXCEPT !.fails = @ + n]
Outcome(p, n, success) == [files |-> Failed(p, n), ok |-> success]
SpareFails(p) == MaxFails - p.fails
Lost(cs, p) == IF SpareFails(p) = 0 THEN {{}}
               ELSE {l \in SUBSET cs : Cardinality(l) <= SpareFails(p)}
UpTo(order, n) == {order[i] : i \in 1 .. n}

\* set_duty_cycle on some channels; its result is ignored.  The PWM core keeps
\* the duty cycle of a channel that is not enabled.
SetDuties(p, duties) ==
  {[p EXCEPT !.duty = [c \in Channel |-> IF c \in DOMAIN duties \ lost THEN duties[c] ELSE @[c]],
             !.fails = @ + Cardinality(lost)] :
     lost \in Lost(DOMAIN duties, p)}

\* enable_pwm: the channel is enabled before it gets its period and 1.5 ms
Enabled(p, cs) == [p EXCEPT !.on = @ \cup cs,
                            !.duty = [c \in Channel |-> IF c \in cs THEN "neutral" ELSE @[c]]]
EnableFailures(p, c) ==
  IF SpareFails(p) = 0 THEN {}
  ELSE {Outcome(p, 1, FALSE), Outcome([p EXCEPT !.on = @ \cup {c}], 1, FALSE)}
EnablePwm(p, c) == {Outcome(Enabled(p, {c}), 0, TRUE)} \cup EnableFailures(p, c)

\* start_truck and on_activate enable channels in order and give up at a failure
EnableAll(p, order) ==
  {Outcome(Enabled(p, UpTo(order, Len(order))), 0, TRUE)}
    \cup UNION {EnableFailures(Enabled(p, UpTo(order, i - 1)), order[i]) : i \in 1 .. Len(order)}

\* Mutant: the last joint is forgotten.
StartTruckShort(p) == EnableAll(p, SubSeq(JointOrder, 1, Len(JointOrder) - 1))
StartTruck(p) == EnableAll(p, JointOrder)

\* stop_truck and on_deactivate go on after a failure of disable_pwm
DisableAll(p, cs) ==
  {Outcome([p EXCEPT !.on = @ \ (cs \ kept)], Cardinality(kept), kept = {}) :
     kept \in Lost(cs, p)}

\* Mutant: only the wheels, as in on_deactivate.
StopTruckWheels(p) == DisableAll(p, {"steering", "traction"})
StopTruck(p) == DisableAll(p, Joints)

\* PWM::init and PWM::deinit of the channels in order, up to a failure.  A
\* channel that is exported already stays as it is.
Exported(p, cs) == [p EXCEPT !.exported = @ \cup cs]
ExportAll(p) ==
  {Outcome(Exported(p, Channel), 0, TRUE)}
    \cup {Outcome(Exported(p, UpTo(ChannelOrder, i - 1)), 1, FALSE) :
            i \in IF SpareFails(p) = 0 THEN {} ELSE 1 .. Len(ChannelOrder)}

Unexported(p, cs) ==
  [p EXCEPT !.exported = @ \ cs, !.on = @ \ cs,
            !.duty = [c \in Channel |-> IF c \in cs THEN "none" ELSE @[c]]]
UnexportAll(p) ==
  {Outcome(Unexported(p, Channel), 0, TRUE)}
    \cup {Outcome(Unexported(p, UpTo(ChannelOrder, i - 1)), 1, FALSE) :
            i \in IF SpareFails(p) = 0 THEN {} ELSE 1 .. Len(ChannelOrder)}

-----------------------------------------------------------------------------
(***************************************************************************)
(* Lifecycle callbacks.  One that returns ERROR ends in "finalized", since *)
(* on_error is not overridden.                                             *)
(***************************************************************************)
Move(from, to, outcomes) ==
  /\ moves < MaxMoves /\ moves' = moves + 1
  /\ lifecycle = from
  /\ \E r \in outcomes : pwm' = r.files /\ lifecycle' = IF r.ok THEN to ELSE "finalized"
  /\ sounded' = 0 /\ UNCHANGED crashes

Configure ==
  /\ Move("unconfigured", "inactive", ExportAll(pwm))
  /\ IF lifecycle' = "inactive" THEN enable' = FALSE /\ gearState' = 1
                                ELSE UNCHANGED <<enable, gearState>>
  /\ UNCHANGED <<startApplied, gearApplied, statics, heldOver>>

Cleanup ==
  /\ Move("inactive", "unconfigured", UnexportAll(pwm))
  /\ UNCHANGED <<members, statics, heldOver>>

Activate ==
  /\ Move("inactive", "active", EnableAll(pwm, <<"horn", "gear">>))
  /\ IF lifecycle' = "active" THEN startApplied' = 0 /\ gearApplied' = 2
                              ELSE UNCHANGED <<startApplied, gearApplied>>
  /\ heldOver' = (mStart \/ enable \/ mEnable)
  /\ UNCHANGED <<enable, gearState, statics>>

Deactivate ==
  /\ Move("active", "inactive", DisableAll(pwm, {"horn", "gear", "steering", "traction"}))
  /\ UNCHANGED <<members, statics, heldOver>>

\* on_shutdown is not overridden either: nothing is done to the channels.
Shutdown ==
  /\ \E from \in {"unconfigured"} \cup Running :
       Move(from, "finalized", {Outcome(pwm, 0, TRUE)})
  /\ UNCHANGED <<members, statics, heldOver>>

\* The process ends and is started again; the PWM files stay as they are.
Crash ==
  /\ crashes < MaxCrashes /\ crashes' = crashes + 1
  /\ lifecycle' = "unconfigured" /\ UNCHANGED <<pwm, moves>>
  /\ enable' = FALSE /\ startApplied' = Unset /\ gearApplied' = Unset /\ gearState' = Unset
  /\ mStart' = FALSE /\ mEnable' = FALSE /\ mTraction' = "still" /\ reverseMode' = FALSE
  /\ startAge' = StartDelay /\ stopAge' = StopDelay /\ backAge' = ReverseTime
  /\ sounded' = 0 /\ heldOver' = FALSE

-----------------------------------------------------------------------------
(***************************************************************************)
(* The control cycle: read() and write(), in the states inactive and       *)
(* active alike.                                                           *)
(***************************************************************************)
Read ==
  /\ lifecycle \in Running
  /\ gearState' = gearApplied
  /\ UNCHANGED <<lifecycle, pwm, enable, startApplied, gearApplied, statics,
                 observers, moves, crashes>>

\* Mutant: the horn command goes before the warning.
HornPulseHonkFirst(cmd) ==
  IF cmd.horn THEN "honk" ELSE IF cmd.start /\ ~enable THEN "warn" ELSE "neutral"
HornPulse(cmd) ==
  IF cmd.start /\ ~enable THEN "warn" ELSE IF cmd.horn THEN "honk" ELSE "neutral"

GearPulse(gear) == CASE gear = 1 -> "low" [] gear = 2 -> "neutral" [] gear = 3 -> "high"

\* The gear servo is switched off when the start command falls and on again
\* when the truck stops; whether that succeeds is ignored.
GearOutcomes(p, cmd) ==
  IF mStart /\ ~cmd.start THEN {r.files : r \in DisableAll(p, {"gear"})}
  ELSE IF mEnable /\ ~enable THEN {r.files : r \in EnablePwm(p, "gear")}
  ELSE SetDuties(p, [c \in {"gear"} |-> GearPulse(cmd.gear)])

\* Mutant: the change to reverse has no start of its own.
BackAgeStale(dt, cmd) == Aged(backAge, dt, ReverseTime)
\* The age of the change to reverse: it starts when the traction command turns
\* negative while the motor controller is not in reverse.
BackAge(dt, cmd) ==
  IF enable /\ cmd.start /\ ~reverseMode /\ cmd.traction = "back" /\ mTraction # "back"
  THEN 0 ELSE Aged(backAge, dt, ReverseTime)

ReverseMode(cmd, age) ==
  CASE cmd.traction = "ahead" -> FALSE
    [] cmd.traction = "back" /\ age >= ReverseTime -> TRUE
    [] OTHER -> reverseMode

TractionPulse(cmd, age) ==
  CASE cmd.traction = "ahead" -> "forward"
    [] cmd.traction = "still" -> "neutral"
    [] cmd.traction = "back" -> IF age < BrakeTime THEN "brake"
                                ELSE IF age < ReverseTime THEN "neutral" ELSE "reverse"

\* Mutant: the crane is left as it is when the truck stops.
JointDutiesCraneKept(cmd, age) ==
  IF enable /\ cmd.start
  THEN [c \in Joints |-> CASE c = "steering" -> "angle"
                           [] c = "traction" -> TractionPulse(cmd, age)
                           [] c \in Crane -> IF cmd.crane THEN "moving" ELSE "neutral"]
  ELSE [c \in {"traction"} |-> "neutral"]
\* The duties of the joints: driving, or at rest, when the steering is left as
\* it is.
JointDuties(cmd, age) ==
  IF enable /\ cmd.start
  THEN [c \in Joints |-> CASE c = "steering" -> "angle"
                           [] c = "traction" -> TractionPulse(cmd, age)
                           [] c \in Crane -> IF cmd.crane THEN "moving" ELSE "neutral"]
  ELSE [c \in Joints \ {"steering"} |-> "neutral"]

\* The rest of write() once start_truck and stop_truck have succeeded
FinishWrite(dt, cmd, p) ==
  /\ pwm' \in SetDuties(p, JointDuties(cmd, BackAge(dt, cmd)))
  /\ startApplied' = IF enable /\ cmd.start THEN 1 ELSE 0
  /\ IF enable /\ cmd.start
     THEN gearApplied' = cmd.gear /\ reverseMode' = ReverseMode(cmd, BackAge(dt, cmd))
     ELSE UNCHANGED <<gearApplied, reverseMode>>
  /\ backAge' = BackAge(dt, cmd)
  /\ mStart' = cmd.start /\ mEnable' = enable /\ mTraction' = cmd.traction
  /\ UNCHANGED lifecycle

\* An early return: on_error follows, and there is no write after it.
AbortWrite(p) ==
  /\ pwm' = p /\ lifecycle' = "finalized"
  /\ UNCHANGED <<startApplied, gearApplied, reverseMode, backAge, mStart, mEnable, mTraction>>

Write(dt, cmd) ==
  /\ lifecycle \in Running
  /\ startAge' = IF cmd.start /\ ~mStart THEN 0 ELSE Aged(startAge, dt, StartDelay)
  /\ stopAge' = IF mStart /\ ~cmd.start THEN 0 ELSE Aged(stopAge, dt, StopDelay)
  /\ enable' = IF cmd.start THEN enable \/ startAge' >= StartDelay
                            ELSE enable /\ stopAge' < StopDelay
  /\ \E horn \in SetDuties(pwm, [c \in {"horn"} |-> HornPulse(cmd)]) :
     \E up \in IF ~mEnable /\ enable THEN StartTruck(horn) ELSE {Outcome(horn, 0, TRUE)} :
       \/ ~up.ok /\ AbortWrite(up.files)
       \/ /\ up.ok
          /\ \E gear \in GearOutcomes(up.files, cmd) :
             \E down \in IF mEnable /\ ~enable THEN StopTruck(gear) ELSE {Outcome(gear, 0, TRUE)} :
               \/ ~down.ok /\ AbortWrite(down.files)
               \/ down.ok /\ FinishWrite(dt, cmd, down.files)
  /\ sounded' = IF "horn" \in pwm'.on /\ pwm.duty["horn"] = "warn" /\ pwm'.duty["horn"] = "warn"
                THEN Aged(sounded, dt, StartDelay) ELSE 0
  /\ heldOver' = (heldOver /\ (cmd.start \/ enable))
  /\ UNCHANGED <<gearState, moves, crashes>>

Next ==
  \/ Configure \/ Cleanup \/ Activate \/ Deactivate \/ Shutdown \/ Crash
  \/ Read
  \/ \E dt \in 1 .. MaxGap, cmd \in Command : Write(dt, cmd)

Spec == Init /\ [][Next]_vars

-----------------------------------------------------------------------------
(***************************************************************************)
(* Properties                                                              *)
(***************************************************************************)
TypeOK ==
  /\ lifecycle \in {"unconfigured", "inactive", "active", "finalized"}
  /\ pwm \in PwmFiles
  /\ enable \in BOOLEAN /\ startApplied \in {Unset, 0, 1}
  /\ gearApplied \in {Unset} \cup 1 .. 3 /\ gearState \in {Unset} \cup 1 .. 3
  /\ mStart \in BOOLEAN /\ mEnable \in BOOLEAN /\ mTraction \in Sign /\ reverseMode \in BOOLEAN
  /\ startAge \in 0 .. StartDelay /\ stopAge \in 0 .. StopDelay /\ backAge \in 0 .. ReverseTime
  /\ sounded \in 0 .. StartDelay /\ heldOver \in BOOLEAN
  /\ moves \in 0 .. MaxMoves /\ crashes \in 0 .. MaxCrashes

\* While cycles run, a joint is enabled only if the last write knew the truck
\* as started, whatever transitions, failures and aborted starts there were
\* (start_truck, stop_truck).  After a crash the joints can be left enabled by
\* the process before.
StoppedIsOff ==
  lifecycle \in Running /\ ~mEnable /\ crashes = 0 => pwm.on \cap Joints = {}

\* The hardware reports that the truck is started only while every joint is
\* enabled (write, start_truck, stop_truck), unless it was activated in the
\* middle of a start.
ReportedStart ==
  lifecycle = "active" /\ startApplied = 1 /\ ~heldOver => Joints \subseteq pwm.on

\* The truck is released for driving only after its horn has sounded for
\* StartDelay without a break, unless the start began before the activation or
\* an access to a PWM file, the horn's or another, has failed (write).
WarnedBeforeDrive ==
  [][lifecycle = "active" /\ ~heldOver /\ pwm'.fails = 0 /\ ~enable /\ enable'
       => sounded' >= StartDelay]_vars

\* A write that gives up, the only failed access being the one it gives up for,
\* leaves no traction or crane channel enabled with anything but 1.5 ms.
AbortedIsNeutral ==
  [][lifecycle' = "finalized" /\ pwm'.fails = 1
       /\ (\E dt \in 1 .. MaxGap, cmd \in Command : Write(dt, cmd))
     => \A c \in (Joints \ {"steering"}) \cap pwm'.on :
          pwm'.duty[c] \in {"none", "neutral"}]_vars

\* The traction is never turned from forward straight to reverse (write, the
\* statics reverse_mode and start_drive_back_time_s).
NoShiftUnderPower ==
  [][pwm.duty["traction"] = "forward" /\ pwm'.fails = 0 => pwm'.duty["traction"] # "reverse"]_vars

-----------------------------------------------------------------------------
(***************************************************************************)
(* What each of the safety properties needs to be inductive.               *)
(***************************************************************************)
\* Before a configuration the joints are off, too.
StoppedInv ==
  crashes = 0 /\ (lifecycle = "unconfigured" \/ (lifecycle \in Running /\ ~mEnable))
    => pwm.on \cap Joints = {}

\* The static m_enable is what stands between the joints and the report.
StartedInv ==
  lifecycle = "active" /\ ~heldOver =>
    /\ mEnable => Joints \subseteq pwm.on
    /\ startApplied = 1 => mEnable

\* A start under way has sounded the horn for as long as it lasts.
WarnInv ==
  lifecycle = "active" /\ pwm.fails = 0 =>
    /\ "horn" \in pwm.on
    /\ ~heldOver /\ mStart /\ ~enable => pwm.duty["horn"] = "warn" /\ sounded >= startAge

\* The write that turned the traction forward left no reverse mode behind.
ShiftInv ==
  pwm.fails = 0 /\ pwm.duty["traction"] = "forward" => ~reverseMode /\ mTraction # "back"

\* The write that changed _enable put the joints to rest, so that the next one,
\* which enables or disables them, finds them so.
RestInv ==
  pwm.fails = 0 =>
    /\ lifecycle \in Running /\ enable # mEnable =>
         \A c \in Joints \ {"steering"} : pwm.duty[c] \in {"none", "neutral"}
    /\ lifecycle = "unconfigured" /\ mEnable => \A c \in Channel : pwm.duty[c] = "none"

-----------------------------------------------------------------------------
\* The comment at truck.cpp:420 on what deactivation does: "Disable all PWM
\* channels".
DeactivatedIsOff == [][Deactivate /\ lifecycle' = "inactive" => pwm'.on = {}]_vars
=============================================================================
