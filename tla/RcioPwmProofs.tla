---------------------------- MODULE RcioPwmProofs ----------------------------
(***************************************************************************)
(* Theorems about RcioPwm for every value of its constants: any number of  *)
(* channels, groups, frequencies and GPIO callers, and any bounds.         *)
(***************************************************************************)
EXTENDS RcioPwm, TLAPS

\* The states the PWM core can hold for a channel.
LEMMA UnexportedType == Unexported \in PwmState
BY FreqAssumption DEF Unexported, PwmState

\* A write to one of the files enable, duty_cycle and period leaves a state.
LEMMA ChangesType == ASSUME NEW s \in PwmState PROVE Changes(s) \subseteq PwmState
BY DEF Changes, PwmState

\* What rcio_pwm_get_state fills in at the end of an export is a state too.
LEMMA ExportedType ==
  ASSUME TypeOK, NEW c \in Channel, Exported(c)
  PROVE  state' \in [Channel -> PwmState] /\ exported' \subseteq Channel
<1>1. GroupOf[c] \in Group
  BY ChannelAssumption
<1>2. frequencies[GroupOf[c]] \in Freq /\ InitFreq \in Freq
  BY <1>1, FreqAssumption DEF TypeOK
<1>3. [enabled |-> FALSE, pulse |-> values[c] # 0,
       freq |-> IF AdvTimer THEN frequencies[GroupOf[c]] ELSE InitFreq] \in PwmState
  BY <1>2 DEF PwmState
<1> QED
  BY <1>3 DEF TypeOK, Exported

\* Every static, every register and every place of a thread keeps its type.
THEOREM TypeCorrect == Spec => []TypeOK
<1> USE ChannelAssumption, GroupAssumption, FreqAssumption, BoundAssumption
<1>1. Init => TypeOK
  <2> SUFFICES ASSUME Init PROVE TypeOK
    OBVIOUS
  <2>1. values \in [Channel -> Duty] /\ devDuty \in [Channel -> Duty]
    BY DEF Init, Silent, Duty
  <2>2. state \in [Channel -> PwmState]
    BY UnexportedType DEF Init
  <2>3. at \in [Updater -> {"idle", "load", "add", "snapshot", "arm", "pending", "clear",
                            "notice", "send", "commit", "served", "window", "zero", "stream"}]
    BY DEF Init
  <2>4. /\ someUpdated \in [Updater -> BOOLEAN]
        /\ stage \in [Updater -> Group] /\ loaded \in [Updater -> Int]
    BY DEF Init
  <2>5. /\ frequencies \in [Group -> Freq] /\ newFrequencies \in [Group -> Freq]
        /\ devFreq \in [Group -> Freq] /\ required \in [Group -> BOOLEAN]
    BY DEF Init
  <2>6. op \in [Channel -> {"idle", "check", "frequency", "flag", "duty", "arm",
                            "zero", "force", "disarm", "export"}]
    BY DEF Init
  <2>7. armed \in BOOLEAN /\ noticed \in BOOLEAN
    BY DEF Init
  <2>8. /\ ignored \subseteq Ignorable
        /\ exported \subseteq Channel /\ devExported \subseteq Channel
    BY DEF Init
  <2>9. /\ armLeft \in 0 .. ArmTicks /\ zeroCountdown \in Int
        /\ ops \in 0 .. MaxOps /\ forces \in 0 .. MaxForces
        /\ fails \in 0 .. MaxFails
    BY DEF Init
  <2> QED
    BY <2>1, <2>2, <2>3, <2>4, <2>5, <2>6, <2>7, <2>8, <2>9 DEF TypeOK
<1>2. TypeOK /\ [Next]_vars => TypeOK'
  <2> SUFFICES ASSUME TypeOK, [Next]_vars PROVE TypeOK'
    OBVIOUS
  <2> USE DEF TypeOK, driverVars, freqVars, cycleVars, coreVars, deviceVars, bounds
  <2>1. ASSUME NEW u \in Updater, UpdateStep(u) PROVE TypeOK'
    <3> USE DEF Go, Return, SpiWrite
    <3>1. CASE Snapshot(u)
      BY <3>1 DEF Snapshot
    <3>2. CASE UpdateArmed(u)
      BY <3>2 DEF UpdateArmed
    <3>3. CASE StartClear(u)
      BY <3>3 DEF StartClear
    <3>4. CASE ClearOutputs(u)
      BY <3>4 DEF ClearOutputs, Silent, Duty
    <3>5. CASE NoticeUpdate(u)
      BY <3>5 DEF NoticeUpdate
    <3>6. CASE PickGroup(u)
      BY <3>6 DEF PickGroup
    <3>7. CASE NothingPending(u)
      BY <3>7 DEF NothingPending
    <3>8. CASE SendFrequency(u)
      BY <3>8 DEF SendFrequency
    <3>9. CASE CommitFrequency(u)
      BY <3>9 DEF CommitFrequency
    <3>10. CASE FrequencyServed(u)
      BY <3>10 DEF FrequencyServed
    <3>11. CASE LoadCountdown(u)
      <4>1. zeroCountdown' \in Int
        BY <3>11 DEF LoadCountdown
      <4>2. loaded' = [loaded EXCEPT ![u] = zeroCountdown']
        BY <3>11 DEF LoadCountdown
      <4> HIDE DEF TypeOK
      <4>3. loaded' \in [Updater -> Int]
        BY <4>1, <4>2 DEF TypeOK
      <4> QED
        BY <3>11, <4>1, <4>3 DEF LoadCountdown, TypeOK
    <3>12. CASE ZeroValues(u)
      BY <3>12 DEF ZeroValues, Duty
    <3>13. CASE StreamValues(u)
      BY <3>13 DEF StreamValues
    <3> QED
      BY <2>1, <3>1, <3>2, <3>3, <3>4, <3>5, <3>6, <3>7, <3>8, <3>9, <3>10,
         <3>11, <3>12, <3>13 DEF UpdateStep
  <2>2. ASSUME NEW u \in GpioCaller, ForceStep(u) PROVE TypeOK'
    <3>1. u \in Updater
      BY DEF Updater
    <3>2. CASE FindRunning(u)
      BY <3>1, <3>2 DEF FindRunning, Go
    <3>3. CASE LoadForce(u)
      BY <3>1, <3>3 DEF LoadForce, Go
    <3>4. CASE AddForce(u)
      BY <3>1, <3>4 DEF AddForce, Go
    <3> QED
      BY <2>2, <3>2, <3>3, <3>4 DEF ForceStep
  <2>3. ASSUME NEW c \in Channel, StartApply(c) PROVE TypeOK'
    <3>1. PICK s \in Changes(state[c]) :
            /\ Call(c, "idle", IF s.enabled THEN "check" ELSE "zero")
            /\ state' = [state EXCEPT ![c] = s]
      BY <2>3 DEF StartApply
    <3>2. s \in PwmState
      BY <3>1, ChangesType
    <3> QED
      BY <2>3, <3>1, <3>2 DEF StartApply, Call
  <2>4. ASSUME NEW c \in Channel, RequestPin(c) PROVE TypeOK'
    <3>1. ignored' = ignored /\ state' \in [Channel -> PwmState] /\ exported' \subseteq Channel
      BY <2>4, ExportedType DEF RequestPin
    <3> QED
      BY <2>4, <3>1 DEF RequestPin, Call
  <2>5. ASSUME NEW c \in Channel, FreePin(c) PROVE TypeOK'
    BY <2>5 DEF FreePin, Call, SpiWrite, Unexported, PwmState, Duty
  <2>6. ASSUME NEW c \in Channel, CallStep(c) PROVE TypeOK'
    <3> USE DEF Call, SpiWrite, PwmState, Duty
    <3>1. CASE IgnoreWrite(c)
      BY <3>1 DEF IgnoreWrite
    <3>2. CASE AcceptWrite(c)
      BY <3>2 DEF AcceptWrite
    <3>3. CASE ConfigFrequency(c)
      <4>1. GroupOf[c] \in Group /\ state[c].freq \in Freq
        OBVIOUS
      <4>2. /\ frequencies' \in [Group -> Freq]
            /\ newFrequencies' \in [Group -> Freq]
            /\ required' \in [Group -> BOOLEAN]
        BY <3>3, <4>1 DEF ConfigFrequency
      <4> QED
        BY <3>3, <4>2 DEF ConfigFrequency
    <3>10. CASE RequireUpdate(c)
      BY <3>10 DEF RequireUpdate
    <3>4. CASE ConfigDuty(c)
      BY <3>4 DEF ConfigDuty
    <3>5. CASE ArmAfterConfig(c)
      BY <3>5 DEF ArmAfterConfig
    <3>6. CASE ZeroValue(c)
      BY <3>6 DEF ZeroValue
    <3>7. CASE ForceUpdatePin(c)
      BY <3>7 DEF ForceUpdatePin
    <3>8. CASE Disarm(c)
      BY <3>8 DEF Disarm
    <3>9. CASE ExportPin(c)
      <4>1. state' \in [Channel -> PwmState] /\ exported' \subseteq Channel
        BY <3>9, ExportedType DEF ExportPin
      <4>2. devExported' \subseteq Channel
        BY <3>9 DEF ExportPin
      <4>3. fails' \in 0 .. MaxFails
        BY <3>9 DEF ExportPin
      <4> QED
        BY <3>9, <4>1, <4>2, <4>3 DEF ExportPin
    <3> QED
      BY <2>6, <3>1, <3>2, <3>3, <3>4, <3>5, <3>6, <3>7, <3>8, <3>9,
         <3>10 DEF CallStep
  <2>7. CASE StoreIgnoreMask
    BY <2>7 DEF StoreIgnoreMask
  <2>8. CASE StoreHeartbeat
    BY <2>8 DEF StoreHeartbeat
  <2>9. CASE Tick
    BY <2>9 DEF Tick
  <2>10. CASE UNCHANGED vars
    BY <2>10 DEF vars
  <2> QED
    BY <2>1, <2>2, <2>3, <2>4, <2>5, <2>6, <2>7, <2>8, <2>9, <2>10 DEF Next
<1> QED
  BY <1>1, <1>2, PTL DEF Spec

-----------------------------------------------------------------------------
(***************************************************************************)
(* What the updates leave alone.                                           *)
(***************************************************************************)

\* An update never touches a call or an export, and changes the values of the
\* driver only by zeroing some of them.
LEMMA UpdateFrame ==
  ASSUME NEW u \in Updater, UpdateStep(u)
  PROVE  /\ UNCHANGED <<coreVars, ignored>>
         /\ \/ UNCHANGED values
            \/ values' = [c \in Channel |-> IF c \in ZeroedChannels THEN 0 ELSE values[c]]
BY DEF UpdateStep, Snapshot, UpdateArmed, StartClear, ClearOutputs, NoticeUpdate,
       PickGroup, NothingPending, SendFrequency, CommitFrequency, FrequencyServed,
       LoadCountdown, ZeroValues, StreamValues, driverVars

\* An update writes the output registers by clearing them or by streaming.
LEMMA UpdateOutputs ==
  ASSUME NEW u \in Updater, UpdateStep(u)
  PROVE  \/ UNCHANGED devDuty
         \/ devDuty' = Silent /\ at[u] = "clear"
         \/ devDuty' = values /\ UNCHANGED values /\ at[u] = "stream"
<1> USE DEF SpiWrite, driverVars, deviceVars
<1>1. CASE ClearOutputs(u)
  BY <1>1 DEF ClearOutputs, Go
<1>2. CASE StreamValues(u)
  BY <1>2 DEF StreamValues
<1>3. CASE ~ClearOutputs(u) /\ ~StreamValues(u)
  BY <1>3 DEF UpdateStep, Snapshot, UpdateArmed, StartClear, NoticeUpdate, PickGroup,
       NothingPending, SendFrequency, CommitFrequency, FrequencyServed, LoadCountdown,
       ZeroValues
<1> QED
  BY <1>1, <1>2, <1>3

\* The counter of lost transfers never goes back to 0.
LEMMA FailsGrow == ASSUME TypeOK, Next PROVE fails' = 0 => fails = 0
<1> USE DEF bounds, SpiWrite, TypeOK
<1>1. ASSUME NEW u \in Updater, UpdateStep(u) PROVE fails' = 0 => fails = 0
  BY <1>1 DEF UpdateStep, Snapshot, UpdateArmed, StartClear, ClearOutputs, NoticeUpdate,
       PickGroup, NothingPending, SendFrequency, CommitFrequency, FrequencyServed,
       LoadCountdown, ZeroValues, StreamValues
<1>2. ASSUME NEW u \in GpioCaller, ForceStep(u) PROVE fails' = 0 => fails = 0
  BY <1>2 DEF ForceStep, FindRunning, LoadForce, AddForce
<1>3. ASSUME NEW c \in Channel, StartApply(c) \/ RequestPin(c) \/ FreePin(c)
      PROVE  fails' = 0 => fails = 0
  BY <1>3 DEF StartApply, RequestPin, FreePin
<1>4. ASSUME NEW c \in Channel, CallStep(c) PROVE fails' = 0 => fails = 0
  BY <1>4 DEF CallStep, IgnoreWrite, AcceptWrite, ConfigFrequency, RequireUpdate, ConfigDuty,
       ArmAfterConfig, ZeroValue, ForceUpdatePin, Disarm, ExportPin
<1>5. StoreIgnoreMask \/ StoreHeartbeat \/ Tick => (fails' = 0 => fails = 0)
  BY DEF StoreIgnoreMask, StoreHeartbeat, Tick
<1> QED
  BY <1>1, <1>2, <1>3, <1>4, <1>5 DEF Next

-----------------------------------------------------------------------------
(***************************************************************************)
(* Between calls, a pulse in the driver is the pulse that was asked for.   *)
(***************************************************************************)

\* The statics start out as the calls leave them.
LEMMA CallInvInit == Init => CallInv
BY DEF Init, CallInv, CallInvAt, Matches, Silent

\* A channel without a pulse may be exported, or be refused.
LEMMA ExportKeepsCallInv ==
  ASSUME TypeOK, CallInv, NEW c \in Channel, c \notin exported, values[c] = 0,
         UNCHANGED values, op' = [op EXCEPT ![c] = "idle"],
         Exported(c) \/ UNCHANGED <<exported, state>>
  PROVE  CallInv'
<1>1. \A d \in Channel \ {c} : state'[d] = state[d] /\ op'[d] = op[d]
  BY DEF Exported, TypeOK
<1>2. op'[c] = "idle" /\ values'[c] = 0
  BY DEF TypeOK
<1>3. CallInvAt(c)'
  BY <1>2 DEF CallInvAt, Matches
<1>4. ASSUME NEW d \in Channel \ {c} PROVE CallInvAt(d)'
  <2>1. CallInvAt(d)
    BY DEF CallInv
  <2>2. state'[d] = state[d] /\ op'[d] = op[d] /\ values'[d] = values[d]
    BY <1>1
  <2>3. d \in exported' <=> d \in exported
    BY DEF Exported
  <2>4. Matches(d) <=> Matches(d)'
    BY <2>2, <2>3, Zenon DEF Matches
  <2> QED
    BY <2>1, <2>2, <2>3, <2>4, Zenon DEF CallInvAt
<1> QED
  BY <1>3, <1>4 DEF CallInv

\* No step of an updater, a caller of the PWM core or the clock breaks it.
LEMMA CallInvStep == TypeOK /\ CallInv /\ [Next]_vars => CallInv'
<1> SUFFICES ASSUME TypeOK, CallInv, [Next]_vars PROVE CallInv'
  OBVIOUS
<1>1. ASSUME UNCHANGED <<values, exported, state, op>> PROVE CallInv'
  BY <1>1 DEF CallInv, CallInvAt, Matches
<1>2. ASSUME NEW u \in Updater, UpdateStep(u) PROVE CallInv'
  <2>1. CASE UNCHANGED values
    BY <1>1, <1>2, <2>1, UpdateFrame DEF coreVars
  <2>2. CASE values' = [c \in Channel |-> IF c \in ZeroedChannels THEN 0 ELSE values[c]]
    <3>1. UNCHANGED <<exported, state, op>>
      BY <1>2, UpdateFrame DEF coreVars
    <3>2. \A c \in Channel : values'[c] \in {0, values[c]}
      BY <2>2
    <3> QED
      BY <3>1, <3>2 DEF CallInv, CallInvAt, Matches
  <2> QED
    BY <1>2, <2>1, <2>2, UpdateFrame
<1>3. ASSUME NEW u \in GpioCaller, ForceStep(u) PROVE CallInv'
  BY <1>1, <1>3 DEF ForceStep, FindRunning, LoadForce, AddForce, driverVars, coreVars
<1>4. ASSUME NEW c \in Channel, StartApply(c) PROVE CallInv'
  <2> PICK s \in Changes(state[c]) :
         /\ Call(c, "idle", IF s.enabled THEN "check" ELSE "zero")
         /\ state' = [state EXCEPT ![c] = s]
    BY <1>4 DEF StartApply
  <2> UNCHANGED <<values, exported>> /\ c \in exported
    BY <1>4 DEF StartApply, driverVars
  <2>1. s \in PwmState
    BY ChangesType DEF TypeOK
  <2>2. state'[c] = s /\ op'[c] = IF s.enabled THEN "check" ELSE "zero"
    BY DEF Call, TypeOK
  <2>3. \A d \in Channel \ {c} : state'[d] = state[d] /\ op'[d] = op[d]
    BY DEF Call, TypeOK
  <2> QED
    BY <2>1, <2>2, <2>3 DEF CallInv, CallInvAt, Matches, PwmState
<1>5. ASSUME NEW c \in Channel, RequestPin(c) PROVE CallInv'
  <2>1. UNCHANGED values /\ c \notin exported /\ op[c] = "idle"
    BY <1>5 DEF RequestPin, Call, driverVars
  <2>2. values[c] = 0
    BY <2>1 DEF CallInv, CallInvAt, Matches
  <2>3. \/ op' = [op EXCEPT ![c] = "idle"] /\ Exported(c)
        \/ op' = [op EXCEPT ![c] = "export"] /\ UNCHANGED <<exported, state>>
    BY <1>5 DEF RequestPin, Call
  <2>4. CASE op' = [op EXCEPT ![c] = "idle"] /\ Exported(c)
    BY <2>1, <2>2, <2>4, ExportKeepsCallInv
  <2>5. CASE op' = [op EXCEPT ![c] = "export"] /\ UNCHANGED <<exported, state>>
    BY <2>1, <2>2, <2>5 DEF CallInv, CallInvAt, Matches, TypeOK
  <2> QED
    BY <2>3, <2>4, <2>5
<1>6. ASSUME NEW c \in Channel, FreePin(c) PROVE CallInv'
  BY <1>6 DEF FreePin, Call, CallInv, CallInvAt, Matches, TypeOK
<1>7. ASSUME NEW c \in Channel, CallStep(c) PROVE CallInv'
  <2> USE DEF Call, CallInv, CallInvAt, Matches, TypeOK
  <2>1. CASE IgnoreWrite(c)
    BY <2>1 DEF IgnoreWrite
  <2>2. CASE AcceptWrite(c)
    BY <2>2 DEF AcceptWrite, driverVars
  <2>3. CASE ConfigFrequency(c)
    BY <2>3 DEF ConfigFrequency
  <2>10. CASE RequireUpdate(c)
    BY <2>10 DEF RequireUpdate
  <2>4. CASE ConfigDuty(c)
    BY <2>4 DEF ConfigDuty, PwmState
  <2>5. CASE ArmAfterConfig(c)
    BY <2>5 DEF ArmAfterConfig
  <2>6. CASE ZeroValue(c)
    BY <2>6 DEF ZeroValue
  <2>7. CASE ForceUpdatePin(c)
    BY <2>7 DEF ForceUpdatePin, driverVars
  <2>8. CASE Disarm(c)
    BY <2>8 DEF Disarm
  <2>9. CASE ExportPin(c)
    <3>1. UNCHANGED values /\ op[c] = "export" /\ op' = [op EXCEPT ![c] = "idle"]
      BY <2>9 DEF ExportPin, driverVars
    <3>2. Exported(c) \/ UNCHANGED <<exported, state>>
      BY <2>9 DEF ExportPin
    <3>3. c \notin exported /\ values[c] = 0
      BY <3>1
    <3> QED
      BY <3>1, <3>2, <3>3, ExportKeepsCallInv
  <2> QED
    BY <1>7, <2>1, <2>2, <2>3, <2>4, <2>5, <2>6, <2>7, <2>8, <2>9, <2>10 DEF CallStep
<1>8. CASE StoreIgnoreMask \/ StoreHeartbeat \/ Tick
  BY <1>1, <1>8 DEF StoreIgnoreMask, StoreHeartbeat, Tick, coreVars
<1>9. CASE UNCHANGED vars
  BY <1>1, <1>9 DEF vars, driverVars, coreVars
<1> QED
  BY <1>2, <1>3, <1>4, <1>5, <1>6, <1>7, <1>8, <1>9 DEF Next

\* rcio_pwm_apply and rcio_pwm_free never leave a pulse behind that the state
\* of the channel does not ask for.
THEOREM ValueFollowsStateHolds == Spec => []ValueFollowsState
<1>1. CallInv => ValueFollowsState
  BY DEF CallInv, CallInvAt, Matches, ValueFollowsState
<1> QED
  BY <1>1, TypeCorrect, CallInvInit, CallInvStep, PTL DEF Spec

-----------------------------------------------------------------------------
(***************************************************************************)
(* Without lost transfers, a disabled channel gives no pulse.              *)
(***************************************************************************)

\* Nothing is exported at first.
LEMMA OffInvInit == Init => OffInv
BY DEF Init, OffInv, OffInvAt

\* A stream finds no pulse to send on a channel that is off or being exported.
LEMMA ValuesOfOff ==
  ASSUME CallInv, NEW c \in Channel
  PROVE  /\ c \in exported /\ ~state[c].enabled /\ op[c] \in {"idle", "disarm"} => values[c] = 0
         /\ op[c] = "export" => values[c] = 0
<1>1. CallInvAt(c)
  BY DEF CallInv
<1>2. values[c] # 0 /\ op[c] = "idle" => state[c].enabled
  BY <1>1 DEF CallInvAt, Matches
<1> QED
  BY <1>1, <1>2 DEF CallInvAt

\* As long as no transfer is lost, every step keeps disabled channels silent.
LEMMA OffInvStep == TypeOK /\ CallInv /\ OffInv /\ [Next]_vars => OffInv'
<1> SUFFICES ASSUME TypeOK, CallInv, OffInv, [Next]_vars, fails' = 0,
                    NEW d \in Channel \ Ignorable
             PROVE  OffInvAt(d)'
  BY DEF OffInv
<1>0. fails = 0 /\ OffInvAt(d)
  BY FailsGrow DEF OffInv, vars, bounds
<1>1. ASSUME UNCHANGED <<devDuty, exported, state, op>> PROVE OffInvAt(d)'
  BY <1>0, <1>1 DEF OffInvAt
<1>2. ASSUME NEW u \in Updater, UpdateStep(u) PROVE OffInvAt(d)'
  <2>1. UNCHANGED <<exported, state, op>>
    BY <1>2, UpdateFrame DEF coreVars
  <2>2. devDuty'[d] \in {0, devDuty[d], values[d]}
    BY <1>2, UpdateOutputs DEF Silent
  <2> QED
    BY <1>0, <2>1, <2>2, ValuesOfOff DEF OffInvAt
<1>3. ASSUME NEW u \in GpioCaller, ForceStep(u) PROVE OffInvAt(d)'
  BY <1>1, <1>3 DEF ForceStep, FindRunning, LoadForce, AddForce, coreVars, deviceVars
<1>4. ASSUME NEW c \in Channel, StartApply(c) PROVE OffInvAt(d)'
  <2>1. PICK s \in Changes(state[c]) :
          /\ Call(c, "idle", IF s.enabled THEN "check" ELSE "zero")
          /\ state' = [state EXCEPT ![c] = s]
    BY <1>4 DEF StartApply
  <2>2. UNCHANGED <<devDuty, exported>>
    BY <1>4 DEF StartApply, deviceVars
  <2>3. CASE d = c
    BY <2>1, <2>3 DEF Call, OffInvAt, TypeOK
  <2>4. CASE d # c
    BY <1>0, <2>1, <2>2, <2>4 DEF Call, OffInvAt, TypeOK
  <2> QED
    BY <2>3, <2>4
<1>5. ASSUME NEW c \in Channel, RequestPin(c) PROVE OffInvAt(d)'
  <2>1. UNCHANGED devDuty
    BY <1>5 DEF RequestPin, deviceVars
  <2>2. CASE c \in ignored /\ Exported(c) /\ Call(c, "idle", "idle")
    <3>1. d # c
      BY <2>2 DEF TypeOK
    <3>2. state'[d] = state[d] /\ op'[d] = op[d]
      BY <2>2, <3>1 DEF Exported, Call, TypeOK
    <3>3. d \in exported' <=> d \in exported
      BY <2>2, <3>1 DEF Exported
    <3> QED
      BY <1>0, <2>1, <3>2, <3>3 DEF OffInvAt
  <2>3. CASE ~Running /\ Call(c, "idle", "export") /\ UNCHANGED <<exported, state>>
    <3>1. devDuty'[d] = 0
      BY <2>1, <2>3 DEF Running
    <3> QED
      BY <3>1 DEF OffInvAt
  <2> QED
    BY <1>5, <2>2, <2>3 DEF RequestPin
<1>6. ASSUME NEW c \in Channel, FreePin(c) PROVE OffInvAt(d)'
  <2>1. UNCHANGED devDuty
    BY <1>6 DEF FreePin
  <2>2. exported' = exported \ {c} /\ \A e \in Channel \ {c} : state'[e] = state[e]
    BY <1>6 DEF FreePin, TypeOK
  <2>3. \A e \in Channel : op'[e] = op[e]
    BY <1>6 DEF FreePin, Call, TypeOK
  <2> QED
    BY <1>0, <2>1, <2>2, <2>3 DEF OffInvAt
<1>7. ASSUME NEW c \in Channel, CallStep(c) PROVE OffInvAt(d)'
  <2>0. ASSUME UNCHANGED <<exported, state>>, op'[d] = op[d], devDuty'[d] = devDuty[d]
        PROVE  OffInvAt(d)'
    BY <1>0, <2>0 DEF OffInvAt
  <2>1. ASSUME UNCHANGED <<exported, state, devDuty>>, op' = [op EXCEPT ![c] = op'[c]],
               \/ op'[c] \in {"frequency", "flag", "duty", "arm", "force"}
               \/ op'[c] = "idle" /\ state[c].enabled
        PROVE  OffInvAt(d)'
    <3>1. CASE d = c
      BY <2>1, <3>1 DEF OffInvAt
    <3>2. CASE d # c
      BY <2>0, <2>1, <3>2 DEF TypeOK
    <3> QED
      BY <3>1, <3>2
  <2>2. CASE IgnoreWrite(c)
    BY <2>1, <2>2 DEF IgnoreWrite, Call, TypeOK, deviceVars
  <2>3. CASE AcceptWrite(c)
    BY <2>1, <2>3 DEF AcceptWrite, Call, TypeOK, deviceVars
  <2>4. CASE ConfigFrequency(c)
    BY <2>1, <2>4 DEF ConfigFrequency, Call, TypeOK, deviceVars
  <2>11. CASE RequireUpdate(c)
    BY <2>1, <2>11 DEF RequireUpdate, Call, TypeOK, deviceVars
  <2>5. CASE ConfigDuty(c)
    BY <2>1, <2>5 DEF ConfigDuty, Call, TypeOK, deviceVars
  <2>6. CASE ArmAfterConfig(c)
    <3>1. state[c].enabled
      BY <2>6 DEF ArmAfterConfig, Call, CallInv, CallInvAt
    <3> QED
      BY <2>1, <2>6, <3>1 DEF ArmAfterConfig, Call, TypeOK, deviceVars
  <2>7. CASE ZeroValue(c)
    BY <2>1, <2>7 DEF ZeroValue, Call, TypeOK, deviceVars
  <2>8. CASE ForceUpdatePin(c)
    <3>1. devDuty' = [devDuty EXCEPT ![c] = values[c]] /\ values[c] = 0
      BY <1>0, <2>8 DEF ForceUpdatePin, SpiWrite, Call, CallInv, CallInvAt, TypeOK
    <3>2. UNCHANGED <<exported, state>> /\ op' = [op EXCEPT ![c] = "disarm"]
      BY <2>8 DEF ForceUpdatePin, Call
    <3>3. CASE d = c
      BY <3>1, <3>3 DEF OffInvAt, TypeOK
    <3>4. CASE d # c
      BY <2>0, <3>1, <3>2, <3>4 DEF TypeOK
    <3> QED
      BY <3>3, <3>4
  <2>9. CASE Disarm(c)
    <3>1. /\ UNCHANGED <<exported, state, devDuty>> /\ op[c] = "disarm"
          /\ op' = [op EXCEPT ![c] = "idle"]
      BY <2>9 DEF Disarm, Call, deviceVars
    <3>2. CASE d = c
      BY <1>0, <3>1, <3>2 DEF OffInvAt, CallInv, CallInvAt, TypeOK
    <3>3. CASE d # c
      BY <2>0, <3>1, <3>3 DEF TypeOK
    <3> QED
      BY <3>2, <3>3
  <2>10. CASE ExportPin(c)
    <3>1. UNCHANGED devDuty /\ op[c] = "export" /\ op' = [op EXCEPT ![c] = "idle"]
      BY <2>10 DEF ExportPin, Call
    <3>2. Exported(c) \/ UNCHANGED <<exported, state>>
      BY <2>10 DEF ExportPin
    <3>3. CASE d = c
      BY <1>0, <3>1, <3>3 DEF OffInvAt
    <3>4. CASE d # c
      <4>1. state'[d] = state[d] /\ op'[d] = op[d]
        BY <3>1, <3>2, <3>4 DEF Exported, TypeOK
      <4>2. d \in exported' <=> d \in exported
        BY <3>2, <3>4 DEF Exported
      <4> QED
        BY <1>0, <3>1, <4>1, <4>2 DEF OffInvAt
    <3> QED
      BY <3>3, <3>4
  <2> QED
    BY <1>7, <2>2, <2>3, <2>4, <2>5, <2>6, <2>7, <2>8, <2>9, <2>10, <2>11 DEF CallStep
<1>8. CASE StoreIgnoreMask \/ StoreHeartbeat \/ Tick
  BY <1>1, <1>8 DEF StoreIgnoreMask, StoreHeartbeat, Tick, coreVars, deviceVars
<1>9. CASE UNCHANGED vars
  BY <1>1, <1>9 DEF vars, coreVars, deviceVars
<1> QED
  BY <1>2, <1>3, <1>4, <1>5, <1>6, <1>7, <1>8, <1>9 DEF Next

\* Whatever streams overlap it, a disabling write that gets through leaves the
\* output of the channel at 0, and an export never hands out a running output.
THEOREM DisabledIsOffHolds == Spec => []DisabledIsOff
<1>1. TypeOK /\ OffInv => DisabledIsOff
  BY DEF OffInv, OffInvAt, DisabledIsOff, TypeOK
<1> QED
  BY <1>1, TypeCorrect, CallInvInit, CallInvStep, OffInvInit, OffInvStep, PTL DEF Spec

-----------------------------------------------------------------------------
(***************************************************************************)
(* With one updater, a noticed frequency update means cleared outputs.     *)
(***************************************************************************)

\* No frequency update is noticed at first.
LEMMA ClearInvInit == Init => ClearInv
BY DEF Init, ClearInv, Updater

\* The body of ClearInv, for the states the implication speaks of.
Cleared ==
  /\ noticed \/ at["worker"] = "notice" => devDuty = Silent
  /\ at["worker"] \in {"zero", "stream"} => ~noticed
  /\ at["worker"] \in {"send", "commit", "served"} /\ someUpdated["worker"] => noticed

\* A call changes an output only by forcing it to 0.
LEMMA CallOutputs ==
  ASSUME TypeOK, CallInv, NEW c \in Channel, CallStep(c)
  PROVE  /\ UNCHANGED <<at, someUpdated, noticed>>
         /\ UNCHANGED devDuty \/ devDuty' = [devDuty EXCEPT ![c] = 0]
<1> USE DEF driverVars, cycleVars, deviceVars
<1>1. CASE ForceUpdatePin(c)
  BY <1>1 DEF ForceUpdatePin, SpiWrite, Call, CallInv, CallInvAt
<1>2. CASE ~ForceUpdatePin(c)
  BY <1>2 DEF CallStep, IgnoreWrite, AcceptWrite, ConfigFrequency, RequireUpdate, ConfigDuty,
       ArmAfterConfig, ZeroValue, Disarm, ExportPin
<1> QED
  BY <1>1, <1>2

\* With one updater, what it noticed stays cleared from cycle to cycle.
LEMMA ClearInvStep == TypeOK /\ CallInv /\ ClearInv /\ [Next]_vars => ClearInv'
<1> SUFFICES ASSUME TypeOK, CallInv, ClearInv, [Next]_vars, fails' = 0, GpioCaller = {}
             PROVE  Cleared'
  BY DEF ClearInv, Cleared
<1>0. fails = 0 /\ Cleared /\ Updater = {"worker"}
  BY FailsGrow DEF ClearInv, Cleared, vars, bounds, Updater
<1>1. ASSUME UNCHANGED <<at, someUpdated, noticed, devDuty>> PROVE Cleared'
  BY <1>0, <1>1 DEF Cleared, Silent
<1>2. ASSUME NEW u \in Updater, UpdateStep(u) PROVE Cleared'
  <2> u = "worker"
    BY <1>0
  <2> USE <1>0 DEF Cleared, Go, Return, TypeOK, Silent
  <2>1. CASE Snapshot(u)
    BY <2>1 DEF Snapshot, driverVars, deviceVars
  <2>2. CASE UpdateArmed(u)
    BY <2>2 DEF UpdateArmed, deviceVars
  <2>3. CASE StartClear(u)
    BY <2>3 DEF StartClear, driverVars, deviceVars
  <2>4. CASE ClearOutputs(u)
    BY <2>4 DEF ClearOutputs, SpiWrite, driverVars
  <2>5. CASE NoticeUpdate(u)
    BY <2>5 DEF NoticeUpdate, deviceVars
  <2>6. CASE PickGroup(u)
    BY <2>6 DEF PickGroup, driverVars, deviceVars
  <2>7. CASE NothingPending(u)
    BY <2>7 DEF NothingPending, driverVars, deviceVars
  <2>8. CASE SendFrequency(u)
    BY <2>8 DEF SendFrequency, driverVars
  <2>9. CASE CommitFrequency(u)
    BY <2>9 DEF CommitFrequency, deviceVars
  <2>10. CASE FrequencyServed(u)
    BY <2>10 DEF FrequencyServed, deviceVars
  <2>11. CASE LoadCountdown(u)
    BY <2>11 DEF LoadCountdown, deviceVars
  <2>12. CASE ZeroValues(u)
    BY <2>12 DEF ZeroValues, deviceVars
  <2>13. CASE StreamValues(u)
    BY <2>13 DEF StreamValues, driverVars
  <2> QED
    BY <1>2, <2>1, <2>2, <2>3, <2>4, <2>5, <2>6, <2>7, <2>8, <2>9, <2>10, <2>11,
       <2>12, <2>13 DEF UpdateStep
<1>3. ASSUME NEW c \in Channel, StartApply(c) \/ RequestPin(c) \/ FreePin(c)
      PROVE  Cleared'
  BY <1>1, <1>3 DEF StartApply, RequestPin, FreePin, driverVars, cycleVars, deviceVars
<1>4. ASSUME NEW c \in Channel, CallStep(c) PROVE Cleared'
  <2>1. UNCHANGED <<at, someUpdated, noticed>>
    BY <1>4, CallOutputs
  <2>2. devDuty = Silent => devDuty' = Silent
    BY <1>4, CallOutputs DEF Silent
  <2> QED
    BY <1>0, <2>1, <2>2 DEF Cleared
<1>5. CASE StoreIgnoreMask \/ StoreHeartbeat \/ Tick
  BY <1>1, <1>5 DEF StoreIgnoreMask, StoreHeartbeat, Tick, cycleVars, deviceVars
<1>6. CASE UNCHANGED vars
  BY <1>1, <1>6 DEF vars, driverVars, cycleVars, deviceVars
<1> QED
  BY <1>2, <1>3, <1>4, <1>5, <1>6 DEF Next

\* freq_update_noticed can be relied on by rcio_pwm_update when only the worker
\* runs it and every transfer gets through.
THEOREM NoticedIsClearedHolds == Spec => []NoticedIsCleared
<1>1. ClearInv => NoticedIsCleared
  BY DEF ClearInv, NoticedIsCleared
<1> QED
  BY <1>1, TypeCorrect, CallInvInit, CallInvStep, ClearInvInit, ClearInvStep, PTL DEF Spec

\* A frequency on the device is changed by SendFrequency only.
LEMMA FrequencyFrame ==
  ASSUME TypeOK, Next, devFreq' # devFreq
  PROVE  \E u \in Updater : at[u] = "send"
<1> USE DEF deviceVars
<1>1. ASSUME NEW u \in Updater, UpdateStep(u) PROVE at[u] = "send"
  BY <1>1 DEF UpdateStep, Snapshot, UpdateArmed, StartClear, ClearOutputs, NoticeUpdate,
       PickGroup, NothingPending, SendFrequency, CommitFrequency, FrequencyServed,
       LoadCountdown, ZeroValues, StreamValues, Go
<1>2. ASSUME NEW u \in GpioCaller PROVE ~ForceStep(u)
  BY <1>2 DEF ForceStep, FindRunning, LoadForce, AddForce
<1>3. ASSUME NEW c \in Channel PROVE ~(StartApply(c) \/ RequestPin(c) \/ FreePin(c))
  BY <1>3 DEF StartApply, RequestPin, FreePin
<1>4. ASSUME NEW c \in Channel PROVE ~CallStep(c)
  BY <1>4 DEF CallStep, IgnoreWrite, AcceptWrite, ConfigFrequency, RequireUpdate, ConfigDuty,
       ArmAfterConfig, ZeroValue, ForceUpdatePin, Disarm, ExportPin
<1>5. ~(StoreIgnoreMask \/ StoreHeartbeat \/ Tick)
  BY DEF StoreIgnoreMask, StoreHeartbeat, Tick
<1> QED
  BY <1>1, <1>2, <1>3, <1>4, <1>5 DEF Next

\* A cycle of rcio_pwm_update that saw the request from its start changes the
\* frequency under cleared outputs only.
THEOREM UpdateAfterClearHolds == Spec => UpdateAfterClear
<1> DEFINE Guarded == \A u \in Updater :
                        fails = 0 /\ GpioCaller = {} /\ someUpdated[u] /\ devFreq' # devFreq
                          => devDuty = Silent
<1>1. TypeOK /\ ClearInv /\ [Next]_vars => [Guarded]_vars
  <2> SUFFICES ASSUME TypeOK, ClearInv, Next, fails = 0, GpioCaller = {}, devFreq' # devFreq,
                      NEW u \in Updater, someUpdated[u]
               PROVE  devDuty = Silent
    OBVIOUS
  <2>1. u = "worker" /\ at["worker"] = "send"
    BY FrequencyFrame DEF Updater
  <2> QED
    BY <2>1 DEF ClearInv
<1> QED
  BY <1>1, TypeCorrect, CallInvInit, CallInvStep, ClearInvInit, ClearInvStep, PTL
     DEF Spec, UpdateAfterClear

=============================================================================
