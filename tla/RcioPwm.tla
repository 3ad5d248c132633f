------------------------------- MODULE RcioPwm -------------------------------
(***************************************************************************)
(* The PWM part of the RCIO kernel driver (01_navio2_driver/src/rcio_pwm.c)*)
(* with the coprocessor registers it writes.  Three kinds of thread touch  *)
(* the file's unprotected statics:                                         *)
(*   - the kernel worker, which runs rcio_pwm_update for ever;             *)
(*   - callers of rcio_pwm_force_zero_duty (a GPIO request or free), which *)
(*     run the same rcio_pwm_update in their own context;                  *)
(*   - writers of the PWM sysfs files, which the PWM core serialises per   *)
(*     channel only, so there is at most one of them inside each channel.  *)
(* Only the SPI transfer is under a lock, hence one action per transfer    *)
(* and one action per access of a static that another thread writes.       *)
(*                                                                         *)
(* A pulse length is abstracted to the frequency it was computed for: a    *)
(* duty is 0 (no pulse) or the frequency of the request it came with.      *)
(***************************************************************************)
EXTENDS Integers, FiniteSets

CONSTANTS
  Channel,       \* PWM channels, 0 .. RCIO_PWM_MAX_CHANNELS - 1
  Group,         \* frequency groups: timers 0 .. 3, or 0 (alt) and 1 (default)
  GroupOf,       \* the group a channel belongs to
  ControlPins,   \* the channels that decide the frequency of their group
  ZeroedChannels,\* channels below RCIO_PWM_MAX_ZEROED_CHANNELS
  AdvTimer,      \* adv_timer_config_supported: new way or old way
  Freq,          \* frequencies a client may ask for
  InitFreq,      \* the frequency the driver sets at probe time
  GpioCaller,    \* threads that may call rcio_pwm_force_zero_duty
  ZeroSkip,      \* RCIO_PWM_ZERO_SKIP_UPDATE_CYCLES
  ArmTicks,      \* length of the arming window, HZ / 10 jiffies
  GpioPins,      \* pins the firmware reports as exported GPIOs
  Ignorable,     \* pins that pwmignore_store may put into the ignore mask
  MaxOps,        \* bound: sysfs calls on the PWM and pwmignore files
  MaxForces,     \* bound: calls of rcio_pwm_force_zero_duty
  MaxFails       \* bound: SPI transfers that do not reach the registers

ASSUME ChannelAssumption ==
  /\ GroupOf \in [Channel -> Group]
  /\ ControlPins \subseteq Channel
  /\ ZeroedChannels \subseteq Channel
  /\ GpioPins \subseteq Channel
  /\ Ignorable \subseteq Channel
ASSUME GroupAssumption == Group \subseteq Nat /\ 0 \in Group
ASSUME FreqAssumption == Freq \subseteq Nat \ {0} /\ InitFreq \in Freq
ASSUME ThreadAssumption == "worker" \notin GpioCaller
ASSUME BoundAssumption ==
  /\ AdvTimer \in BOOLEAN
  /\ ZeroSkip \in Nat \ {0}
  /\ ArmTicks \in Nat \ {0}
  /\ MaxOps \in Nat /\ MaxForces \in Nat /\ MaxFails \in Nat

VARIABLES
  \* the statics of rcio_pwm.c
  values,          \* values[]: the duty of every channel
  frequencies,     \* frequencies[], or alt_frequency and default_frequency
  newFrequencies,  \* new_frequencies[]
  required,        \* frequencies_update_required[], or the *_updated flags
  armed,           \* armed
  armLeft,         \* jiffies left until armtimeout
  zeroCountdown,   \* force_pwmzero_countdown
  noticed,         \* freq_update_noticed
  ignored,         \* pwm_ignore_writings_mask
  \* the threads inside rcio_pwm_update
  at,              \* where each of them is
  someUpdated,     \* its local some_freq_updated
  stage,           \* the group it is updating, 0 when it is updating none
  loaded,          \* the countdown it read before writing it back
  \* the PWM core: sysfs channels and the calls under way on them
  exported,        \* channels with a sysfs directory
  state,           \* pwm_device.state
  op,              \* where the call on the channel is
  \* the registers of the coprocessor
  devDuty,         \* PX4IO_PAGE_DIRECT_PWM
  devFreq,         \* PX4IO_P_SETUP_PWM_GROUPn_RATE, or ALTRATE and DEFAULTRATE
  devExported,     \* PX4IO_PAGE_PWM_EXPORTED
  \* what is left of the bounds
  ops, forces, fails

freqVars   == <<frequencies, newFrequencies, required>>
driverVars == <<values, freqVars, armed, armLeft, zeroCountdown, noticed, ignored>>
cycleVars  == <<at, someUpdated, stage, loaded>>
coreVars   == <<exported, state, op>>
deviceVars == <<devDuty, devFreq, devExported>>
bounds     == <<ops, forces, fails>>
vars == <<driverVars, cycleVars, coreVars, deviceVars, bounds>>

-----------------------------------------------------------------------------
Updater   == {"worker"} \cup GpioCaller
Duty      == {0} \cup Freq
Unexported == [enabled |-> FALSE, pulse |-> FALSE, freq |-> InitFreq]
PwmState  == [enabled : BOOLEAN, pulse : BOOLEAN, freq : Freq]
Members(g) == {c \in Channel : GroupOf[c] = g}
Silent    == [c \in Channel |-> 0]

\* Mutant: the running outputs are never counted.
NeverRunning == FALSE
Running == \E c \in Channel : devDuty[c] # 0

Init ==
  /\ values = Silent
  /\ frequencies = [g \in Group |-> InitFreq]
  /\ newFrequencies = [g \in Group |-> InitFreq]
  /\ required = [g \in Group |-> FALSE]
  /\ armed = FALSE /\ armLeft = 0
  /\ zeroCountdown = 0 /\ noticed = FALSE /\ ignored = {}
  /\ at = [u \in Updater |-> IF u = "worker" THEN "snapshot" ELSE "idle"]
  /\ someUpdated = [u \in Updater |-> FALSE]
  /\ stage = [u \in Updater |-> 0]
  /\ loaded = [u \in Updater |-> 0]
  /\ exported = {} /\ state = [c \in Channel |-> Unexported]
  /\ op = [c \in Channel |-> "idle"]
  /\ devDuty = Silent /\ devFreq = [g \in Group |-> InitFreq] /\ devExported = {}
  /\ ops = 0 /\ forces = 0 /\ fails = 0

\* An SPI write either reaches the register or not.  None of its callers below
\* looks at the result, so a lost reply is no different from a success.
SpiWrite(register, value) ==
  \/ register' = value /\ UNCHANGED fails
  \/ fails < MaxFails /\ fails' = fails + 1 /\ UNCHANGED register

-----------------------------------------------------------------------------
(***************************************************************************)
(* rcio_pwm_update.  The worker starts over when it returns, the others go *)
(* back to their caller.                                                   *)
(***************************************************************************)
Go(u, from, to) == at[u] = from /\ at' = [at EXCEPT ![u] = to]

Return(u) ==
  /\ at' = [at EXCEPT ![u] = IF u = "worker" THEN "snapshot" ELSE "idle"]
  /\ someUpdated' = [someUpdated EXCEPT ![u] = FALSE]
  /\ stage' = [stage EXCEPT ![u] = 0]
  /\ loaded' = [loaded EXCEPT ![u] = 0]

Snapshot(u) ==
  /\ Go(u, "snapshot", "arm")
  /\ someUpdated' = [someUpdated EXCEPT ![u] = \E g \in Group : required[g]]
  /\ UNCHANGED <<driverVars, stage, loaded, coreVars, deviceVars, bounds>>

UpdateArmed(u) ==
  /\ Go(u, "arm", IF armLeft > 0 THEN "pending" ELSE "window")
  /\ armed' = (armLeft > 0)
  /\ UNCHANGED <<values, freqVars, armLeft, zeroCountdown, noticed, ignored,
                 someUpdated, stage, loaded, coreVars, deviceVars, bounds>>

StartClear(u) ==
  /\ Go(u, "pending", "clear")
  /\ someUpdated[u] /\ ~noticed
  /\ UNCHANGED <<driverVars, someUpdated, stage, loaded, coreVars, deviceVars, bounds>>

ClearOutputs(u) ==
  /\ Go(u, "clear", "notice")
  /\ SpiWrite(devDuty, Silent)
  /\ UNCHANGED <<driverVars, someUpdated, stage, loaded, coreVars,
                 devFreq, devExported, ops, forces>>

NoticeUpdate(u) ==
  /\ at[u] = "notice" /\ Return(u)
  /\ noticed' = TRUE
  /\ UNCHANGED <<values, freqVars, armed, armLeft, zeroCountdown, ignored,
                 coreVars, deviceVars, bounds>>

\* Mutant: the first cycle that sees a request serves it without a clear.
PickGroupUncleared(u) ==
  /\ \E g \in Group :
       /\ required[g] /\ \A h \in Group : required[h] => g <= h
       /\ stage' = [stage EXCEPT ![u] = g]
  /\ Go(u, "pending", "send")
  /\ UNCHANGED <<driverVars, someUpdated, loaded, coreVars, deviceVars, bounds>>

\* The first group that asks for an update, in the order of the loop (new way)
\* or of the two conditions (old way).
PickGroup(u) ==
  /\ ~(someUpdated[u] /\ ~noticed)
  /\ \E g \in Group :
       /\ required[g] /\ \A h \in Group : required[h] => g <= h
       /\ stage' = [stage EXCEPT ![u] = g]
  /\ Go(u, "pending", "send")
  /\ UNCHANGED <<driverVars, someUpdated, loaded, coreVars, deviceVars, bounds>>

NothingPending(u) ==
  /\ ~(someUpdated[u] /\ ~noticed)
  /\ \A g \in Group : ~required[g]
  /\ Go(u, "pending", "window")
  /\ UNCHANGED <<driverVars, someUpdated, stage, loaded, coreVars, deviceVars, bounds>>

SendFrequency(u) ==
  /\ Go(u, "send", IF AdvTimer THEN "commit" ELSE "served")
  /\ SpiWrite(devFreq, [devFreq EXCEPT ![stage[u]] =
                          IF AdvTimer THEN newFrequencies[stage[u]]
                                      ELSE frequencies[stage[u]]])
  /\ UNCHANGED <<driverVars, someUpdated, stage, loaded, coreVars,
                 devDuty, devExported, ops, forces>>

\* new_frequencies[stage] is read a second time, after the transfer.
CommitFrequency(u) ==
  /\ Go(u, "commit", "served")
  /\ frequencies' = [frequencies EXCEPT ![stage[u]] = newFrequencies[stage[u]]]
  /\ UNCHANGED <<values, newFrequencies, required, armed, armLeft, zeroCountdown, noticed,
                 ignored, someUpdated, stage, loaded, coreVars, deviceVars, bounds>>

\* Mutant: the request flag is not reset.
FrequencyServedForEver(u) ==
  at[u] = "served" /\ Return(u) /\ UNCHANGED <<driverVars, coreVars, deviceVars, bounds>>

FrequencyServed(u) ==
  /\ at[u] = "served" /\ Return(u)
  /\ required' = [required EXCEPT ![stage[u]] = FALSE]
  /\ UNCHANGED <<values, frequencies, newFrequencies, armed, armLeft, zeroCountdown,
                 noticed, ignored, coreVars, deviceVars, bounds>>

\* Mutant: freq_update_noticed is not reset.
LoadCountdownStillNoticed(u) ==
  /\ Go(u, "window", IF zeroCountdown > 0 THEN "zero" ELSE "stream")
  /\ zeroCountdown' = IF zeroCountdown < 0 THEN 0 ELSE zeroCountdown
  /\ loaded' = [loaded EXCEPT ![u] = zeroCountdown']
  /\ UNCHANGED <<values, freqVars, armed, armLeft, noticed, ignored,
                 someUpdated, stage, coreVars, deviceVars, bounds>>

\* freq_update_noticed is reset and the countdown is tested.  The decrement is
\* a step of its own: it starts from the tested value or from a fresh one, as
\* the compiler likes, and in the first case overwrites a concurrent +=.
LoadCountdown(u) ==
  /\ Go(u, "window", IF zeroCountdown > 0 THEN "zero" ELSE "stream")
  /\ noticed' = FALSE
  /\ zeroCountdown' = IF zeroCountdown < 0 THEN 0 ELSE zeroCountdown
  /\ loaded' = [loaded EXCEPT ![u] = zeroCountdown']
  /\ UNCHANGED <<values, freqVars, armed, armLeft, ignored,
                 someUpdated, stage, coreVars, deviceVars, bounds>>

\* Mutant: the countdown is not decremented.
ZeroValuesForEver(u) ==
  /\ Go(u, "zero", "stream")
  /\ values' = [c \in Channel |-> IF c \in ZeroedChannels THEN 0 ELSE values[c]]
  /\ UNCHANGED <<freqVars, armed, armLeft, zeroCountdown, noticed, ignored,
                 someUpdated, stage, loaded, coreVars, deviceVars, bounds>>

ZeroValues(u) ==
  /\ Go(u, "zero", "stream")
  /\ zeroCountdown' \in {loaded[u] - 1, zeroCountdown - 1}
  /\ values' = [c \in Channel |-> IF c \in ZeroedChannels THEN 0 ELSE values[c]]
  /\ UNCHANGED <<freqVars, armed, armLeft, noticed, ignored,
                 someUpdated, stage, loaded, coreVars, deviceVars, bounds>>

StreamValues(u) ==
  /\ at[u] = "stream" /\ Return(u)
  /\ IF armed /\ ~someUpdated[u] THEN SpiWrite(devDuty, values)
                                 ELSE UNCHANGED <<devDuty, fails>>
  /\ UNCHANGED <<driverVars, coreVars, devFreq, devExported, ops, forces>>

UpdateStep(u) ==
  \/ Snapshot(u) \/ UpdateArmed(u) \/ StartClear(u) \/ ClearOutputs(u)
  \/ NoticeUpdate(u) \/ PickGroup(u) \/ NothingPending(u) \/ SendFrequency(u)
  \/ CommitFrequency(u) \/ FrequencyServed(u) \/ LoadCountdown(u)
  \/ ZeroValues(u) \/ StreamValues(u)

\* A GPIO request or free calls rcio_pwm_force_zero_duty when the device
\* reports running outputs.  The += on the countdown is a load and a store, and
\* the caller then runs an update of its own.
FindRunning(u) ==
  /\ forces < MaxForces /\ forces' = forces + 1
  /\ Running
  /\ Go(u, "idle", "load")
  /\ UNCHANGED <<driverVars, someUpdated, stage, loaded, coreVars, deviceVars, ops, fails>>

LoadForce(u) ==
  /\ Go(u, "load", "add")
  /\ loaded' = [loaded EXCEPT ![u] = zeroCountdown]
  /\ UNCHANGED <<driverVars, someUpdated, stage, coreVars, deviceVars, bounds>>

AddForce(u) ==
  /\ Go(u, "add", "snapshot")
  /\ zeroCountdown' = loaded[u] + ZeroSkip
  /\ UNCHANGED <<values, freqVars, armed, armLeft, noticed, ignored,
                 someUpdated, stage, loaded, coreVars, deviceVars, bounds>>

ForceStep(u) == FindRunning(u) \/ LoadForce(u) \/ AddForce(u)

-----------------------------------------------------------------------------
(***************************************************************************)
(* The PWM sysfs files.  The PWM core holds a lock per exported channel,   *)
(* skips ->apply when nothing changes, and stores the new state once       *)
(* ->apply has returned 0, which it always does: the state can be stored   *)
(* when the call starts, since only the call itself reads it.              *)
(***************************************************************************)
Call(c, from, to) == op[c] = from /\ op' = [op EXCEPT ![c] = to]

\* Each of the files enable, duty_cycle and period changes one field.
Changes(s) ==
       {[s EXCEPT !.enabled = ~s.enabled], [s EXCEPT !.pulse = ~s.pulse]}
  \cup {[s EXCEPT !.freq = f] : f \in Freq \ {s.freq}}

StartApply(c) ==
  /\ ops < MaxOps /\ ops' = ops + 1
  /\ c \in exported
  /\ \E s \in Changes(state[c]) :
       /\ Call(c, "idle", IF s.enabled THEN "check" ELSE "zero")
       /\ state' = [state EXCEPT ![c] = s]
  /\ UNCHANGED <<driverVars, cycleVars, exported, deviceVars, forces, fails>>

WritesIgnored(c) ==
  \/ c \in ignored /\ state[c].pulse
  \/ zeroCountdown > 0 /\ c \in ZeroedChannels

IgnoreWrite(c) ==
  /\ WritesIgnored(c)
  /\ Call(c, "check", "arm")
  /\ values' = [values EXCEPT ![c] = 0]
  /\ UNCHANGED <<freqVars, armed, armLeft, zeroCountdown, noticed, ignored,
                 cycleVars, exported, state, deviceVars, bounds>>

AcceptWrite(c) ==
  /\ ~WritesIgnored(c)
  /\ Call(c, "check", "frequency")
  /\ UNCHANGED <<driverVars, cycleVars, exported, state, deviceVars, bounds>>

\* rcio_pwm_should_change_freq_new_way and _old_way
ShouldChangeFreq(c) ==
  /\ frequencies[GroupOf[c]] # state[c].freq
  /\ IF AdvTimer
     THEN c \in ControlPins \/ \A d \in Members(GroupOf[c]) : values[d] = 0
     ELSE c \in ControlPins /\ state[c].pulse

ConfigFrequency(c) ==
  LET g == GroupOf[c] IN
  /\ Call(c, "frequency", IF ShouldChangeFreq(c) THEN "flag" ELSE "duty")
  /\ IF ShouldChangeFreq(c)
     THEN IF AdvTimer
          THEN /\ newFrequencies' = [newFrequencies EXCEPT ![g] = state[c].freq]
               /\ UNCHANGED frequencies
          ELSE /\ frequencies' = [frequencies EXCEPT ![g] = state[c].freq]
               /\ UNCHANGED newFrequencies
     ELSE UNCHANGED <<frequencies, newFrequencies>>
  /\ UNCHANGED <<values, required, armed, armLeft, zeroCountdown, noticed, ignored,
                 cycleVars, exported, state, deviceVars, bounds>>

RequireUpdate(c) ==
  /\ Call(c, "flag", "duty")
  /\ required' = [required EXCEPT ![GroupOf[c]] = TRUE]
  /\ UNCHANGED <<values, frequencies, newFrequencies, armed, armLeft, zeroCountdown, noticed,
                 ignored, cycleVars, exported, state, deviceVars, bounds>>

\* rcio_pwm_should_change_duty_new_way and _old_way
ShouldChangeDuty(c) == frequencies[GroupOf[c]] = state[c].freq

ConfigDuty(c) ==
  /\ Call(c, "duty", "arm")
  /\ values' = [values EXCEPT ![c] =
                  IF ShouldChangeDuty(c) /\ state[c].pulse THEN state[c].freq ELSE 0]
  /\ UNCHANGED <<freqVars, armed, armLeft, zeroCountdown, noticed, ignored,
                 cycleVars, exported, state, deviceVars, bounds>>

ArmAfterConfig(c) ==
  /\ Call(c, "arm", "idle")
  /\ armed' = TRUE
  /\ UNCHANGED <<values, freqVars, armLeft, zeroCountdown, noticed, ignored,
                 cycleVars, exported, state, deviceVars, bounds>>

\* Mutant: a disabled channel keeps its value.
ZeroValueKept(c) == Call(c, "zero", "force") /\
  UNCHANGED <<driverVars, cycleVars, exported, state, deviceVars, bounds>>

ZeroValue(c) ==
  /\ Call(c, "zero", "force")
  /\ values' = [values EXCEPT ![c] = 0]
  /\ UNCHANGED <<freqVars, armed, armLeft, zeroCountdown, noticed, ignored,
                 cycleVars, exported, state, deviceVars, bounds>>

ForceUpdatePin(c) ==
  /\ Call(c, "force", "disarm")
  /\ SpiWrite(devDuty, [devDuty EXCEPT ![c] = values[c]])
  /\ UNCHANGED <<driverVars, cycleVars, exported, state, devFreq, devExported, ops, forces>>

Disarm(c) ==
  /\ Call(c, "disarm", "idle")
  /\ armed' = FALSE
  /\ UNCHANGED <<values, freqVars, armLeft, zeroCountdown, noticed, ignored,
                 cycleVars, exported, state, deviceVars, bounds>>

-----------------------------------------------------------------------------
(***************************************************************************)
(* Export and unexport: rcio_pwm_request followed by rcio_pwm_get_state,   *)
(* and rcio_pwm_free.  The PWM core runs them under its global pwm_lock.   *)
(* An export that is refused at once changes nothing and is not a step.    *)
(***************************************************************************)
PwmLockFree == \A d \in Channel : op[d] # "export"

Exported(c) ==
  /\ exported' = exported \cup {c}
  /\ state' = [state EXCEPT ![c] =
                 [enabled |-> FALSE, pulse |-> values[c] # 0,
                  freq |-> IF AdvTimer THEN frequencies[GroupOf[c]] ELSE InitFreq]]

\* The outputs that run are counted on the device; an ignored pin is let
\* through whatever the count is.
RequestPin(c) ==
  /\ ops < MaxOps /\ ops' = ops + 1
  /\ c \notin exported /\ PwmLockFree
  /\ \/ c \in ignored /\ Exported(c) /\ Call(c, "idle", "idle")
     \/ /\ c \notin ignored /\ ~Running
        /\ Call(c, "idle", "export") /\ UNCHANGED <<exported, state>>
  /\ UNCHANGED <<driverVars, cycleVars, deviceVars, forces, fails>>

\* The rest of the request.  When PWM_EXPORTED cannot be read, the local that
\* is written back to it was never initialised.
ExportPin(c) ==
  /\ Call(c, "export", "idle")
  /\ \/ /\ c \notin GpioPins
        /\ devExported' = devExported \cup {c} /\ Exported(c) /\ UNCHANGED fails
     \/ /\ c \in GpioPins
        /\ UNCHANGED <<devExported, exported, state, fails>>
     \/ /\ fails < MaxFails /\ fails' = fails + 1
        /\ \/ UNCHANGED <<devExported, exported, state>>
           \/ /\ c \notin GpioPins
              /\ \E garbage \in SUBSET Channel : devExported' = garbage \cup {c}
              /\ Exported(c)
           \/ /\ c \notin GpioPins
              /\ devExported' = devExported \cup {c} /\ UNCHANGED <<exported, state>>
  /\ UNCHANGED <<driverVars, cycleVars, devDuty, devFreq, ops, forces>>

\* Mutant: a freed pin keeps its value.
FreePinKeepingValue(c) ==
  /\ ops < MaxOps /\ ops' = ops + 1
  /\ c \in exported /\ PwmLockFree /\ Call(c, "idle", "idle")
  /\ exported' = exported \ {c}
  /\ state' = [state EXCEPT ![c] = Unexported]
  /\ IF c \in ignored THEN UNCHANGED <<devExported, fails>>
                      ELSE SpiWrite(devExported, devExported \ {c})
  /\ UNCHANGED <<driverVars, cycleVars, devDuty, devFreq, forces>>

FreePin(c) ==
  /\ ops < MaxOps /\ ops' = ops + 1
  /\ c \in exported /\ PwmLockFree /\ Call(c, "idle", "idle")
  /\ values' = [values EXCEPT ![c] = 0]
  /\ exported' = exported \ {c}
  /\ state' = [state EXCEPT ![c] = Unexported]
  /\ IF c \in ignored THEN UNCHANGED <<devExported, fails>>
                      ELSE SpiWrite(devExported, devExported \ {c})
  /\ UNCHANGED <<freqVars, armed, armLeft, zeroCountdown, noticed, ignored,
                 cycleVars, devDuty, devFreq, forces>>

CallStep(c) ==
  \/ IgnoreWrite(c) \/ AcceptWrite(c) \/ ConfigFrequency(c) \/ RequireUpdate(c) \/ ConfigDuty(c)
  \/ ArmAfterConfig(c) \/ ZeroValue(c) \/ ForceUpdatePin(c) \/ Disarm(c)
  \/ ExportPin(c)

-----------------------------------------------------------------------------
\* pwmignore_store of rcio_gpio.c writes the whole mask.
StoreIgnoreMask ==
  /\ ops < MaxOps /\ ops' = ops + 1
  /\ ignored' \in SUBSET Ignorable
  /\ UNCHANGED <<values, freqVars, armed, armLeft, zeroCountdown, noticed,
                 cycleVars, coreVars, deviceVars, forces, fails>>

\* heartbeat_store, and the passing of time
StoreHeartbeat ==
  /\ armLeft' = ArmTicks
  /\ UNCHANGED <<values, freqVars, armed, zeroCountdown, noticed, ignored,
                 cycleVars, coreVars, deviceVars, bounds>>

\* Mutant: the window is left open by one tick too many.
TickTooFar ==
  /\ armLeft >= 0 /\ armLeft' = armLeft - 1
  /\ UNCHANGED <<values, freqVars, armed, zeroCountdown, noticed, ignored,
                 cycleVars, coreVars, deviceVars, bounds>>

Tick ==
  /\ armLeft > 0 /\ armLeft' = armLeft - 1
  /\ UNCHANGED <<values, freqVars, armed, zeroCountdown, noticed, ignored,
                 cycleVars, coreVars, deviceVars, bounds>>

Next ==
  \/ \E u \in Updater : UpdateStep(u)
  \/ \E u \in GpioCaller : ForceStep(u)
  \/ \E c \in Channel : StartApply(c) \/ RequestPin(c) \/ FreePin(c) \/ CallStep(c)
  \/ StoreIgnoreMask \/ StoreHeartbeat \/ Tick

Spec == Init /\ [][Next]_vars

\* A thread that is inside the driver is scheduled again.  Nothing is assumed
\* of clients, of heartbeats or of time.
Fairness ==
  /\ \A u \in Updater : WF_vars(UpdateStep(u))
  /\ \A u \in GpioCaller : WF_vars(LoadForce(u) \/ AddForce(u))
  /\ \A c \in Channel : WF_vars(CallStep(c))

FairSpec == Spec /\ Fairness

-----------------------------------------------------------------------------
(***************************************************************************)
(* Properties                                                              *)
(***************************************************************************)
TypeOK ==
  /\ values \in [Channel -> Duty]
  /\ frequencies \in [Group -> Freq]
  /\ newFrequencies \in [Group -> Freq]
  /\ required \in [Group -> BOOLEAN]
  /\ armed \in BOOLEAN /\ armLeft \in 0 .. ArmTicks
  /\ zeroCountdown \in Int /\ noticed \in BOOLEAN /\ ignored \subseteq Ignorable
  /\ at \in [Updater -> {"idle", "load", "add", "snapshot", "arm", "pending", "clear", "notice",
                         "send", "commit", "served", "window", "zero", "stream"}]
  /\ someUpdated \in [Updater -> BOOLEAN]
  /\ stage \in [Updater -> Group]
  /\ loaded \in [Updater -> Int]
  /\ exported \subseteq Channel
  /\ state \in [Channel -> PwmState]
  /\ op \in [Channel -> {"idle", "check", "frequency", "flag", "duty", "arm",
                         "zero", "force", "disarm", "export"}]
  /\ devDuty \in [Channel -> Duty]
  /\ devFreq \in [Group -> Freq]
  /\ devExported \subseteq Channel
  /\ ops \in 0 .. MaxOps /\ forces \in 0 .. MaxForces /\ fails \in 0 .. MaxFails

\* Between two calls on a channel the driver holds a pulse for it only if the
\* channel is exported, enabled and asked for just this pulse, whatever the
\* updates and the zero windows did in the meantime (rcio_pwm_apply,
\* rcio_pwm_free).
ValueFollowsState ==
  \A c \in Channel : op[c] = "idle" /\ values[c] # 0 =>
    c \in exported /\ state[c] = [enabled |-> TRUE, pulse |-> TRUE, freq |-> values[c]]

\* Once the disabling write on a channel is through, the device gives no pulse
\* on it, in spite of the streams of the worker that overlap the write and of
\* what an earlier owner of the channel left on the device (rcio_pwm_apply,
\* rcio_pwm_request).  A lost transfer, or a pin that was in the ignore mask
\* when it was exported, is the exception.
DisabledIsOff ==
  fails = 0 =>
    \A c \in exported \ Ignorable :
      ~state[c].enabled /\ op[c] \in {"idle", "disarm"} => devDuty[c] = 0

\* With the worker as the only updater, freq_update_noticed tells that the
\* outputs have been cleared and that nothing was streamed since, over as many
\* cycles as the frequency update takes.
NoticedIsCleared ==
  fails = 0 /\ GpioCaller = {} => (noticed => devDuty = Silent)

\* A cycle that knew of a frequency update from its start changes a frequency
\* only while every output is cleared (rcio_pwm_update, lines 180-197).
UpdateAfterClear ==
  [][\A u \in Updater :
       fails = 0 /\ GpioCaller = {} /\ someUpdated[u] /\ devFreq' # devFreq
         => devDuty = Silent]_vars

\* As long as heartbeats keep coming, the device ends up with the values of the
\* driver and no frequency update stays pending: what a skipped or lost stream,
\* a disarming write or a zero window held back is made up for.
Settles ==
  <>[](armLeft > 0) => <>[](devDuty = values /\ \A g \in Group : ~required[g])

\* A zero window ends, even if decrements and += of several threads collide.
WindowEnds == <>[](zeroCountdown <= 0)

-----------------------------------------------------------------------------
(***************************************************************************)
(* What each of the first three safety properties needs to be inductive:   *)
(* the same fact at the places where a call or a cycle is under way.       *)
(***************************************************************************)
Matches(c) ==
  values[c] # 0 => /\ c \in exported
                   /\ state[c] = [enabled |-> TRUE, pulse |-> TRUE, freq |-> values[c]]

CallInvAt(c) ==
  /\ op[c] \in {"idle", "arm"} => Matches(c)
  /\ op[c] \in {"force", "disarm", "export"} => values[c] = 0
  /\ op[c] \in {"check", "frequency", "flag", "duty", "arm"} => c \in exported /\ state[c].enabled
  /\ op[c] \in {"zero", "force", "disarm"} => c \in exported /\ ~state[c].enabled
  /\ op[c] = "export" => c \notin exported

CallInv == \A c \in Channel : CallInvAt(c)

OffInvAt(c) ==
  /\ c \in exported /\ ~state[c].enabled /\ op[c] \in {"idle", "disarm"} => devDuty[c] = 0
  /\ op[c] = "export" => devDuty[c] = 0

OffInv == fails = 0 => \A c \in Channel \ Ignorable : OffInvAt(c)

ClearInv ==
  fails = 0 /\ GpioCaller = {} =>
    /\ noticed \/ at["worker"] = "notice" => devDuty = Silent
    /\ at["worker"] \in {"zero", "stream"} => ~noticed
    /\ at["worker"] \in {"send", "commit", "served"} /\ someUpdated["worker"] => noticed

-----------------------------------------------------------------------------
\* The claim of the comment at rcio_pwm.c:181-183, for every change of a
\* frequency: "first we should clear up values on the device".
ClearedBeforeUpdate == [][devFreq' # devFreq => devDuty = Silent]_vars
=============================================================================
