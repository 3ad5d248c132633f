# A verification project for the wood-walker truck

TLA+ models of the software of the truck: the kernel driver that talks to the RCIO
coprocessor of the Navio2 board, the ros2_control hardware that drives its PWM channels,
the Python library for the board's receiver and sensors, and the launch files that bring
the vehicle and its navigation up. The modules are translated from the code (paths
below are relative to the root of the repository); TLC checks them on small instances,
TLAPS proves the invariants that matter most for every value of the constants.

To check a module: `tlc -config PwmNewWay.cfg MCRcioPwm.tla`; to check the proofs:
`tlapm RcioPwmProofs.tla`. Which module goes with which configuration is in
`PROJECT.json`, which also maps every definition to the lines it stands for.

Contents: 1 the system, 2 the modules, 3 `RcioPwm`, 4 `TruckHardware`, 5 the u-blox
receiver, 6 the sensors, 7 bringing up, 8 what the claims show, 9 what is only checked, and
what is not modelled.

## 1. The system and its parts

```
 joystick, Nav2 ── controllers (50 Hz) ── TruckHardware (truck.cpp) ── class PWM (PWM.cpp)
     │                                                                     │ sysfs files
 launch files        GPIO sysfs ── rcio_gpio.c ──┐                PWM core of the kernel
     │                                           │ forced zero duty        │ request, apply, free
 camera, rtabmap       kernel worker (rcio_core.c) ── rcio_pwm_update ── rcio_pwm.c
                                                 │ adc, rcin, gpio, status, safety
                                            rcio_spi.c ── coprocessor registers
 sensor node (truck_node.cpp): ADC, RC input, IMU, barometer, GNSS ── topics
 navio_py: ublox.py ── receiver;  mpu9250.py, lsm9ds1.py, ms5611.py ── chips on SPI and I2C
```

| Component | State it keeps | Operations | Hard behaviour | What makes it correct |
|---|---|---|---|---|
| **PWM driver** `01_navio2_driver/src/rcio_pwm.c` | statics: `values[]`, `frequencies[]`, `new_frequencies[]`, `frequencies_update_required[]`, `armed`, `armtimeout`, `force_pwmzero_countdown`, `freq_update_noticed`, the ignore mask | cyclic `rcio_pwm_update`; `apply`, `request`, `free`, `get_state` of the PWM chip; `heartbeat`; forced zero duty | three kinds of thread and no lock on the statics; a handshake over several cycles; SPI results ignored | pulses only on channels that are enabled and asked for them; frequencies change on cleared outputs; lost or skipped transfers are made up for |
| **GPIO driver** `rcio_gpio.c` | pin states, `exported` mask, ignore mask, `pin_states_updated` | request, free, set, direction; cyclic update; `pwmignore` file | set by callers, reset by the worker; read-modify-write of one register; unsigned error code | the register follows the pin states; a pin belongs to PWM or to GPIO |
| **Core** `rcio_core.c` | the probed sub-drivers, the worker thread | probe with unwinding, remove, the worker's cycle | failures half way; removal beside the running worker | what was registered is unregistered, once, and nothing runs after it |
| **SPI transport** `rcio_spi.c`, `protocol.h` | one buffer, the adapter's lock | register get and set, CRC, retries | repeated and damaged replies | a call returns what its own transfer got |
| **ADC, RC input, status, safety** | last readings and timeouts | cyclic reads, sysfs files | stale readings after a failed read | a reading is current or marked |
| **Truck hardware** `truck_control/hardware/truck.cpp` | `_enable`, applied commands, function statics of `write()` | lifecycle callbacks, `read()`, `write()` | multi-cycle start, stop, gear and reverse sequences, any access may fail, statics that outlive the lifecycle, crash and restart with the channels left enabled | joints enabled only while the truck is started; the horn warns before the start; no shift under power |
| **Class PWM** `navio/src/Navio2/PWM.cpp`, `Util.cpp` | exported channels (in the kernel) | `init`, `deinit`, `enable`, `disable`, `set_period`, `set_duty_cycle`, `heartbeat` | retries for up to 2 s in the control thread; `EBUSY` | the channel is in the state the caller believes |
| **u-blox receiver** `navio_py/navio_py/navio/ublox.py` | the bytes of the message under construction; the preferences; the fields of a message | `receive_message` and its variants, `special_handling`, `set_preferred_*`, `configure_*`; `unpack`, `pack`, `format` | bytes in pieces of any size, damaged and false headers, an alarm between any two steps; a configuration that goes on by itself from report to report; fields stored before an error is found | messages handed out are whole, in order and once; the conversation with the receiver ends, with the preferences in force; packing changes what was edited only |
| **MPU9250** `mpu9250.py` | dividers, readings, sensitivity of the magnetometer; the chip's registers | `initialize`, `set_*_scale`, `read_*`, `getMotion6`, `getMotion9` | the magnetometer behind an I2C master that takes its time, shared by all methods | a reading is divided by the divider of its range; bytes are those of the register they are taken for |
| **LSM9DS1** `lsm9ds1.py` | scales, lists of readings | the same | lists changed in place and handed out; a transfer may raise half way | one scale per range, one frame for all readings |
| **MS5611** `ms5611.py` | coefficients, D1, D2, pressure and temperature | `initialize`, `update`, refresh, read, calculate | one result register for two conversions | pressure and temperature of one update |
| **RTAB-Map launch files** `02_dev_environment/src/rtabmap_launch/launch/*.py` | the table of arguments, the nodes started | declarations, includes, conditional nodes with remappings | fourteen conditions and three spellings of a topic that have to agree; a table shared by included files | every node started is fed, by one publisher |
| **Vehicle, camera, description launch files** `truck.launch.py`, `view_robot.launch.py`, `realsense_d435i_color.launch.py` | the same, and handlers of exits | the same, spawners | an order of spawners that depends on an exit | the velocity of the navigation reaches the drive controller |
| **Sensor node** `navio/src/truck_node.cpp` | last samples | timers, publishers | blocking reads in timers | samples published once, in order |
| **u-blox in C++** `Ublox.cpp` | scanner position, payload length | byte-wise scan, checksum | broken messages | the scanner finds its way back |
| **IMU, barometer, I2C in C++** | registers, calibration | register sequences | sequential code, floating point | |
| **Supervision** `entrypoint.sh`, `truck.service` | five processes | start, `wait -n`, stop | one exit ends all; no restart | |

They interact through shared memory (the driver's statics, without locks), through SPI
transfers (one at a time under the adapter's lock), through sysfs files (one call per
exported channel at a time, under the PWM core's lock), through the controller
manager's calls (one at a time), through the lines and buses of the receiver and the chips,
which go on while the library sleeps, and through topics, which connect only when two launch
files spell them alike.

The hazards of this code, each at its line and with the properties that would show it
going wrong, are listed in `PROJECT.json` under `hazards`. Those without a property say
why there is none.

## 2. Modules

| Module | What it is |
|---|---|
| `RcioPwm` | the PWM driver, the GPIO callers that force zero duty, the PWM core around it and the coprocessor's registers |
| `RcioPwmProofs`, `MCRcioPwm` | theorems about it; values of `GroupOf` for TLC |
| `TruckHardware` | lifecycle and control cycle of the truck hardware |
| `TruckHardwareProofs`, `MCTruckHardware` | theorems about it; the order of the joints for TLC |
| `UbxFraming` | pure operators: length, checksum, `add`, and what a message on a line is |
| `UbxDelivery` | abstract specification: what a receiver of messages promises |
| `UbxReceiver` | `receive_message` on a line; shown to implement `UbxDelivery` |
| `UbxReceiverProofs`, `MCUbxReceiver` | theorems about it; the lines for TLC |
| `UbxConfig` | the automatic configuration, with the receiver at the other end |
| `UbxConfigProofs`, `MCUbxConfig` | the types of its messages; the values of the constants for TLC |
| `UbxMessage` | a message with its descriptor: unpack, pack, format, fields |
| `UbxMessageProofs` | theorems about it |
| `Mpu9250`, `Lsm9ds1`, `Ms5611` | the three sensor classes, each with its chip |
| `Mpu9250Proofs`, `SensorProofs`, `MCSensors` | theorems about the first, and about the other two; the three side by side for TLC |
| `RtabmapLaunch` | pure operators: arguments, defaults, conditions and topics of the RTAB-Map launch files |
| `Bringup` | launching: tables of arguments, nodes, handlers, data |
| `BringupProofs`, `MCBringup` | theorems about it; the command lines for TLC |

`UbxReceiver` composes `UbxFraming` with a line and refines `UbxDelivery`; `Bringup` composes
the five launch files with each other and with what they include.

Left for a continuation, in this order: a composition of `TruckHardware`'s heartbeat and channel
writes with the arming window of `RcioPwm` (where the 2 s retries of `enable_pwm` meet the 0.1 s
window of the driver); the export register and the update flag of `rcio_gpio.c`; the
probe, unwinding and removal of `rcio_core.c`; the packet exchange of `rcio_spi.c` against
the atomic registers that `RcioPwm` assumes; the byte-wise scanner of `Ublox.cpp` against
`UbxDelivery`; the conversions from commands to duty cycles with their widths and clamps.

## 3. `RcioPwm`

### State and actions

The driver's statics are variables of their own. `at`, `someUpdated`, `stage`, `loaded` are the
program counter and the locals of each thread inside `rcio_pwm_update`; `op` is the
program counter of the call on each channel. `exported` and `state` are the PWM core's;
`devDuty`, `devFreq`, `devExported` are the coprocessor's registers; `ops`, `forces`, `fails`
count against bounds.

*The update* (`UpdateStep`) follows `rcio_pwm_update` in the order of its lines: the snapshot
`some_freq_updated`, the arming, then either the clear and `freq_update_noticed`, or one
frequency update (transfer, store of the frequency, reset of the flag), or the zero window
and the stream of `values[]`. *A call on a channel* (`StartApply`, `CallStep`) follows
`rcio_pwm_apply` and `rcio_pwm_config`; `RequestPin`, `ExportPin`, `FreePin` follow
`rcio_pwm_request`, `rcio_pwm_get_state` and `rcio_pwm_free`. *A GPIO caller* (`ForceStep`) loads
and stores the countdown and runs an update of its own. `StoreHeartbeat`, `Tick` and
`StoreIgnoreMask` are the heartbeat file, the passing of time and the `pwmignore` file.

Granularity:

- one action per SPI transfer, and one per store of a static that another thread reads or
  writes. Two accesses stay in one action only when the first commutes with what other
  threads do in between.
- `x++`, `x--` and `+=` on the countdown are a load and a store. The decrement in
  `rcio_set_zero_values` starts from the tested value or from a fresh one: both are code a
  compiler may produce for the unprotected static.
- the loops over `values[]` (zeroing) and over the flags (snapshot) are single steps.

Abstractions: a pulse length is the frequency it was computed for, so a duty is 0 or a member
of `Freq`: the properties tell apart whether there is a pulse, and for which frequency it was
meant. Jiffies are a countdown `armLeft`, without the wrap of the counter. The device starts
as the probe leaves it after success, with GPIO support in the firmware.
The PWM core is external and modelled from the way kernel 6.8 uses a chip: a lock
per exported channel, `->apply` skipped for an unchanged state, request and free under one
global lock, an unexport only when no file operation is under way. An export that is
refused at once changes nothing and is a stutter.

### Properties

| Property | Says | Checked | Proved |
|---|---|---|---|
| `TypeOK` | types | yes | `TypeCorrect` |
| `ValueFollowsState` | between two calls a channel's value in the driver is 0 or the pulse its enabled state asks for | yes | `ValueFollowsStateHolds` |
| `DisabledIsOff` | a disabled channel is off at the device, in spite of overlapping streams | yes | `DisabledIsOffHolds` |
| `NoticedIsCleared` | `freq_update_noticed` means that the outputs are cleared, over as many cycles as the update takes | yes | `NoticedIsClearedHolds` |
| `UpdateAfterClear` | a cycle that knew of a request changes the frequency on cleared outputs only | yes | `UpdateAfterClearHolds` |
| `Settles` | while heartbeats keep coming, the device ends up with the driver's values and no update pending | yes | no |
| `WindowEnds` | zero windows end, whatever the lost decrements | yes | no |

`Settles` does not see a request for a frequency that is swallowed: between lines 141 and 194 of
`rcio_pwm.c` the flag of a request that came in the meantime is reset with that of the one served, and
the device is never sent the frequency asked for. The model does the same; no property denies it.

Each exclusion in a property is one the code does not keep its promise in, and TLC finds a
counterexample when it is dropped: a lost transfer for the clear, a GPIO caller
as a second updater for `freq_update_noticed`, an ignored pin for the count of running outputs.

### Runs and bounds

| Run | Instance | Shows |
|---|---|---|
| `pwm_new_way` | 2 channels of one group, 2 frequencies, 7 calls, no GPIO caller, no fault | all safety properties under every interleaving of the worker with two clients |
| `pwm_live` | 2 channels, one of them ignorable and the other a GPIO pin, a GPIO caller, 2 forces, 1 lost transfer, 4 calls | `Settles`, `WindowEnds` under `FairSpec` |
| `pwm_claim_clear` | 5 calls | what the comment on the clear says and the code does not do |

Seven calls are what two channels need for export, period, duty and enable on one
of them with a conflicting request and a disabling on the other, all overlapping one frequency
handshake of three cycles. One lost transfer is enough to reach each place where a
result is ignored; two forces are the least that overlap. What the safety run leaves out
is covered by the theorems, which hold for all constants: several groups, the older firmware
(`AdvTimer = FALSE`), GPIO callers as further updaters, ignored pins and faults. Deadlock is
checked: a heartbeat can always be written.

*Fairness.* `FairSpec` assumes that a thread inside the driver is scheduled again (a kernel
thread that is never blocked but for the SPI lock; a caller in a system call). It
assumes nothing of clients, of time, or of heartbeats: `Settles` states its need of
heartbeats as its premise.

### Proofs

From the named assumptions on the constants alone (any number of channels, groups, callers,
calls and faults).

- `TypeOK` is inductive.
- `ValueFollowsState` is not: it is about idle channels, and a call in progress has already
  changed `state`. `CallInv` adds what holds at each place of a call: after the switch-off
  the value is 0, inside `rcio_pwm_config` the channel is exported and enabled, and
  before `export` it is not exported. With it, zeroing by the updater cannot
  hurt since it only turns values into 0.
- `DisabledIsOff` needs `OffInv`: off from the place `disarm` on, and, for a channel about to
  be exported, off since the running outputs were counted. The stream of a whole array copies
  the value 0 that `CallInv` gives.
- `NoticedIsCleared` and `UpdateAfterClear` need `ClearInv`, a fact about the worker's place:
  past the branch it is no longer noticed, and in the middle of an update it still is.

## 4. `TruckHardware`

### State and actions

`lifecycle` is the state of the ros2_control component. `pwm` is the channels as the kernel
keeps them: exported, enabled, duty. `enable`, `startApplied`, `gearApplied`, `gearState` are
members of the class, `mStart`, `mEnable`, `mTraction`, `reverseMode` and the ages are the
function statics of `write()`. One action per callback, since the controller manager runs
them one at a time: `Configure`, `Cleanup`, `Activate`, `Deactivate`, `Shutdown`, `Read`, `Write`.
`Crash` ends the process and starts it again with the channels as they were.

An access to a channel may fail. The operators `EnablePwm`, `DisableAll`, `ExportAll`, ... give the
set of outcomes of the code's functions; the callback goes on after a failure or gives up as
the code does, with the state as it is half way. A callback that returns ERROR ends in
`finalized`, since `on_error` is not overridden, and so does `Shutdown`, which leaves
the channels alone: after it nothing happens but a crash, hence `CHECK_DEADLOCK FALSE`.
`Read` and `Write` run in `inactive` as in `active`: that is what ros2_control does.

Time is counted in ticks and kept as ages, each up to the value its threshold tells apart.
`MaxGap` lets a cycle come late, beyond a threshold in one step. Commands are chosen freely at
each write. Duties are abstracted to the part they play; `neutral` is 1.5 ms. The
order of the joints is the order of the `std::map`, and the small instance keeps one crane
joint of six, before the wheels in that order. Joint positions, applied horn states, the
parsing of `on_init`, and the value of the steering angle are left out. The 2 s of retries in
`enable_pwm` and `disable_pwm` are abstracted to success or failure.
`sounded` and `heldOver` are observers: how long the horn has warned without a break, and
whether a start was under way at the activation.

### Properties

| Property | Says | Exclusion |
|---|---|---|
| `TypeOK` | types | |
| `StoppedIsOff` | joints are enabled only if the last write knew the truck as started | after a crash the channels stay enabled |
| `ReportedStart` | a reported start means that every joint is enabled | a start held over an activation |
| `WarnedBeforeDrive` | the horn has warned for 3 s when the truck is released | a start held over, a failed access |
| `NoShiftUnderPower` | the traction never goes from forward straight to reverse | a failed access |
| `AbortedIsNeutral` | a write that gives up leaves no joint that pulls | more than one failed access; the steering keeps its angle |

All of them are model-checked and proved (`TruckHardwareProofs`).

### Runs and bounds

| Run | Instance | Shows |
|---|---|---|
| `truck_cycle` | 3 transitions, 1 failed access, 1 crash, a cycle each tick, start 3 ticks, stop 1, brake 1, reverse 2 | start, stop and restart with transitions between any two cycles, a failure at every access, and what a new process finds |
| `truck_claim_deactivate` | 5 transitions, no failure, gaps of 1 or 2 ticks | a comment the code does not follow |

Three transitions allow configure, activate and a deactivation or cleanup, and the crash a second
life with the channels of the first. Three ticks tell a start that is given up early from one that
completes. Late cycles that skip over a threshold, longer lifecycles and more failures are
what the theorems add: they hold for every bound.

### Proofs

The theorems hold for every list of joints with the steering and the traction in it, all
delays (the brake phase no longer than the change to reverse), gaps between cycles and bounds
on transitions, crashes and failures. None of the properties is inductive; each has an
invariant beside it in the module, which adds what the code relies on:

| Property | Invariant | What it adds |
|---|---|---|
| `StoppedIsOff` | `StoppedInv` | the joints are off before a configuration, which enters the running states with the channels as they are |
| `ReportedStart` | `StartedInv` | `mEnable` stands between the joints and the report: set, it means all joints enabled; a report means that it is set |
| `WarnedBeforeDrive` | `WarnInv` | while a start is under way the horn is enabled, its duty is the warning, and it has sounded at least as long as the start lasts |
| `NoShiftUnderPower` | `ShiftInv` | with the traction forward neither the reverse mode nor a negative command is left over, so that the next negative command starts the change anew |
| `AbortedIsNeutral` | `RestInv` | between the write that changes `enable` and the one that enables or disables the joints, the joints have neutral duties |

The proof has three layers. First come lemmas about the files after a series of accesses, of
which any may fail (`SetDutiesEffect`, `EnableAllEffect`, `DisableAllEffect`, ...). From them
there is one lemma per callback (`ConfigureEffect`, ..., `WriteEffect`) that says which
channels are enabled, which duties they have and whether an access failed. Each theorem then goes
through the callbacks once, from these lemmas and `TypeCorrect`. `FaultlessWrite` is what remains
of `WriteEffect` when nothing failed, which is what the last three properties speak of.

## 5. The u-blox receiver

### Reception: `UbxFraming`, `UbxReceiver`, `UbxDelivery`

The line is a sequence of bytes. `pos` is how many have been read, `buf` the `_buf` of
the message under construction, `pc` the place in `receive_message`: no call, before a read, or
with a whole message before `special_handling`. `preferred` is the preferences of the user, set before
the first call. `got` and `cuts` are history: the messages returned, and the places at which a call
gave up.

`ReadSome(n)` is one turn of the loop: it reads any number of bytes up to the number
needed, as a serial device hands them over, and adds them. `Add` follows `add()`: join,
drop bytes from the front until what is left may still become a message, throw away a
buffer longer than its message. `ReadNothing` is a read that returns nothing, which ends the call
unless `ignore_eof` is set; `Alarm` an exception from outside, the `TimeoutError` of
`receive_message_nonblocking` or the error of a device that fails, between any two steps. `Fail` is the
error that `special_handling` raises by itself: for a type without a descriptor; for a CFG_NAV5, which it
always unpacks (`ublox.py:850-851`), or a CFG_NAVX5 it has a preference for, when the length is not that of
the layout (`Misfit`), as with a poll of length 0; and for a preference that does not fit a byte, at which
`pack` fails (`Refuses`). Each of them loses the bytes of the message under construction. `Return` hands out
what `special_handling` leaves (`Handled`): the bytes of the line, or, when a setting differs from its
preference, the message with that byte replaced and packed anew. Bytes and checksums are the real ones, since
the scanner decides by them. What `special_handling` sends is the subject of `UbxConfig`, and so are
preferences that change between two calls.

| Property | Says | Checked | Proved |
|---|---|---|---|
| `TypeOK` | types | yes | `ReceiverTypeCorrect` |
| `BufferIsContiguous` | the buffer is a stretch of the line that ends at the last byte read: no gap, no byte twice | yes | `BufferIsContiguousHolds` |
| `WaitsForSomething` | the loop never asks for zero bytes, which it would take for the end of the file | yes | `WaitsForSomethingHolds` |
| `NothingSkipped` | noise, damage and the size of the pieces cost no message but those that a false header reaches into, those at which `special_handling` fails, and those in which a call gave up | yes | `NothingSkippedHolds` |
| `Delivers` | the receiver implements `UbxDelivery`: valid messages, each one of the line but for the settings preferred, in its order, none twice and no two sharing a byte | yes | `DeliversHolds` |
| `AllReturned` | a caller that does not give up gets every undisturbed message that `special_handling` takes | yes | no |

*Run `ubx_stream`.* The lines (`MCStreams`) are up to two of ten pieces, and damage before two whole
messages: a short message, a poll with an empty payload, a message whose payload looks like a
header, an unknown type, idle bytes of an SPI receiver, a flipped bit in the payload and in the
length (too long, too short), a message cut short, half a preamble; and on lines of their own a whole report
of each kind and one that is too short. Either nothing is preferred, or two settings of CFG_NAV5 that fit
a byte and one of CFG_NAVX5 that does not. One call gives up at
most. That is enough for each way in which the scanner loses and finds its place, with something behind
that has to survive, and for each outcome of `special_handling`; 175,000 states. `CHECK_DEADLOCK FALSE`, because a line that is
read to its end is an end.

*Fairness.* Weak fairness of `Receive` alone: the caller keeps calling and bytes that are on the
line are read. Nothing is assumed of reads that return nothing or of alarms; `AllReturned`
is about calls that have neither.

*Proofs.* For every set of lines (`StreamsAssumption`) and of preferences, integers of any size
(`PreferencesAssumption`), and every bound. The inductive invariant `Inv` adds to the
three stated properties what is in the buffer at each place of a call (`Place`: it may still
become a message; it is one when `special_handling` is next) and that the messages returned
end before the buffer begins (`Before`). The lemmas go from `add()` outwards: the loop that drops
bytes stops (`DroppedStops`, which needs a least element of a set of naturals), what it leaves is a
suffix that is valid so far and not longer than its message (`AddKeeps`), and the suffix lies at the
end of what was read (`ReadKeeps`). `FrameOnLine` says that a valid buffer is a message of the line
in the sense of `UbxDelivery`. The refinement maps `out` to `got` with the place of the
first byte added: initial states map to initial states (`InitDelivers`), `Return` to `Deliver`
(`ReturnDelivers`), every other step to a stutter (`NextDelivers`). `HandledIs` says what `special_handling`
leaves of a message: the same type and length, the same bytes but for preferred settings, and a checksum
to match, for which the running sums have to be bytes (`ChecksumType`).

The second part of `UbxReceiverProofs` is that nothing is skipped. Its invariant `Safe` says of each message that is due: it
lies ahead of the buffer, or begins in it with nothing behind its end read yet, or was returned, or a call gave up
in it. The step that needs care is `add()`: the bytes asked for reach at most to the end of the
message (`ReadReaches`), and dropping bytes from the front stops at its preamble at the latest
(`DropReaches`), so that the buffer is the message when its end is read (`WholeMessage`).

### Configuration: `UbxConfig`

`preferred` is the three preferences of the class, `toRx` and `toHost` the messages on their way,
`handling` the program counter of `special_handling` between what it sends and the poll after it.
The receiver is external: it answers polls, takes over what a message flags, saves and restarts; `refuses` is
what it does not let be set. The user sets, changes and withdraws preferences, sets the
satellites, saves and resets at any time between two receptions. Faults are a lost message in
either direction, a restart, and the alarm in the middle of `special_handling`.

`FallsSilent`: the exchange of reports, answers and polls ends. `Converges`: in the end each
preference is in force, unless the receiver refuses it or something was lost since it was set,
which `undone` records. Both need the order of queues: a stale report that is on its way
when a preference is set is answered with old values of all other fields, and only the poll after it
puts that right.

*Run `ubx_config`.* Two dynamic models, two timeouts, three calls, one fault; 830,000 states. Three
calls are a preference, one that contradicts it, and a command that disturbs both. Two instances
are left out because the code does not come to an end there: a receiver that refuses the
dynamic model or `usePPP` is asked for ever, and so is one whose reports do not flag `usePPP` in
`mask1`, because the `mask` that line 872 sets is no field of the message. Both are listed as
hazards. *Fairness* is weak, of the host that keeps receiving and the receiver that keeps answering.
The calls are bounded, so the system may stop: `CHECK_DEADLOCK FALSE`.

*Proofs.* `ConfigTypeCorrect`, for any bounds (`BoundsAssumption`). The content of this type invariant is
that no answer carries a field that no report or preference gave it, none flags a field it does
not have, and `special_handling` only answers what it can answer. Both other properties are liveness
and stay with TLC.

### Messages: `UbxMessage`

The table `msg_types` keeps of each descriptor the sizes of its blocks, the number of its fields,
the field that counts repeated blocks and their size. A payload is its length, its count and its
values, each known by its place. `Unpack`, `Format` (which unpacks when nobody did), `Pack` and
`SetField` follow the code under Python 3 with every way to fail half way, such as fields stored before the
error is found, `_unpacked` set too early, and the buffer emptied before `pack` fails. The user may set
any field of the layout, one the message has or not, to a value that fits or to one that `struct.pack`
refuses (`Refused`: out of range, or of another type); he may set the field that counts the repeated blocks,
and values within those (`SetInBlock`). `counted` is the value of that field, `OwnCount` that the payload still has
the count the receiver sent.

`StaysWellFormed`: whatever is set and packed, a message that was unpacked has the length of whole blocks
and of all its records and lacks none of their fields, and it can be unpacked again unless its count was set; or
`pack` raised and nothing is left. `ShownIsWhole`: what `str()` shows are all the fields of the payload and as
many repeated blocks as it counts, unless the count was set. `PackKeeps`: packing changes what was edited and
nothing else, and destroys the message only for a value that is refused or a field that was added. A count that
is set is packed as it is, so the code makes a message that disagrees with itself: the two conditions
are there for it. Three types are odd, and modelled as they are: AID_AOP lists a
name twice (excluded from `PackKeeps`), AID_ALM has a string where the list of fields belongs (every
`unpack` raises), and MON_VER computes a count that is a float (`range()` raises).

*Proofs.* For every type of the table, any payload length, any edits, refused ones included, and any sequence
of calls. The loops over the blocks are folds over one or two blocks, evaluated once per descriptor (`Table`), so
the proofs are about any record whose layout is one of the table. `MsgInv` says what a message owes
to its last call, whether it failed half way or not: its fields are those of the first blocks of its type
(`Held`), it has records only if its type has one block in front of them and a count (`Repeats`), once
unpacked its payload and its fields agree in length and count (`Agrees`), and what was accepted is the
blocks and exactly the records counted. From it follow `MessageTypeCorrect`, `StaysWellFormedHolds`,
`ShownIsWholeHolds` and the action property `PackKeepsHolds`. The number of records is a variable: no
induction is needed, since records are described by their number and places.

*Run `ubx_message`.* All types of the table; lengths at and beside the end of each block and of up to
two repeated blocks; one value set, which may be any field or a value in a block; 22,000 states. One is enough
for each way in which `pack` fails, the theorems cover any number. Deadlock is checked.

## 6. The sensors: `Mpu9250`, `Lsm9ds1`, `Ms5611`

A method is a sequence of accesses (`mpuTodo`, `lsmTodo`, `baroTodo`), and the chip does its part
between any two of them: it samples, copies bytes from the magnetometer, ends a conversion. Sleeps
are steps in which that has happened at least once. Numbers are abstracted to where they come from: a
sample is the range it was taken with, a divider the range it belongs to, a byte the register it was
copied from, a pressure the conversion it was read from. That is what the properties need, since the
arithmetic itself is one formula without a branch that depends on another call.

| Property | Says |
|---|---|
| `MpuTypeOK`, `LsmTypeOK`, `BaroTypeOK` | types |
| `DividersMatch` | between calls a divider is the one of the range in the chip, also after the ranges `initialize` writes and replaces |
| `SampleMatchesDivider` | no sample is divided by the divider of another range, unless the user has changed the range himself |
| `BytesAreTheirs` | sensitivity and magnetometer come from their registers, whatever shares slave 0 |
| `ScalesMatch` | after masked writes in any order a scale is that of its register and the sensor is still on (without a failed transfer) |
| `KeptInBodyFrame` | all readings the object keeps are in one frame (without a failed transfer) |
| `UpdateIsWhole` | pressure and temperature of `update` were both measured in that call, whatever was started, read or broken off before |

*Run `sensors`.* Four calls of any methods: an initialisation, a change, and two readings that
disturb each other. One transfer of the LSM9DS1 or MS5611 fails, with `OSError` in the middle of a
method; for the MPU9250 this is left out. One class is used per behaviour, since they share nothing but
a bus that is open for one transfer. Both interpreters occur for the LSM9DS1: `xrange` ends its readings
under Python 3. `CHECK_DEADLOCK FALSE` because the calls are bounded.

*Proofs.* For any ranges and any number of calls and failed transfers. A property of a sensor looks at the end
of a call, so it is not inductive. The invariants add two things: which step may follow which in what
is left of a method, and what each state owes to it. The methods are shown to be such sequences once
per method, what is left after a step is one again, and then there is one lemma per action.

- `SensorProofs`, MS5611: `BaroTypeCorrect`, `UpdateIsWholeHolds`. `Whole` says what each access finds done
  (`Ready`), such as the pressure of this call in `d1` and its temperature converted, or under
  conversion, when the second sleep begins.
- `SensorProofs`, LSM9DS1: `LsmTypeCorrect`, `ScalesMatchHolds`, `KeptInBodyFrameHolds`. In `LsmInv` a scale is
  that of its register unless a step that sets it is left, and the register that of the next such step
  once no other write is left (`Scaled`); a list is in the frame of the chip while the step that turns
  it is left and the one that reads it is not (`Framed`). Since a scale is then never `None` when a sensor
  is read, only Python 3 ends a reading early, and it does so before the first list is written.
- `Mpu9250Proofs`: `MpuTypeCorrect`, `DividersMatchHolds`, `SampleMatchesDividerHolds`,
  `BytesAreTheirsHolds`. `MpuInv` says where in which method the user is (`Initializing`, `Fetching`,
  `Taking`, `Scaling`: a method and the number of accesses made) and what those accesses have achieved.
  Two facts carry the bytes of the magnetometer: it measures continuously whenever slave 0 reads its
  results, and its mode register `CNTL1` is written only with a mode in the output register (`Defined`).
  Both hold across the methods, which leave slave 0 set up for each other.

## 7. Bringing up: `RtabmapLaunch`, `Bringup`

`RtabmapLaunch` translates the two files of the mapping into operators: which arguments are
declared in which order, what their defaults refer to, when a node is started, and which topics it then
reads and writes. An image that is taken in a transport is the topic of the transport's name below it
(`Encoded`, `EncodedDepth`): republishers and `rgbd_sync` (`rtabmap.launch.py:91-92`) listen to those, and
a camera publishes both forms. `Bringup` runs launch files. `conf` is the table of arguments of a launch, `todo` the
entities it still has to visit, `nodes` what it started, `flows` the topics on which data arrives. One
action per kind of entity (`DeclareArgument`, `SetArgument`, `IncludeFile`, `StartNode`,
`RegisterHandler`), `EndWithError` for an argument that is read before it is declared, `Publish` for a
node that is fed, `SpawnerEnds` and `SpawnerFails` for spawners, whose exit runs the handlers.

What `ros2 launch` does is external: included files share one table, a declaration only sets what is
missing, and a launch visits all its entities before its processes run. So are the files of other
packages (nav2, the camera), of which only the topics that connect them are kept.

| Property | Says |
|---|---|
| `TypeOK` | types |
| `OnePublisher` | no topic and no frame has two publishers, in a launch or between two; the transform that the drive controller itself may publish is not among the frames |
| `OnlyGuiIsMissing` | none of the arguments kept here is read undeclared, but `gui` in `view_robot.launch.py:55` |
| `EveryNodeIsFed` | a node that is started ends up with its inputs, unless it is one of two cases, in which it never does |
| `NavigationDrives` | with vehicle, camera and navigation launched in any order, the velocity reaches the drive controller, and the joint states are spawned |

Exclusions: a switch written `True`, which some places read as true and others do not; a camera told not
to publish its inertial unit; `remap_odometry_tf`, with which neither the drive controller nor the joint
states are spawned.

`EveryNodeIsFed` is an equivalence: all nodes are fed but those that `Starves` names, and these are not.
One is the point cloud, outside the namespace, when images come synchronised. The other comes with `compressed:=true
rgbd_sync:=true` for colour and depth: `rgbd_sync` listens to transports of the relayed topics
(`rtabmap.launch.py:91-92, 101-102`), and `republish` publishes these plain only (lines 76, 84). It then stays
silent, and so does all that takes the synchronised image. The property says nothing of nodes that run without a
consumer, such as `rgbd_sync` with `subscribe_rgbd:=false`.

*Proofs.* For any set of launches, any command lines in which a switch is written `true`, `True` or
`false` (`SetupsAssumption`), in any interleaving, and any number of failing spawners.

- `BringupTypeCorrect`, `OnlyGuiIsMissingHolds`. That an entity finds its arguments is decided by
  entities before it, of which some are still to be visited, so `BringInv` speaks of the whole list a
  launch has ahead: it is `Served` by the table, that is, each entity's arguments are in the table or set by
  an entity before it. Taking the first entity off keeps that (`ServedTail`), putting a file in the place
  of its include keeps it (`ServedInclude`), and every file is served to begin with (`RtabmapServed`,
  `TruckServed`, ..., `IncludeServed`), the viewer only if `gui` is granted to it.
- `OnePublisherHolds`, under `Ordinary`: no command line names a topic, namespace or frame, and neither
  `rtabmap_realsense.launch.py` runs beside `rtabmap.launch.py` nor the viewer beside the vehicle. Both are
  needed, since a user can always give two nodes one name. Every command line of the run is ordinary. `PubInv` has four parts. Each argument
  for a name has one of a few values (`Table`), of which the relay topics follow `compressed`. No
  argument is set over after a node relied on it: nothing ahead sets arguments once a node of the mapping
  runs or a relay topic is declared (`Ahead`, `Settled`), which is what the order of the includes gives. What runs
  fulfils its condition in the present table (`Running`). And the word of a topic, its second or third
  name, tells the place of its publisher (`Word`, `Words`). Two publishers of one topic then have the same
  place (`WordsDisjoint`), are in one launch (`CrewsApart`), and are one node, because the conditions of those
  that share a place exclude each other (`OneOfAKind`).
- `JointStatesWaitHolds`. The joint states are spawned only after the spawner of the drive controller has
  ended (the handler at `truck.launch.py:161-168`), in any interleaving and whichever spawner fails. The
  entity of a handler becomes the list ahead when the process ends, so `WaitInv` speaks of that list as well.
- `NavigationIsConnectedHolds`, under `Ordinary`: every topic and frame the navigation takes is published
  by the mapping and the odometry that run beside it, and its velocity goes to the drive controller's
  topic. nav2 and RTAB-Map share one table, in which the first to set a name decides. `ConnInv` says that
  nav2's file is still ahead of RTAB-Map's or has set the namespace (`NavigationFirst`), and that the frame of
  the vehicle is passed before an entity relies on it or is in the table (`FrameAhead`). This is the safety
  part of `NavigationDrives`, which TLC checks. The two properties are stated in `BringupProofs` and by no run.

*Run `bringup`.* `rtabmap.launch.py` with every combination of six switches or one of them written
`True`, and with `subscribe_rgbd` given or not; the viewer; and vehicle, camera and navigation side by side with one
spawner that fails; 90,000 states. What sensors publish for a command line is given with it (`Outside`): images with their transports, or the transports
alone when the images are to come compressed.
*Fairness* is weak, per launch: files are visited, fed nodes publish, spawners of a running
controller manager end. A system that is up stops changing: `CHECK_DEADLOCK FALSE`.

## 8. What the claims show

Four runs end in a counterexample on purpose: each checks one sentence of the repository.

- `pwm_claim_clear`: a request between the snapshot of a cycle and its loop is served without
  the clear that `rcio_pwm.c:181-183` speaks of.
- `truck_claim_deactivate`: deactivation leaves the crane enabled, and it goes on being driven
  (`truck.cpp:420`).
- `mpu_claim_motion`: `getMotion9` hands out, as values of the magnetometer, bytes that slave 0
  fetched from another register before, because the sleep of `read_all` is commented out.
- `lsm_claim_frame`: a list that `getMotion9` returned is overwritten by the next read with values that
  are not turned, and is left so when the object replaces its own list by the turned one.

More things are listed as hazards without a run: `rgbd_sync` waits for transports that nobody publishes
when the images come compressed (section 7); `03_vehicle_runtime/README.md:111` promises
that outputs are disabled when heartbeats stop, whereas the driver only stops sending; and
`read()` can publish a gear that was never assigned.

## 9. What is only model-checked, and what is not modelled

Every invariant and every action property that a passing run checks is also proved, `OnePublisher` under
the condition `Ordinary` of section 7. Only checked by TLC is liveness, which the prover does not reach:
`Settles`, `WindowEnds`, `AllReturned`, `FallsSilent`, `Converges`, `EveryNodeIsFed`, `NavigationDrives`. The
four properties of the runs of section 8 do not hold.

Not modelled:

- the continuation listed in section 2: GPIO registers, probe and removal, SPI packets, the C++
  scanner, pulse widths, and the composition of heartbeat and arming window;
- ADC, RC input, status and safety: periodic reads in the worker which nothing else depends on;
- the sensor node: timers that read and publish, without state between two of them;
- the C++ drivers of IMU, barometer and I2C: the originals of the Python classes, with the same
  register sequences;
- user-space GPIO and LED access, and the other Python files: single reads and writes without state;
- in the modelled Python: opening and seeking the device, logging, NMEA, payloads of the remaining
  `configure_*` calls, conversions of bytes to numbers, temperatures and self tests;
- in the launch files: tuning parameters, quality of service, queue sizes, log levels (and the order in which
  those arguments are declared), the window of rviz, the drive controller's own odometry transform;
- supervision: a script of one sequence; robot description and system setup: data.
