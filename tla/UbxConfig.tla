----------------------------- MODULE UbxConfig -----------------------------
(* The automatic configuration of class UBlox in navio/ublox.py: the       *)
(* set_preferred_* calls poll the receiver, and special_handling answers   *)
(* each report that differs from the preferences with the report, changed, *)
(* and mostly with another poll.  The receiver is external.                *)
EXTENDS Naturals, Sequences

CONSTANTS Models,     (* dynamic models *)
          Timeouts,   (* DGPS timeouts *)
          Sats,       (* arguments of configure_min_max_sats *)
          None,
          Refusable,  (* settings some receivers do not let be set *)
          Mask1,      (* settings flagged in the mask1 of a CFG_NAVX5 report *)
          MaxCalls,   (* bound: calls of the user *)
          MaxFaults   (* bound: lost messages, restarts and alarms *)

Preferences == {"dynModel", "dgpsTimeOut", "usePPP"}
Settings == Preferences \cup {"sats"}
ASSUME SettingsAssumption == Refusable \subseteq Settings /\ Mask1 \subseteq {"usePPP", "sats"}
ASSUME NoneAssumption == None \notin Models \cup Timeouts \cup {0, 1}
ASSUME BoundsAssumption == MaxCalls \in Nat /\ MaxFaults \in Nat

VARIABLES preferred,  (* preferred_dynamic_model, _dgps_timeout and _usePPP *)
          rx,         (* the settings of the receiver *)
          saved,      (* those it starts with *)
          refuses,    (* those it does not let be set *)
          toRx,       (* messages to the receiver *)
          toHost,     (* reports to the host *)
          handling,   (* special_handling: what it is about to do *)
          calls, faults,
          undone      (* history: settings something was lost of since set *)

vars == <<preferred, rx, saved, refuses, toRx, toHost, handling, calls, faults, undone>>
receiver == <<rx, saved, refuses>>
bounds == <<calls, faults>>

Values == [dynModel : Models, dgpsTimeOut : Timeouts, usePPP : {0, 1}, sats : Sats]
Nav5 == [name : {"CFG_NAV5"}, dynModel : Models, dgpsTimeOut : Timeouts]
NavX5 == [name : {"CFG_NAVX5"}, usePPP : {0, 1}, sats : Sats, mask1 : SUBSET {"usePPP", "sats"}]
Poll == [name : {"poll"}, of : {"CFG_NAV5", "CFG_NAVX5"}]
Command == [name : {"CFG_CFG", "CFG_RST"}]
Idle == [do |-> "receive"]

TypeOK ==
  /\ preferred \in [dynModel : Models \cup {None}, dgpsTimeOut : Timeouts \cup {None},
                    usePPP : {0, 1, None}]
  /\ rx \in Values
  /\ saved \in Values
  /\ refuses \subseteq Refusable
  /\ toRx \in Seq(Nav5 \cup NavX5 \cup Poll \cup Command)
  /\ toHost \in Seq(Nav5 \cup NavX5)
  /\ handling \in {Idle} \cup [do : {"send"}, msg : Nav5 \cup NavX5, pollit : BOOLEAN]
                         \cup [do : {"poll"}, of : {"CFG_NAV5", "CFG_NAVX5"}]
  /\ calls \in 0..MaxCalls
  /\ faults \in 0..MaxFaults
  /\ undone \subseteq Settings

Init ==
  /\ preferred = [s \in Preferences |-> None]
  /\ rx \in Values
  /\ saved = rx
  /\ refuses \in SUBSET Refusable
  /\ toRx = <<>>
  /\ toHost = <<>>
  /\ handling = Idle
  /\ calls = 0
  /\ faults = 0
  /\ undone = {}
----------------------------------------------------------------------------
(* The user's calls, made between two calls of receive_message.            *)
UserCall ==
  /\ handling = Idle
  /\ calls < MaxCalls
  /\ calls' = calls + 1
  /\ UNCHANGED <<receiver, toHost, handling, faults>>

ConfigurePoll(of) == toRx' = Append(toRx, [name |-> "poll", of |-> of])

(* Setting a preference polls; withdrawing one does not.                   *)
Prefer(setting, value, of) ==
  /\ UserCall
  /\ preferred' = [preferred EXCEPT ![setting] = value]
  /\ IF value = None THEN UNCHANGED toRx ELSE ConfigurePoll(of)
  /\ undone' = undone \ {setting}

SetPreferredDynamicModel ==
  \E m \in Models \cup {None} : Prefer("dynModel", m, "CFG_NAV5")
SetPreferredDgpsTimeout ==
  \E t \in Timeouts \cup {None} : Prefer("dgpsTimeOut", t, "CFG_NAV5")
SetPreferredUsePPP ==
  \E p \in {0, 1, None} : Prefer("usePPP", p, "CFG_NAVX5")

\* The slip of flagging every field of the message.
ConfigureMinMaxSatsAll(s) ==
  /\ UserCall
  /\ toRx' = Append(toRx, [name |-> "CFG_NAVX5", usePPP |-> 0, sats |-> s,
                           mask1 |-> {"usePPP", "sats"}])
  /\ UNCHANGED <<preferred, undone>>

(* configure_min_max_sats flags only the satellites, and zeroes the rest.  *)
ConfigureMinMaxSats(s) ==
  /\ UserCall
  /\ toRx' = Append(toRx, [name |-> "CFG_NAVX5", usePPP |-> 0, sats |-> s,
                           mask1 |-> {"sats"}])
  /\ UNCHANGED <<preferred, undone>>

(* configure_loadsave and module_reset.                                    *)
SendCommand(c) ==
  /\ UserCall
  /\ toRx' = Append(toRx, [name |-> c])
  /\ undone' = IF c = "CFG_RST" THEN Settings ELSE undone
  /\ UNCHANGED preferred
----------------------------------------------------------------------------
Wants(setting, reported) ==
  preferred[setting] # None /\ preferred[setting] # reported

\* The slip of putting in preferences that were never set.
WithPreferencesUnset(report) ==
  [s \in DOMAIN report |-> IF s \in Preferences THEN preferred[s] ELSE report[s]]

(* The report with the preferences put in.                                 *)
WithPreferences(report) ==
  [s \in DOMAIN report |->
     IF s \in Preferences /\ Wants(s, report[s]) THEN preferred[s] ELSE report[s]]

\* The slip of polling after every change.
PollAlways(report) == TRUE

(* A new DGPS timeout alone is not polled for, "as some receivers refuse   *)
(* to set it".                                                             *)
PollAgain(report) ==
  IF report.name = "CFG_NAV5" THEN Wants("dynModel", report.dynModel) ELSE TRUE

(* receive_message takes a report and calls special_handling.  The mask    *)
(* that it sets for usePPP is no field of CFG_NAVX5, so the message goes   *)
(* out with the mask1 of the report.                                       *)
ReceiveReport ==
  /\ handling = Idle
  /\ toHost # <<>>
  /\ LET report == Head(toHost)
         msg == WithPreferences(report)
     IN handling' = IF msg = report THEN Idle
                    ELSE [do |-> "send", msg |-> msg, pollit |-> PollAgain(report)]
  /\ toHost' = Tail(toHost)
  /\ UNCHANGED <<preferred, receiver, toRx, bounds, undone>>

SendReport ==
  /\ handling.do = "send"
  /\ toRx' = Append(toRx, handling.msg)
  /\ handling' = IF handling.pollit THEN [do |-> "poll", of |-> handling.msg.name] ELSE Idle
  /\ UNCHANGED <<preferred, receiver, toHost, bounds, undone>>

PollReport ==
  /\ handling.do = "poll"
  /\ ConfigurePoll(handling.of)
  /\ handling' = Idle
  /\ UNCHANGED <<preferred, receiver, toHost, bounds, undone>>

Handle == ReceiveReport \/ SendReport \/ PollReport
----------------------------------------------------------------------------
(* The receiver (external): it answers a poll, takes over what a message   *)
(* sets and its mask flags, saves, and starts again from what it saved.    *)
Report(of) ==
  IF of = "CFG_NAV5"
  THEN [name |-> of, dynModel |-> rx.dynModel, dgpsTimeOut |-> rx.dgpsTimeOut]
  ELSE [name |-> of, usePPP |-> rx.usePPP, sats |-> rx.sats, mask1 |-> Mask1]

Flagged(msg) == IF msg.name = "CFG_NAV5" THEN {"dynModel", "dgpsTimeOut"} ELSE msg.mask1

Applied(msg) ==
  [s \in Settings |-> IF s \in Flagged(msg) \ refuses THEN msg[s] ELSE rx[s]]

RxHandle ==
  /\ toRx # <<>>
  /\ toRx' = Tail(toRx)
  /\ LET msg == Head(toRx) IN
       \/ /\ msg.name = "poll"
          /\ toHost' = Append(toHost, Report(msg.of))
          /\ UNCHANGED receiver
       \/ /\ msg.name \in {"CFG_NAV5", "CFG_NAVX5"}
          /\ rx' = Applied(msg)
          /\ UNCHANGED <<saved, refuses, toHost>>
       \/ /\ msg.name = "CFG_CFG"
          /\ saved' = rx
          /\ UNCHANGED <<rx, refuses, toHost>>
       \/ /\ msg.name = "CFG_RST"
          /\ rx' = saved
          /\ UNCHANGED <<saved, refuses, toHost>>
  /\ UNCHANGED <<preferred, handling, bounds, undone>>

(* Faults: a message is damaged on its way and dropped by the scanner of   *)
(* the other side, the receiver restarts, or SIGALRM ends the call while   *)
(* special_handling is at work.                                            *)
Fault ==
  /\ faults < MaxFaults
  /\ faults' = faults + 1
  /\ undone' = Settings
  /\ UNCHANGED <<preferred, calls>>
LoseCommand ==
  Fault /\ toRx # <<>> /\ toRx' = Tail(toRx) /\ UNCHANGED <<receiver, toHost, handling>>
LoseReport ==
  Fault /\ toHost # <<>> /\ toHost' = Tail(toHost) /\ UNCHANGED <<receiver, toRx, handling>>
RxRestart ==
  Fault /\ rx' = saved /\ toRx' = <<>> /\ UNCHANGED <<saved, refuses, toHost, handling>>
Alarm ==
  Fault /\ handling # Idle /\ handling' = Idle /\ UNCHANGED <<receiver, toRx, toHost>>

User ==
  \/ SetPreferredDynamicModel \/ SetPreferredDgpsTimeout \/ SetPreferredUsePPP
  \/ \E s \in Sats : ConfigureMinMaxSats(s)
  \/ \E c \in {"CFG_CFG", "CFG_RST"} : SendCommand(c)

Next ==
  User \/ Handle \/ RxHandle \/ LoseCommand \/ LoseReport \/ RxRestart \/ Alarm

(* The host keeps receiving and the receiver keeps answering.              *)
Spec == Init /\ [][Next]_vars /\ WF_vars(Handle) /\ WF_vars(RxHandle)
----------------------------------------------------------------------------
Met(setting) == preferred[setting] \in {None, rx[setting]}
Quiet == toRx = <<>> /\ toHost = <<>> /\ handling = Idle

(* The conversation of special_handling with the receiver comes to an end, *)
(* whatever was lost, also when the receiver refuses the DGPS timeout: the *)
(* host does not answer reports for ever.                                  *)
FallsSilent == <>[]Quiet

(* A preference that the receiver accepts is in force in the end, whatever *)
(* stale reports and other messages are on their way when it is set; only  *)
(* a loss or a restart since then can leave it undone.                     *)
Converges ==
  \A s \in Preferences : <>[](Met(s) \/ s \in refuses \cup undone)
=============================================================================
