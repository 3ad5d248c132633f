-------------------------- MODULE UbxConfigProofs --------------------------
(* Type correctness of the automatic configuration, for any models,        *)
(* timeouts and satellites, any receiver, and any number of calls and      *)
(* faults: what special_handling makes of a report is a message the        *)
(* receiver can take, and what it takes are settings it can have.          *)
EXTENDS UbxConfig, TLAPS

Answer == Nav5 \cup NavX5
Message == Answer \cup Poll \cup Command
Handling == {Idle} \cup [do : {"send"}, msg : Answer, pollit : BOOLEAN]
                   \cup [do : {"poll"}, of : {"CFG_NAV5", "CFG_NAVX5"}]

LEMMA Queues ==
  ASSUME NEW S, NEW q \in Seq(S)
  PROVE  /\ \A x \in S : Append(q, x) \in Seq(S)
         /\ q # <<>> => Head(q) \in S /\ Tail(q) \in Seq(S)
OBVIOUS

(* A report with the preferences put in is a message of its kind, and      *)
(* carries no None: a preference that is not set leaves what is reported.  *)
LEMMA PreferencesPutIn ==
  ASSUME TypeOK, NEW report \in Answer
  PROVE  WithPreferences(report) \in Answer /\ WithPreferences(report).name = report.name
<1>1. \A s \in Preferences : \A x : Wants(s, x) => preferred[s] # None
  BY DEF Wants
<1>2. /\ preferred["dynModel"] \in Models \cup {None}
      /\ preferred["dgpsTimeOut"] \in Timeouts \cup {None}
      /\ preferred["usePPP"] \in {0, 1, None}
  BY DEF TypeOK
<1>3. CASE report \in Nav5
  <2>1. /\ DOMAIN report = {"name", "dynModel", "dgpsTimeOut"} /\ report.name = "CFG_NAV5"
        /\ report.dynModel \in Models /\ report.dgpsTimeOut \in Timeouts
    BY <1>3 DEF Nav5
  <2>2. PICK m \in Models :
          m = IF Wants("dynModel", report.dynModel) THEN preferred["dynModel"] ELSE report.dynModel
    BY <1>1, <1>2, <2>1 DEF Preferences
  <2>3. PICK t \in Timeouts :
          t = IF Wants("dgpsTimeOut", report.dgpsTimeOut) THEN preferred["dgpsTimeOut"]
              ELSE report.dgpsTimeOut
    BY <1>1, <1>2, <2>1 DEF Preferences
  <2>4. WithPreferences(report) = [name |-> "CFG_NAV5", dynModel |-> m, dgpsTimeOut |-> t]
    BY <2>1, <2>2, <2>3 DEF WithPreferences, Preferences
  <2> QED
    BY <2>1, <2>4 DEF Answer, Nav5
<1>4. CASE report \in NavX5
  <2>1. /\ DOMAIN report = {"name", "usePPP", "sats", "mask1"} /\ report.name = "CFG_NAVX5"
        /\ report.usePPP \in {0, 1} /\ report.sats \in Sats
        /\ report.mask1 \in SUBSET {"usePPP", "sats"}
    BY <1>4 DEF NavX5
  <2>2. PICK p \in {0, 1} :
          p = IF Wants("usePPP", report.usePPP) THEN preferred["usePPP"] ELSE report.usePPP
    BY <1>1, <1>2, <2>1 DEF Preferences
  <2>3. WithPreferences(report) =
          [name |-> "CFG_NAVX5", usePPP |-> p, sats |-> report.sats, mask1 |-> report.mask1]
    BY <2>1, <2>2 DEF WithPreferences, Preferences
  <2> QED
    BY <2>1, <2>3 DEF Answer, NavX5
<1> QED
  BY <1>3, <1>4 DEF Answer

(* What the receiver takes over leaves settings it can have: a message     *)
(* flags only what it has a field for.                                     *)
LEMMA AppliedTyped ==
  ASSUME TypeOK, NEW msg \in Answer
  PROVE  Applied(msg) \in Values
<1>1. /\ rx.dynModel \in Models /\ rx.dgpsTimeOut \in Timeouts /\ rx.usePPP \in {0, 1}
      /\ rx.sats \in Sats
  BY DEF TypeOK, Values
<1>2. /\ "dynModel" \in Flagged(msg) => msg.dynModel \in Models
      /\ "dgpsTimeOut" \in Flagged(msg) => msg.dgpsTimeOut \in Timeouts
      /\ "usePPP" \in Flagged(msg) => msg.usePPP \in {0, 1}
      /\ "sats" \in Flagged(msg) => msg.sats \in Sats
  <2>1. CASE msg \in Nav5
    BY <2>1 DEF Nav5, Flagged
  <2>2. CASE msg \in NavX5
    BY <2>2 DEF NavX5, Flagged
  <2> QED
    BY <2>1, <2>2 DEF Answer
<1>3. PICK r : r = Applied(msg)
  OBVIOUS
<1>4. /\ r = [s \in Settings |-> r[s]]
      /\ r["dynModel"] \in Models /\ r["dgpsTimeOut"] \in Timeouts /\ r["usePPP"] \in {0, 1}
      /\ r["sats"] \in Sats
  BY <1>1, <1>2, <1>3 DEF Applied, Settings, Preferences
<1>5. Settings = {"dynModel", "dgpsTimeOut", "usePPP", "sats"}
  BY DEF Settings, Preferences
<1> QED
  BY <1>3, <1>4, <1>5 DEF Values

LEMMA ReportTyped ==
  ASSUME TypeOK, NEW of \in {"CFG_NAV5", "CFG_NAVX5"}
  PROVE  Report(of) \in Answer
<1>1. Mask1 \in SUBSET {"usePPP", "sats"}
  BY SettingsAssumption
<1> QED
  BY <1>1 DEF Report, TypeOK, Values, Answer, Nav5, NavX5

(* TypeOK with the unions named.                                           *)
Typed ==
  /\ preferred \in [dynModel : Models \cup {None}, dgpsTimeOut : Timeouts \cup {None},
                    usePPP : {0, 1, None}]
  /\ rx \in Values /\ saved \in Values /\ refuses \subseteq Refusable
  /\ toRx \in Seq(Message) /\ toHost \in Seq(Answer) /\ handling \in Handling
  /\ calls \in 0..MaxCalls /\ faults \in 0..MaxFaults /\ undone \subseteq Settings

LEMMA TypeNow == (TypeOK <=> Typed) /\ (TypeOK' <=> Typed')
BY DEF TypeOK, Typed, Message, Answer, Handling

LEMMA PollTyped ==
  ASSUME NEW of \in {"CFG_NAV5", "CFG_NAVX5"}
  PROVE  [name |-> "poll", of |-> of] \in Message
BY DEF Message, Poll

LEMMA InitTypeOK == Init => TypeOK
<1> SUFFICES ASSUME Init PROVE TypeOK
  OBVIOUS
<1>1. /\ preferred \in [dynModel : Models \cup {None}, dgpsTimeOut : Timeouts \cup {None},
                        usePPP : {0, 1, None}]
      /\ rx \in Values /\ saved \in Values /\ refuses \subseteq Refusable
  BY DEF Init, Preferences
<1>2. toRx \in Seq(Message) /\ toHost \in Seq(Answer) /\ handling \in Handling
  BY DEF Init, Handling
<1>3. calls \in 0..MaxCalls /\ faults \in 0..MaxFaults /\ undone \subseteq Settings
  BY BoundsAssumption DEF Init
<1> QED
  BY <1>1, <1>2, <1>3, TypeNow DEF Typed

LEMMA UserTypeOK == ASSUME TypeOK, User PROVE TypeOK'
<1>1. UserCall
  BY DEF User, SetPreferredDynamicModel, SetPreferredDgpsTimeout, SetPreferredUsePPP, Prefer,
         ConfigureMinMaxSats, SendCommand
<1>2. /\ calls' \in 0..MaxCalls
      /\ UNCHANGED <<rx, saved, refuses, toHost, handling, faults>>
  BY <1>1, BoundsAssumption DEF UserCall, receiver, TypeOK
<1>3. /\ preferred' \in [dynModel : Models \cup {None}, dgpsTimeOut : Timeouts \cup {None},
                         usePPP : {0, 1, None}]
      /\ toRx' \in Seq(Message) /\ undone' \subseteq Settings
  <2>1. toRx \in Seq(Message)
    BY TypeNow DEF Typed
  <2>2. CASE SetPreferredDynamicModel \/ SetPreferredDgpsTimeout
    <3>1. toRx' = toRx \/ toRx' = Append(toRx, [name |-> "poll", of |-> "CFG_NAV5"])
      BY <2>2 DEF SetPreferredDynamicModel, SetPreferredDgpsTimeout, Prefer, ConfigurePoll
    <3>2. toRx' \in Seq(Message)
      BY <2>1, <3>1, PollTyped, Queues
    <3>3. /\ preferred' \in [dynModel : Models \cup {None}, dgpsTimeOut : Timeouts \cup {None},
                             usePPP : {0, 1, None}]
          /\ undone' \subseteq Settings
      BY <2>2 DEF SetPreferredDynamicModel, SetPreferredDgpsTimeout, Prefer, TypeOK
    <3> QED
      BY <3>2, <3>3
  <2>3. CASE SetPreferredUsePPP
    <3>1. toRx' = toRx \/ toRx' = Append(toRx, [name |-> "poll", of |-> "CFG_NAVX5"])
      BY <2>3 DEF SetPreferredUsePPP, Prefer, ConfigurePoll
    <3>2. toRx' \in Seq(Message)
      BY <2>1, <3>1, PollTyped, Queues
    <3>3. /\ preferred' \in [dynModel : Models \cup {None}, dgpsTimeOut : Timeouts \cup {None},
                             usePPP : {0, 1, None}]
          /\ undone' \subseteq Settings
      BY <2>3 DEF SetPreferredUsePPP, Prefer, TypeOK
    <3> QED
      BY <3>2, <3>3
  <2>4. CASE \E s \in Sats : ConfigureMinMaxSats(s)
    <3>1. PICK s \in Sats : ConfigureMinMaxSats(s)
      BY <2>4
    <3>2. [name |-> "CFG_NAVX5", usePPP |-> 0, sats |-> s, mask1 |-> {"sats"}] \in Message
      BY DEF Message, Answer, NavX5
    <3>3. toRx' \in Seq(Message)
      BY <2>1, <3>1, <3>2, Queues DEF ConfigureMinMaxSats
    <3> QED
      BY <3>1, <3>3 DEF ConfigureMinMaxSats, TypeOK
  <2>5. CASE \E c \in {"CFG_CFG", "CFG_RST"} : SendCommand(c)
    <3>1. PICK c \in {"CFG_CFG", "CFG_RST"} : SendCommand(c)
      BY <2>5
    <3>2. [name |-> c] \in Message
      BY DEF Message, Command
    <3>3. toRx' \in Seq(Message)
      BY <2>1, <3>1, <3>2, Queues DEF SendCommand
    <3> QED
      BY <3>1, <3>3 DEF SendCommand, TypeOK
  <2> QED
    BY <2>2, <2>3, <2>4, <2>5 DEF User
<1> QED
  <2>1. Typed
    BY TypeNow
  <2> QED
    BY <2>1, <1>2, <1>3, TypeNow DEF Typed

LEMMA HandleTypeOK == ASSUME TypeOK, Handle PROVE TypeOK'
<1>1. Typed
  BY TypeNow
<1>2. UNCHANGED <<preferred, rx, saved, refuses, calls, faults, undone>>
  BY DEF Handle, ReceiveReport, SendReport, PollReport, receiver, bounds
<1>3. toRx' \in Seq(Message) /\ toHost' \in Seq(Answer) /\ handling' \in Handling
  <2>1. toRx \in Seq(Message) /\ toHost \in Seq(Answer) /\ handling \in Handling
    BY <1>1 DEF Typed
  <2>2. Idle \in Handling /\ Idle.do = "receive"
    BY DEF Handling, Idle
  <2>3. CASE ReceiveReport
    <3>1. PICK report \in Answer : report = Head(toHost) /\ toHost' = Tail(toHost) /\ toRx' = toRx
      BY <2>1, <2>3, Queues DEF ReceiveReport
    <3>2. PICK msg \in Answer : msg = WithPreferences(report)
      BY PreferencesPutIn
    <3>3. PollAgain(report) \in BOOLEAN
      BY DEF PollAgain, Wants
    <3>4. handling' = IF msg = report THEN Idle
                      ELSE [do |-> "send", msg |-> msg, pollit |-> PollAgain(report)]
      BY <2>3, <3>1, <3>2 DEF ReceiveReport
    <3>5. [do |-> "send", msg |-> msg, pollit |-> PollAgain(report)] \in Handling
      BY <3>3 DEF Handling
    <3>6. toHost' \in Seq(Answer)
      BY <2>1, <2>3, Queues DEF ReceiveReport
    <3> QED
      BY <2>1, <2>2, <3>1, <3>4, <3>5, <3>6
  <2>4. CASE SendReport
    <3>1. handling \in [do : {"send"}, msg : Answer, pollit : BOOLEAN]
      BY <2>1, <2>4, <2>2 DEF SendReport, Handling
    <3>2. PICK msg \in Answer : msg = handling.msg /\ msg.name \in {"CFG_NAV5", "CFG_NAVX5"}
      BY <3>1 DEF Answer, Nav5, NavX5
    <3>3. toRx' = Append(toRx, msg) /\ toHost' = toHost
      BY <2>4, <3>2 DEF SendReport
    <3>4. toRx' \in Seq(Message)
      <4>1. msg \in Message
        BY DEF Message
      <4> QED
        BY <2>1, <3>3, <4>1, Queues
    <3>5. handling' \in Handling
      BY <2>2, <2>4, <3>2 DEF SendReport, Handling
    <3> QED
      BY <2>1, <3>3, <3>4, <3>5
  <2>5. CASE PollReport
    <3>1. handling \in [do : {"poll"}, of : {"CFG_NAV5", "CFG_NAVX5"}]
      BY <2>1, <2>5, <2>2 DEF PollReport, Handling
    <3>2. [name |-> "poll", of |-> handling.of] \in Message
      BY <3>1, PollTyped
    <3>3. toRx' \in Seq(Message) /\ handling' = Idle /\ toHost' = toHost
      BY <2>1, <2>5, <3>2, Queues DEF PollReport, ConfigurePoll
    <3> QED
      BY <2>1, <2>2, <3>3
  <2> QED
    BY <2>3, <2>4, <2>5 DEF Handle
<1> QED
  BY <1>1, <1>2, <1>3, TypeNow DEF Typed

LEMMA RxHandleTypeOK == ASSUME TypeOK, RxHandle PROVE TypeOK'
<1>1. Typed
  BY TypeNow
<1>2. UNCHANGED <<preferred, handling, calls, faults, undone>> /\ toRx # <<>> /\ toRx' = Tail(toRx)
  BY DEF RxHandle, bounds
<1>3. PICK msg \in Message : msg = Head(toRx)
  BY <1>1, <1>2, Queues DEF Typed
<1>4. toRx' \in Seq(Message)
  BY <1>1, <1>2, Queues DEF Typed
<1>5. /\ msg.name = "poll" => msg.of \in {"CFG_NAV5", "CFG_NAVX5"}
      /\ msg.name \in {"CFG_NAV5", "CFG_NAVX5"} => msg \in Answer
  BY DEF Message, Answer, Nav5, NavX5, Poll, Command
<1>6. /\ rx' \in Values /\ saved' \in Values /\ refuses' = refuses
      /\ toHost' \in Seq(Answer)
  <2>1. rx \in Values /\ saved \in Values /\ toHost \in Seq(Answer)
    BY <1>1 DEF Typed
  <2>2. CASE msg.name = "poll" /\ toHost' = Append(toHost, Report(msg.of)) /\ UNCHANGED receiver
    <3>1. Report(msg.of) \in Answer
      BY <1>5, <2>2, ReportTyped
    <3>2. toHost' \in Seq(Answer)
      BY <2>1, <2>2, <3>1, Queues
    <3> QED
      BY <2>1, <2>2, <3>2 DEF receiver
  <2>3. CASE /\ msg.name \in {"CFG_NAV5", "CFG_NAVX5"} /\ rx' = Applied(msg)
             /\ UNCHANGED <<saved, refuses, toHost>>
    BY <1>5, <2>1, <2>3, AppliedTyped
  <2>4. CASE saved' = rx /\ UNCHANGED <<rx, refuses, toHost>>
    BY <2>1, <2>4
  <2>5. CASE rx' = saved /\ UNCHANGED <<saved, refuses, toHost>>
    BY <2>1, <2>5
  <2> QED
    BY <1>3, <2>2, <2>3, <2>4, <2>5 DEF RxHandle
<1> QED
  BY <1>1, <1>2, <1>4, <1>6, TypeNow DEF Typed

LEMMA FaultTypeOK ==
  ASSUME TypeOK, LoseCommand \/ LoseReport \/ RxRestart \/ Alarm
  PROVE  TypeOK'
<1>1. Typed
  BY TypeNow
<1>2. Fault
  BY DEF LoseCommand, LoseReport, RxRestart, Alarm
<1>3. preferred' = preferred /\ calls' = calls /\ faults' \in 0..MaxFaults /\ undone' \subseteq Settings
  BY <1>1, <1>2, BoundsAssumption DEF Fault, Typed
<1>4. /\ rx' \in Values /\ saved' \in Values /\ refuses' \subseteq Refusable
      /\ toRx' \in Seq(Message) /\ toHost' \in Seq(Answer) /\ handling' \in Handling
  <2>1. /\ rx \in Values /\ saved \in Values /\ refuses \subseteq Refusable
        /\ toRx \in Seq(Message) /\ toHost \in Seq(Answer) /\ handling \in Handling
    BY <1>1 DEF Typed
  <2>2. Idle \in Handling /\ <<>> \in Seq(Message)
    BY DEF Handling
  <2>3. CASE LoseCommand
    BY <2>1, <2>3, Queues DEF LoseCommand, receiver
  <2>4. CASE LoseReport
    BY <2>1, <2>4, Queues DEF LoseReport, receiver
  <2>5. CASE RxRestart
    BY <2>1, <2>2, <2>5 DEF RxRestart
  <2>6. CASE Alarm
    BY <2>1, <2>2, <2>6 DEF Alarm, receiver
  <2> QED
    BY <2>3, <2>4, <2>5, <2>6
<1> QED
  BY <1>1, <1>3, <1>4, TypeNow DEF Typed

(* Type correctness: no message carries None, whichever preferences are    *)
(* set, changed or withdrawn while reports are on their way, and the       *)
(* receiver is never told a value it cannot have.                          *)
THEOREM ConfigTypeCorrect == Spec => []TypeOK
<1>1. Init => TypeOK
  BY InitTypeOK
<1>2. TypeOK /\ [Next]_vars => TypeOK'
  <2> SUFFICES ASSUME TypeOK, [Next]_vars PROVE TypeOK'
    OBVIOUS
  <2>1. CASE User
    BY <2>1, UserTypeOK
  <2>2. CASE Handle
    BY <2>2, HandleTypeOK
  <2>3. CASE RxHandle
    BY <2>3, RxHandleTypeOK
  <2>4. CASE LoseCommand \/ LoseReport \/ RxRestart \/ Alarm
    BY <2>4, FaultTypeOK
  <2>5. CASE UNCHANGED vars
    <3>1. Typed
      BY TypeNow
    <3>2. UNCHANGED <<preferred, rx, saved, refuses, toRx, toHost, handling, calls, faults, undone>>
      BY <2>5 DEF vars
    <3>3. Typed'
      BY <3>1, <3>2 DEF Typed
    <3> QED
      BY <3>3, TypeNow
  <2> QED
    BY <2>1, <2>2, <2>3, <2>4, <2>5 DEF Next
<1> QED
  BY <1>1, <1>2, PTL DEF Spec
=============================================================================
