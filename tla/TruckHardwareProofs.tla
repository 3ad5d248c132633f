------------------------- MODULE TruckHardwareProofs -------------------------
(***************************************************************************)
(* Theorems about TruckHardware for every value of its constants: any      *)
(* joints in any order, any delays, any number of transitions, crashes and *)
(* failed accesses.                                                        *)
(***************************************************************************)
EXTENDS TruckHardware, FiniteSetTheorems, TLAPS

-----------------------------------------------------------------------------
(***************************************************************************)
(* What the accesses to the PWM files leave behind                         *)
(***************************************************************************)
\* There are finitely many channels.
LEMMA ChannelFinite == IsFiniteSet(Channel)
<1>1. JointOrder \in Surjection(1 .. Len(JointOrder), Joints)
  BY JointAssumption DEF Surjection, Joints
<1>2. IsFiniteSet(Joints)
  BY <1>1, FS_Surjection, FS_Interval, JointAssumption
<1>3. IsFiniteSet({"gear"} \cup Joints)
  BY <1>2, FS_Union, FS_Singleton
<1>4. IsFiniteSet({"horn"} \cup ({"gear"} \cup Joints))
  BY <1>3, FS_Union, FS_Singleton
<1> QED
  BY <1>4 DEF Channel

\* The accesses that fail fit into what is left of the bound.
LEMMA LostCount ==
  ASSUME NEW p \in PwmFiles, NEW cs \in SUBSET Channel, NEW l \in Lost(cs, p)
  PROVE  /\ l \subseteq cs
         /\ Cardinality(l) \in Nat /\ p.fails + Cardinality(l) \in 0 .. MaxFails
         /\ Cardinality(l) = 0 <=> l = {}
<1>1. p.fails \in 0 .. MaxFails /\ MaxFails \in Nat
  BY BoundAssumption DEF PwmFiles
<1>2. CASE SpareFails(p) = 0
  <2>1. l = {}
    BY <1>2 DEF Lost
  <2> QED
    BY <2>1, <1>1, FS_EmptySet
<1>3. CASE SpareFails(p) # 0
  <2>1. l \subseteq cs /\ Cardinality(l) <= SpareFails(p)
    BY <1>3 DEF Lost
  <2>2. IsFiniteSet(l)
    BY <2>1, ChannelFinite, FS_Subset
  <2>3. Cardinality(l) \in Nat
    BY <2>2, FS_CardinalityType
  <2>4. Cardinality(l) = 0 <=> l = {}
    BY <2>2, FS_EmptySet
  <2> QED
    BY <2>1, <2>3, <2>4, <1>1 DEF SpareFails
<1> QED
  BY <1>2, <1>3

\* Writing duty cycles changes duty cycles of these channels only, and all of
\* them unless an access fails.
LEMMA SetDutiesEffect ==
  ASSUME NEW p \in PwmFiles, NEW D \in SUBSET Channel, NEW d \in [D -> Pulse],
         NEW q \in SetDuties(p, d)
  PROVE  /\ q \in PwmFiles
         /\ q.on = p.on /\ q.fails >= p.fails
         /\ \A c \in Channel \ D : q.duty[c] = p.duty[c]
         /\ \A c \in D : q.duty[c] \in {p.duty[c], d[c]}
         /\ q.fails = p.fails => \A c \in D : q.duty[c] = d[c]
<1>1. PICK lost \in Lost(D, p) :
        q = [p EXCEPT !.duty = [c \in Channel |-> IF c \in D \ lost THEN d[c] ELSE @[c]],
                      !.fails = @ + Cardinality(lost)]
  BY DEF SetDuties
<1>2. /\ lost \subseteq D
      /\ Cardinality(lost) \in Nat /\ p.fails + Cardinality(lost) \in 0 .. MaxFails
      /\ Cardinality(lost) = 0 <=> lost = {}
  BY LostCount
<1>3. /\ p.exported \subseteq Channel /\ p.on \subseteq Channel
      /\ p.duty \in [Channel -> Pulse] /\ p.fails \in Nat
  BY BoundAssumption DEF PwmFiles
<1>4. /\ q = [exported |-> p.exported, on |-> p.on,
             duty |-> [c \in Channel |-> IF c \in D \ lost THEN d[c] ELSE p.duty[c]],
             fails |-> p.fails + Cardinality(lost)]
  BY <1>1 DEF PwmFiles
<1>5. [c \in Channel |-> IF c \in D \ lost THEN d[c] ELSE p.duty[c]] \in [Channel -> Pulse]
  BY <1>3
<1>6. q \in PwmFiles
  BY <1>2, <1>3, <1>4, <1>5 DEF PwmFiles
<1> QED
  BY <1>2, <1>3, <1>4, <1>6

\* Files after n more accesses have failed
LEMMA WithFails ==
  ASSUME NEW p \in PwmFiles, NEW n \in Nat, p.fails + n <= MaxFails
  PROVE  LET q == Failed(p, n) IN
         /\ q \in PwmFiles /\ q.fails = p.fails + n
         /\ q.exported = p.exported /\ q.on = p.on /\ q.duty = p.duty
<1>1. /\ p.exported \in SUBSET Channel /\ p.on \in SUBSET Channel
      /\ p.duty \in [Channel -> Pulse] /\ p.fails + n \in 0 .. MaxFails
  BY BoundAssumption DEF PwmFiles
<1>2. Failed(p, n) =
        [exported |-> p.exported, on |-> p.on, duty |-> p.duty, fails |-> p.fails + n]
  BY DEF Failed, PwmFiles
<1>3. [exported |-> p.exported, on |-> p.on, duty |-> p.duty, fails |-> p.fails + n] \in PwmFiles
  BY <1>1 DEF PwmFiles
<1> QED
  BY <1>2, <1>3

\* Files with other channels enabled
LEMMA WithOn ==
  ASSUME NEW p \in PwmFiles, NEW on \in SUBSET Channel
  PROVE  LET q == [p EXCEPT !.on = on] IN
         /\ q \in PwmFiles /\ q.on = on
         /\ q.exported = p.exported /\ q.duty = p.duty /\ q.fails = p.fails
<1>1. /\ p.exported \in SUBSET Channel /\ p.duty \in [Channel -> Pulse]
      /\ p.fails \in 0 .. MaxFails
  BY DEF PwmFiles
<1>2. [p EXCEPT !.on = on] =
        [exported |-> p.exported, on |-> on, duty |-> p.duty, fails |-> p.fails]
  BY DEF PwmFiles
<1>3. [exported |-> p.exported, on |-> on, duty |-> p.duty, fails |-> p.fails] \in PwmFiles
  BY <1>1 DEF PwmFiles
<1> QED
  BY <1>2, <1>3

\* The channels that the first entries of an order name
LEMMA UpToType ==
  ASSUME NEW order \in Seq(Channel), NEW n \in 0 .. Len(order)
  PROVE  /\ UpTo(order, n) \subseteq UpTo(order, Len(order))
         /\ UpTo(order, Len(order)) \subseteq Channel
BY DEF UpTo

\* The orders in which channels are enabled and exported
LEMMA ChannelOrderType ==
  /\ JointOrder \in Seq(Channel) /\ ChannelOrder \in Seq(Channel)
  /\ <<"horn", "gear">> \in Seq(Channel)
  /\ UpTo(JointOrder, Len(JointOrder)) = Joints
  /\ UpTo(<<"horn", "gear">>, Len(<<"horn", "gear">>)) = {"horn", "gear"}
<1>1. \A i \in 1 .. Len(JointOrder) : JointOrder[i] \in Channel
  BY DEF Channel, Joints
<1>2. JointOrder \in Seq(Channel)
  BY <1>1, JointAssumption
<1>3. <<"horn", "gear">> \in Seq(Channel)
  BY DEF Channel
<1>4. ChannelOrder \in Seq(Channel)
  BY <1>2, <1>3 DEF ChannelOrder
<1>5. UpTo(JointOrder, Len(JointOrder)) = Joints
  BY DEF UpTo, Joints
<1>6. UpTo(<<"horn", "gear">>, Len(<<"horn", "gear">>)) = {"horn", "gear"}
  BY DEF UpTo
<1> QED
  BY <1>2, <1>3, <1>4, <1>5, <1>6

\* Enabling channels
LEMMA EnabledEffect ==
  ASSUME NEW p \in PwmFiles, NEW cs \in SUBSET Channel
  PROVE  /\ Enabled(p, cs) \in PwmFiles
         /\ Enabled(p, cs).on = p.on \cup cs /\ Enabled(p, cs).fails = p.fails
         /\ \A c \in Channel : Enabled(p, cs).duty[c] = IF c \in cs THEN "neutral" ELSE p.duty[c]
<1>1. p.on \cup cs \in SUBSET Channel
  BY DEF PwmFiles
<1> DEFINE q == [p EXCEPT !.on = p.on \cup cs]
<1>2. /\ q \in PwmFiles /\ q.on = p.on \cup cs
      /\ q.duty = p.duty /\ q.fails = p.fails
  BY <1>1, WithOn
<1>3. Enabled(p, cs) =
        [q EXCEPT !.duty = [c \in Channel |-> IF c \in cs THEN "neutral" ELSE @[c]]]
  BY DEF Enabled
<1> HIDE DEF q
<1>4. /\ q.exported \in SUBSET Channel /\ q.duty \in [Channel -> Pulse]
      /\ q.fails \in 0 .. MaxFails
  BY <1>2 DEF PwmFiles
<1>5. Enabled(p, cs) =
        [exported |-> q.exported, on |-> q.on,
         duty |-> [c \in Channel |-> IF c \in cs THEN "neutral" ELSE q.duty[c]],
         fails |-> q.fails]
  BY <1>2, <1>3 DEF PwmFiles
<1>6. [c \in Channel |-> IF c \in cs THEN "neutral" ELSE q.duty[c]] \in [Channel -> Pulse]
  BY <1>4 DEF Pulse
<1>7. Enabled(p, cs) \in PwmFiles
  BY <1>1, <1>2, <1>4, <1>5, <1>6 DEF PwmFiles
<1> QED
  BY <1>2, <1>5, <1>7

\* A failure of enable_pwm may leave the channel enabled, with its old duty.
LEMMA EnableFailuresEffect ==
  ASSUME NEW p \in PwmFiles, NEW c \in Channel, NEW r \in EnableFailures(p, c)
  PROVE  /\ r.files \in PwmFiles /\ r.ok = FALSE
         /\ p.on \subseteq r.files.on /\ r.files.on \subseteq p.on \cup {c}
         /\ r.files.fails = p.fails + 1 /\ r.files.duty = p.duty
<1>1. /\ p.on \subseteq Channel /\ p.fails \in Nat /\ p.fails <= MaxFails /\ MaxFails \in Nat
  BY BoundAssumption DEF PwmFiles
<1>2. /\ SpareFails(p) # 0
      /\ \/ r = Outcome(p, 1, FALSE)
         \/ r = Outcome([p EXCEPT !.on = @ \cup {c}], 1, FALSE)
  BY Zenon DEF EnableFailures
<1>3. p.fails + 1 <= MaxFails
  BY <1>1, <1>2 DEF SpareFails
<1>4. CASE r = Outcome(p, 1, FALSE)
  <2>1. r.files = Failed(p, 1) /\ r.ok = FALSE
    BY <1>4 DEF Outcome
  <2> QED
    BY <1>3, <2>1, WithFails
<1>5. CASE r = Outcome([p EXCEPT !.on = @ \cup {c}], 1, FALSE)
  <2> DEFINE q == [p EXCEPT !.on = p.on \cup {c}]
  <2>1. /\ q \in PwmFiles /\ q.on = p.on \cup {c}
        /\ q.duty = p.duty /\ q.fails = p.fails
    BY <1>1, WithOn
  <2>2. r = Outcome(q, 1, FALSE)
    BY <1>5
  <2> HIDE DEF q
  <2>3. r.files = Failed(q, 1) /\ r.ok = FALSE
    BY <2>2 DEF Outcome
  <2> QED
    BY <1>3, <2>1, <2>3, WithFails
<1> QED
  BY <1>2, <1>4, <1>5

\* Enabling channels in order, up to a failure
LEMMA EnableAllEffect ==
  ASSUME NEW p \in PwmFiles, NEW order \in Seq(Channel), NEW r \in EnableAll(p, order)
  PROVE  LET cs == UpTo(order, Len(order)) IN
         /\ r.files \in PwmFiles /\ r.ok \in BOOLEAN
         /\ p.on \subseteq r.files.on /\ r.files.on \subseteq p.on \cup cs
         /\ \A c \in Channel : r.files.duty[c] \in {p.duty[c], IF c \in cs THEN "neutral" ELSE p.duty[c]}
         /\ r.ok => r.files.on = p.on \cup cs /\ r.files.fails = p.fails
                    /\ \A c \in cs : r.files.duty[c] = "neutral"
         /\ ~r.ok => r.files.fails = p.fails + 1
<1> DEFINE cs == UpTo(order, Len(order))
<1>1. Len(order) \in 0 .. Len(order) /\ cs \subseteq Channel
  BY UpToType
<1>2. CASE r = Outcome(Enabled(p, cs), 0, TRUE)
  <2> DEFINE e == Enabled(p, cs)
  <2>1. /\ e \in PwmFiles /\ e.on = p.on \cup cs /\ e.fails = p.fails
        /\ \A c \in Channel : e.duty[c] = IF c \in cs THEN "neutral" ELSE p.duty[c]
    BY <1>1, EnabledEffect
  <2>2. p.fails \in Nat /\ p.fails <= MaxFails
    BY BoundAssumption DEF PwmFiles
  <2>3. r = Outcome(e, 0, TRUE)
    BY <1>2
  <2> HIDE DEF e
  <2>5. r.files = Failed(e, 0) /\ r.ok = TRUE
    BY <2>3 DEF Outcome
  <2>4. /\ r.files \in PwmFiles /\ r.ok = TRUE
        /\ r.files.on = e.on /\ r.files.duty = e.duty /\ r.files.fails = e.fails
    BY <2>1, <2>2, <2>5, WithFails
  <2> HIDE DEF cs
  <2> QED
    BY <1>1, <2>1, <2>4 DEF cs
<1>3. CASE r # Outcome(Enabled(p, cs), 0, TRUE)
  <2>1. PICK i \in 1 .. Len(order) : r \in EnableFailures(Enabled(p, UpTo(order, i - 1)), order[i])
    BY <1>3 DEF EnableAll
  <2>2. i - 1 \in 0 .. Len(order) /\ order[i] \in cs
    BY DEF UpTo
  <2>3. UpTo(order, i - 1) \subseteq cs
    BY <2>2, UpToType
  <2>4. Enabled(p, UpTo(order, i - 1)) \in PwmFiles
    BY <2>3, <1>1, EnabledEffect
  <2> DEFINE e == Enabled(p, UpTo(order, i - 1))
  <2>5. /\ e.on = p.on \cup UpTo(order, i - 1) /\ e.fails = p.fails
        /\ \A c \in Channel : e.duty[c] = IF c \in UpTo(order, i - 1) THEN "neutral" ELSE p.duty[c]
    BY <2>3, <1>1, EnabledEffect
  <2>7. r \in EnableFailures(e, order[i]) /\ e \in PwmFiles /\ order[i] \in Channel
    BY <2>1, <2>2, <2>4, <1>1
  <2> HIDE DEF e
  <2>6. /\ r.files \in PwmFiles /\ r.ok = FALSE
        /\ e.on \subseteq r.files.on /\ r.files.on \subseteq e.on \cup {order[i]}
        /\ r.files.fails = e.fails + 1 /\ r.files.duty = e.duty
    BY <2>7, EnableFailuresEffect
  <2> HIDE DEF cs
  <2> QED
    BY <2>2, <2>3, <2>5, <2>6, <1>1 DEF cs
<1> QED
  BY <1>2, <1>3

\* Disabling channels, in spite of failures
LEMMA DisableAllEffect ==
  ASSUME NEW p \in PwmFiles, NEW cs \in SUBSET Channel, NEW r \in DisableAll(p, cs)
  PROVE  /\ r.files \in PwmFiles /\ r.ok \in BOOLEAN
         /\ r.files.on \subseteq p.on /\ p.on \ cs \subseteq r.files.on
         /\ r.files.duty = p.duty /\ r.files.fails >= p.fails
         /\ r.ok => r.files.on = p.on \ cs /\ r.files.fails = p.fails
         /\ ~r.ok => r.files.fails > p.fails
<1>1. PICK kept \in Lost(cs, p) :
        r = Outcome([p EXCEPT !.on = @ \ (cs \ kept)], Cardinality(kept), kept = {})
  BY DEF DisableAll
<1>2. /\ kept \subseteq cs
      /\ Cardinality(kept) \in Nat /\ p.fails + Cardinality(kept) \in 0 .. MaxFails
      /\ Cardinality(kept) = 0 <=> kept = {}
  BY LostCount
<1>3. p.on \subseteq Channel /\ p.fails \in Nat /\ MaxFails \in Nat
  BY BoundAssumption DEF PwmFiles
<1> DEFINE q == [p EXCEPT !.on = p.on \ (cs \ kept)]
<1>4. /\ q \in PwmFiles /\ q.on = p.on \ (cs \ kept)
      /\ q.duty = p.duty /\ q.fails = p.fails
  BY <1>3, WithOn
<1>5. r = Outcome(q, Cardinality(kept), kept = {})
  BY <1>1
<1> HIDE DEF q
<1>6. r.files = Failed(q, Cardinality(kept)) /\ r.ok = (kept = {})
  BY <1>5 DEF Outcome
<1>10. q.fails + Cardinality(kept) <= MaxFails
  BY <1>2, <1>3, <1>4
<1>7. /\ r.files \in PwmFiles
      /\ r.files.on = q.on /\ r.files.duty = q.duty /\ r.files.fails = q.fails + Cardinality(kept)
  BY <1>2, <1>4, <1>6, <1>10, WithFails
<1>8. CASE kept = {}
  <2>1. r.ok = TRUE
    BY <1>6, <1>8, Zenon
  <2>2. r.files.on = p.on \ cs /\ r.files.fails = p.fails /\ r.files.fails >= p.fails
    BY <1>2, <1>3, <1>4, <1>7, <1>8
  <2>3. r.files.on \subseteq p.on /\ p.on \ cs \subseteq r.files.on
    BY <2>2
  <2> QED
    BY <1>4, <1>7, <2>1, <2>2, <2>3, Zenon
<1>9. CASE kept # {}
  <2>1. r.ok = FALSE
    BY <1>6, <1>9, Zenon
  <2>2. r.files.fails > p.fails /\ r.files.fails >= p.fails
    BY <1>2, <1>3, <1>4, <1>7, <1>9
  <2>3. r.files.on \subseteq p.on /\ p.on \ cs \subseteq r.files.on
    BY <1>4, <1>7
  <2> QED
    BY <1>4, <1>7, <2>1, <2>2, <2>3, Zenon
<1> QED
  BY <1>8, <1>9

\* Exporting channels changes nothing else.
LEMMA ExportedEffect ==
  ASSUME NEW p \in PwmFiles, NEW cs \in SUBSET Channel
  PROVE  /\ Exported(p, cs) \in PwmFiles
         /\ Exported(p, cs).on = p.on /\ Exported(p, cs).duty = p.duty
         /\ Exported(p, cs).fails = p.fails
<1>1. /\ p.exported \cup cs \in SUBSET Channel /\ p.on \in SUBSET Channel
      /\ p.duty \in [Channel -> Pulse] /\ p.fails \in 0 .. MaxFails
  BY DEF PwmFiles
<1>2. Exported(p, cs) =
        [exported |-> p.exported \cup cs, on |-> p.on, duty |-> p.duty, fails |-> p.fails]
  BY DEF Exported, PwmFiles
<1>3. Exported(p, cs) \in PwmFiles
  BY <1>1, <1>2 DEF PwmFiles
<1> QED
  BY <1>2, <1>3

\* Unexporting channels switches them off and forgets their duty cycles.
LEMMA UnexportedEffect ==
  ASSUME NEW p \in PwmFiles, NEW cs \in SUBSET Channel
  PROVE  /\ Unexported(p, cs) \in PwmFiles
         /\ Unexported(p, cs).on = p.on \ cs /\ Unexported(p, cs).fails = p.fails
         /\ \A c \in Channel : Unexported(p, cs).duty[c] = IF c \in cs THEN "none" ELSE p.duty[c]
<1>1. /\ p.exported \ cs \in SUBSET Channel /\ p.on \ cs \in SUBSET Channel
      /\ p.duty \in [Channel -> Pulse] /\ p.fails \in 0 .. MaxFails
  BY DEF PwmFiles
<1> DEFINE q == [p EXCEPT !.exported = p.exported \ cs]
<1>2. /\ q \in PwmFiles /\ q.exported = p.exported \ cs /\ q.on = p.on
      /\ q.duty = p.duty /\ q.fails = p.fails
  <2>1. q = [exported |-> p.exported \ cs, on |-> p.on, duty |-> p.duty, fails |-> p.fails]
    BY DEF PwmFiles
  <2>2. p.on \in SUBSET Channel
    BY DEF PwmFiles
  <2>3. q \in PwmFiles
    BY <1>1, <2>1, <2>2 DEF PwmFiles
  <2> QED
    BY <2>1, <2>3
<1>3. Unexported(p, cs) =
        [q EXCEPT !.on = @ \ cs,
                  !.duty = [c \in Channel |-> IF c \in cs THEN "none" ELSE @[c]]]
  BY DEF Unexported
<1> HIDE DEF q
<1> DEFINE o == [q EXCEPT !.on = q.on \ cs]
<1>4. /\ o \in PwmFiles /\ o.exported = q.exported /\ o.on = q.on \ cs
      /\ o.duty = q.duty /\ o.fails = q.fails
  BY <1>1, <1>2, WithOn
<1>5. Unexported(p, cs) =
        [o EXCEPT !.duty = [c \in Channel |-> IF c \in cs THEN "none" ELSE @[c]]]
  BY <1>3
<1> HIDE DEF o
<1>6. Unexported(p, cs) =
        [exported |-> o.exported, on |-> o.on,
         duty |-> [c \in Channel |-> IF c \in cs THEN "none" ELSE o.duty[c]],
         fails |-> o.fails]
  BY <1>4, <1>5 DEF PwmFiles
<1>7. [c \in Channel |-> IF c \in cs THEN "none" ELSE o.duty[c]] \in [Channel -> Pulse]
  BY <1>1, <1>2, <1>4 DEF Pulse
<1>8. Unexported(p, cs) \in PwmFiles
  BY <1>1, <1>2, <1>4, <1>6, <1>7 DEF PwmFiles
<1> QED
  BY <1>2, <1>4, <1>6, <1>8

\* The files of a call that succeeds, and of one that does not
LEMMA Success ==
  ASSUME NEW q \in PwmFiles, NEW r, r = Outcome(q, 0, TRUE)
  PROVE  /\ r.files \in PwmFiles /\ r.ok = TRUE
         /\ r.files.on = q.on /\ r.files.duty = q.duty /\ r.files.fails = q.fails
<1>1. q.fails \in Nat /\ q.fails <= MaxFails
  BY BoundAssumption DEF PwmFiles
<1>2. r.files = Failed(q, 0) /\ r.ok = TRUE
  BY DEF Outcome
<1>4. /\ Failed(q, 0) \in PwmFiles /\ Failed(q, 0).on = q.on
      /\ Failed(q, 0).duty = q.duty /\ Failed(q, 0).fails = q.fails + 0
  BY <1>1, WithFails
<1>5. q.fails + 0 = q.fails
  BY <1>1
<1> QED
  BY <1>2, <1>4, <1>5, Zenon

\* One access fails and the function gives up.
LEMMA Failure ==
  ASSUME NEW q \in PwmFiles, SpareFails(q) # 0, NEW r, r = Outcome(q, 1, FALSE)
  PROVE  /\ r.files \in PwmFiles /\ r.ok = FALSE
         /\ r.files.on = q.on /\ r.files.duty = q.duty /\ r.files.fails = q.fails + 1
<1>1. q.fails \in Nat /\ q.fails <= MaxFails /\ MaxFails \in Nat
  BY BoundAssumption DEF PwmFiles
<1>2. r.files = Failed(q, 1) /\ r.ok = FALSE
  BY DEF Outcome
<1>3. q.fails + 1 <= MaxFails
  BY <1>1 DEF SpareFails
<1>4. /\ Failed(q, 1) \in PwmFiles /\ Failed(q, 1).on = q.on
      /\ Failed(q, 1).duty = q.duty /\ Failed(q, 1).fails = q.fails + 1
  BY <1>1, <1>3, WithFails
<1> QED
  BY <1>2, <1>4, Zenon

\* PWM::init of the channels enables nothing and keeps the duty cycles.
LEMMA ExportAllEffect ==
  ASSUME NEW p \in PwmFiles, NEW r \in ExportAll(p)
  PROVE  /\ r.files \in PwmFiles /\ r.ok \in BOOLEAN
         /\ r.files.on = p.on /\ r.files.duty = p.duty
         /\ r.ok => r.files.fails = p.fails
         /\ ~r.ok => r.files.fails = p.fails + 1
<1>1. CASE r = Outcome(Exported(p, Channel), 0, TRUE)
  <2> DEFINE q == Exported(p, Channel)
  <2>1. q \in PwmFiles /\ q.on = p.on /\ q.duty = p.duty /\ q.fails = p.fails
    BY ExportedEffect
  <2>2. r = Outcome(q, 0, TRUE)
    BY <1>1
  <2> HIDE DEF q
  <2> QED
    BY <2>1, <2>2, Success
<1>2. CASE r # Outcome(Exported(p, Channel), 0, TRUE)
  <2>1. PICK i \in 1 .. Len(ChannelOrder) :
          r = Outcome(Exported(p, UpTo(ChannelOrder, i - 1)), 1, FALSE)
    BY <1>2 DEF ExportAll
  <2>2. SpareFails(p) # 0
    BY <1>2 DEF ExportAll
  <2>3. i - 1 \in 0 .. Len(ChannelOrder)
    BY ChannelOrderType
  <2> DEFINE q == Exported(p, UpTo(ChannelOrder, i - 1))
  <2>4. UpTo(ChannelOrder, i - 1) \in SUBSET Channel
    BY <2>3, ChannelOrderType, UpToType
  <2>5. q \in PwmFiles /\ q.on = p.on /\ q.duty = p.duty /\ q.fails = p.fails
    BY <2>4, ExportedEffect
  <2>6. r = Outcome(q, 1, FALSE)
    BY <2>1
  <2> HIDE DEF q
  <2>7. SpareFails(q) # 0
    BY <2>2, <2>5 DEF SpareFails
  <2> QED
    BY <2>5, <2>6, <2>7, Failure
<1> QED
  BY <1>1, <1>2

\* PWM::deinit of the channels switches them off, all of them unless it fails.
LEMMA UnexportAllEffect ==
  ASSUME NEW p \in PwmFiles, NEW r \in UnexportAll(p)
  PROVE  /\ r.files \in PwmFiles /\ r.ok \in BOOLEAN
         /\ r.files.on \subseteq p.on
         /\ r.ok => r.files.on = {} /\ r.files.fails = p.fails
                    /\ \A c \in Channel : r.files.duty[c] = "none"
         /\ ~r.ok => r.files.fails = p.fails + 1
<1>1. CASE r = Outcome(Unexported(p, Channel), 0, TRUE)
  <2> DEFINE q == Unexported(p, Channel)
  <2>1. /\ q \in PwmFiles /\ q.on = {} /\ q.fails = p.fails
        /\ \A c \in Channel : q.duty[c] = "none"
    <3>1. p.on \subseteq Channel
      BY DEF PwmFiles
    <3> QED
      BY <3>1, UnexportedEffect
  <2>2. r = Outcome(q, 0, TRUE)
    BY <1>1
  <2> HIDE DEF q
  <2> QED
    BY <2>1, <2>2, Success
<1>2. CASE r # Outcome(Unexported(p, Channel), 0, TRUE)
  <2>1. PICK i \in 1 .. Len(ChannelOrder) :
          r = Outcome(Unexported(p, UpTo(ChannelOrder, i - 1)), 1, FALSE)
    BY <1>2 DEF UnexportAll
  <2>2. SpareFails(p) # 0
    BY <1>2 DEF UnexportAll
  <2>3. i - 1 \in 0 .. Len(ChannelOrder)
    BY ChannelOrderType
  <2> DEFINE q == Unexported(p, UpTo(ChannelOrder, i - 1))
  <2>4. UpTo(ChannelOrder, i - 1) \in SUBSET Channel
    BY <2>3, ChannelOrderType, UpToType
  <2>5. q \in PwmFiles /\ q.on \subseteq p.on /\ q.fails = p.fails
    BY <2>4, UnexportedEffect
  <2>6. r = Outcome(q, 1, FALSE)
    BY <2>1
  <2> HIDE DEF q
  <2>7. SpareFails(q) # 0
    BY <2>2, <2>5 DEF SpareFails
  <2> QED
    BY <2>5, <2>6, <2>7, Failure
<1> QED
  BY <1>1, <1>2

-----------------------------------------------------------------------------
(***************************************************************************)
(* The steps of write()                                                    *)
(***************************************************************************)
\* enable_pwm on one channel
LEMMA EnablePwmEffect ==
  ASSUME NEW p \in PwmFiles, NEW c \in Channel, NEW r \in EnablePwm(p, c)
  PROVE  /\ r.files \in PwmFiles /\ r.files.fails >= p.fails
         /\ p.on \subseteq r.files.on /\ r.files.on \subseteq p.on \cup {c}
         /\ \A d \in Channel \ {c} : r.files.duty[d] = p.duty[d]
<1>1. p.fails \in Nat
  BY BoundAssumption DEF PwmFiles
<1>2. CASE r = Outcome(Enabled(p, {c}), 0, TRUE)
  <2> DEFINE q == Enabled(p, {c})
  <2>1. /\ q \in PwmFiles /\ q.on = p.on \cup {c} /\ q.fails = p.fails
        /\ \A d \in Channel \ {c} : q.duty[d] = p.duty[d]
    BY EnabledEffect
  <2>2. r = Outcome(q, 0, TRUE)
    BY <1>2
  <2> HIDE DEF q
  <2>3. r.files \in PwmFiles /\ r.files.on = q.on /\ r.files.duty = q.duty /\ r.files.fails = q.fails
    BY <2>1, <2>2, Success
  <2> QED
    BY <1>1, <2>1, <2>3
<1>3. CASE r \in EnableFailures(p, c)
  <2>1. /\ r.files \in PwmFiles
        /\ p.on \subseteq r.files.on /\ r.files.on \subseteq p.on \cup {c}
        /\ r.files.fails = p.fails + 1 /\ r.files.duty = p.duty
    BY <1>3, EnableFailuresEffect
  <2> QED
    BY <1>1, <2>1
<1> QED
  BY <1>2, <1>3 DEF EnablePwm

\* The gear is not a joint, nor is the horn.
LEMMA NotJoints == "horn" \in Channel \ Joints /\ "gear" \in Channel \ Joints
BY JointAssumption DEF Channel

\* start_truck, where write() calls it: it gives up with the joints it has
\* enabled at rest or as they were.
LEMMA StartEffect ==
  ASSUME NEW p \in PwmFiles, NEW starting \in BOOLEAN,
         NEW r \in IF starting THEN StartTruck(p) ELSE {Outcome(p, 0, TRUE)}
  PROVE  /\ r.files \in PwmFiles /\ r.ok \in BOOLEAN /\ p.on \subseteq r.files.on
         /\ \A c \in Channel \ Joints : r.files.duty[c] = p.duty[c]
         /\ \A c \in Joints : r.files.duty[c] \in {p.duty[c], "neutral"}
         /\ r.ok => r.files.fails = p.fails
         /\ r.ok /\ starting => r.files.on \cap Joints = Joints
         /\ r.ok /\ ~starting => r.files.on = p.on
         /\ ~r.ok => starting /\ r.files.fails > p.fails
<1>1. Joints \subseteq Channel /\ p.fails \in Nat
  BY BoundAssumption DEF Channel, PwmFiles
<1>2. CASE starting
  <2>1. r \in EnableAll(p, JointOrder)
    BY <1>2 DEF StartTruck
  <2> QED
    BY <1>1, <1>2, <2>1, ChannelOrderType, EnableAllEffect
<1>3. CASE ~starting
  <2>1. p \in PwmFiles /\ r = Outcome(p, 0, TRUE)
    BY <1>3
  <2>2. /\ r.files \in PwmFiles /\ r.ok = TRUE
        /\ r.files.on = p.on /\ r.files.duty = p.duty /\ r.files.fails = p.fails
    BY <2>1, Success
  <2> QED
    BY <1>1, <1>3, <2>2
<1> QED
  BY <1>2, <1>3

\* stop_truck, where write() calls it
LEMMA StopEffect ==
  ASSUME NEW p \in PwmFiles, NEW stopping \in BOOLEAN,
         NEW r \in IF stopping THEN StopTruck(p) ELSE {Outcome(p, 0, TRUE)}
  PROVE  /\ r.files \in PwmFiles /\ r.ok \in BOOLEAN /\ p.on \ Joints \subseteq r.files.on
         /\ r.files.duty = p.duty
         /\ r.ok => /\ r.files.fails = p.fails
                    /\ r.files.on \cap Joints = IF stopping THEN {} ELSE p.on \cap Joints
         /\ ~r.ok => stopping /\ r.files.fails > p.fails
<1>1. Joints \in SUBSET Channel
  BY DEF Channel
<1>2. CASE stopping
  <2>1. r \in DisableAll(p, Joints)
    BY <1>2 DEF StopTruck
  <2> QED
    BY <1>1, <1>2, <2>1, DisableAllEffect
<1>3. CASE ~stopping
  <2>1. p \in PwmFiles /\ r = Outcome(p, 0, TRUE)
    BY <1>3
  <2>2. /\ r.files \in PwmFiles /\ r.ok = TRUE
        /\ r.files.on = p.on /\ r.files.duty = p.duty /\ r.files.fails = p.fails
    BY <2>1, Success
  <2> QED
    BY <1>3, <2>2
<1> QED
  BY <1>2, <1>3

\* The gear part of write() leaves the horn and the joints alone.
LEMMA GearEffect ==
  ASSUME NEW cmd \in Command, NEW p \in PwmFiles, NEW q \in GearOutcomes(p, cmd)
  PROVE  /\ q \in PwmFiles /\ q.fails >= p.fails
         /\ p.on \ {"gear"} \subseteq q.on /\ q.on \subseteq p.on \cup {"gear"}
         /\ \A c \in Channel \ {"gear"} : q.duty[c] = p.duty[c]
<1>1. {"gear"} \in SUBSET Channel /\ "gear" \in Channel
  BY DEF Channel
<1>2. CASE mStart /\ ~cmd.start
  <2>1. PICK r \in DisableAll(p, {"gear"}) : q = r.files
    BY <1>2 DEF GearOutcomes
  <2> QED
    BY <1>1, <2>1, DisableAllEffect
<1>3. CASE ~(mStart /\ ~cmd.start) /\ mEnable /\ ~enable
  <2>1. PICK r \in EnablePwm(p, "gear") : q = r.files
    BY <1>3 DEF GearOutcomes
  <2> QED
    BY <1>1, <2>1, EnablePwmEffect
<1>4. CASE ~(mStart /\ ~cmd.start) /\ ~(mEnable /\ ~enable)
  <2> DEFINE d == [c \in {"gear"} |-> GearPulse(cmd.gear)]
  <2>1. q \in SetDuties(p, d)
    BY <1>4 DEF GearOutcomes
  <2>2. cmd.gear \in {1, 2, 3}
    <3>1. cmd.gear \in Gear
      BY DEF Command
    <3>2. cmd.gear \in 1 .. 3
      BY <3>1, GearAssumption
    <3> QED
      BY <3>2
  <2>3. d \in [{"gear"} -> Pulse]
    BY <2>2 DEF GearPulse, Pulse
  <2>4. p \in PwmFiles
    OBVIOUS
  <2> HIDE DEF d
  <2> QED
    BY <1>1, <2>1, <2>3, <2>4, SetDutiesEffect
<1> QED
  BY <1>2, <1>3, <1>4

\* An age never passes its limit, and grows with the time that goes by.
LEMMA AgedType ==
  ASSUME NEW limit \in Nat, NEW age \in 0 .. limit, NEW dt \in Nat
  PROVE  /\ Aged(age, dt, limit) \in 0 .. limit
         /\ \A other \in 0 .. limit : age <= other => Aged(age, dt, limit) <= Aged(other, dt, limit)
BY DEF Aged

\* The duties of a finished write are those of joints, at rest unless the truck
\* is driven.
LEMMA JointDutiesType ==
  ASSUME NEW cmd \in Command, NEW age \in 0 .. ReverseTime
  PROVE  LET d == JointDuties(cmd, age) IN
         /\ DOMAIN d \subseteq Joints /\ Joints \ {"steering"} \subseteq DOMAIN d
         /\ d \in [DOMAIN d -> Pulse]
         /\ ~(enable /\ cmd.start) => \A c \in DOMAIN d : d[c] = "neutral"
         /\ enable /\ cmd.start => d["traction"] = TractionPulse(cmd, age)
<1>1. TractionPulse(cmd, age) \in Pulse
  <2>1. cmd.traction \in {"back", "still", "ahead"}
    BY DEF Command, Sign
  <2> QED
    BY <2>1 DEF TractionPulse, Pulse
<1>2. CASE enable /\ cmd.start
  <2>1. JointDuties(cmd, age) =
          [c \in Joints |-> CASE c = "steering" -> "angle"
                              [] c = "traction" -> TractionPulse(cmd, age)
                              [] c \in Crane -> IF cmd.crane THEN "moving" ELSE "neutral"]
    BY <1>2, Zenon DEF JointDuties
  <2>2. \A c \in Joints :
          (CASE c = "steering" -> "angle"
             [] c = "traction" -> TractionPulse(cmd, age)
             [] c \in Crane -> IF cmd.crane THEN "moving" ELSE "neutral") \in Pulse
    BY <1>1 DEF Crane, Pulse
  <2>3. "traction" \in Joints
    BY JointAssumption
  <2>4. JointDuties(cmd, age)["traction"] = TractionPulse(cmd, age)
    BY <2>1, <2>3 DEF Crane
  <2> QED
    BY <1>2, <2>1, <2>2, <2>4
<1>3. CASE ~(enable /\ cmd.start)
  <2>1. JointDuties(cmd, age) = [c \in Joints \ {"steering"} |-> "neutral"]
    BY <1>3, Zenon DEF JointDuties
  <2> QED
    BY <1>3, <2>1 DEF Pulse
<1> QED
  BY <1>2, <1>3

\* The age of the change to reverse
LEMMA BackAgeType ==
  ASSUME TypeOK, NEW dt \in 1 .. MaxGap, NEW cmd \in Command
  PROVE  BackAge(dt, cmd) \in 0 .. ReverseTime
<1>1. /\ dt \in Nat /\ ReverseTime \in Nat /\ backAge \in 0 .. ReverseTime
  BY TimeAssumption DEF TypeOK
<1>2. Aged(backAge, dt, ReverseTime) \in 0 .. ReverseTime
  BY <1>1, AgedType
<1>3. BackAge(dt, cmd) \in {0, Aged(backAge, dt, ReverseTime)}
  BY Zenon DEF BackAge
<1> QED
  BY <1>1, <1>2, <1>3

-----------------------------------------------------------------------------
\* A write gives up in start_truck or stop_truck, with the joints at rest or as
\* they were, or it finishes with the statics, the joints and the duties it is
\* meant to leave.
LEMMA WriteEffect ==
  ASSUME TypeOK, NEW dt \in 1 .. MaxGap, NEW cmd \in Command, Write(dt, cmd)
  PROVE  /\ pwm' \in PwmFiles /\ pwm'.fails >= pwm.fails
         /\ "horn" \in pwm.on => "horn" \in pwm'.on
         /\ pwm'.fails = pwm.fails => pwm'.duty["horn"] = HornPulse(cmd)
         /\ \/ /\ lifecycle' = "finalized" /\ pwm'.fails > pwm.fails
               /\ enable # mEnable
               /\ \A c \in Joints : pwm'.duty[c] \in {pwm.duty[c], "neutral"}
               /\ UNCHANGED <<startApplied, gearApplied, reverseMode, backAge,
                              mStart, mEnable, mTraction>>
            \/ /\ pwm'.on \cap Joints =
                    IF enable = mEnable THEN pwm.on \cap Joints
                                        ELSE IF enable THEN Joints ELSE {}
               /\ pwm'.fails = pwm.fails =>
                    LET d == JointDuties(cmd, BackAge(dt, cmd)) IN
                    \A c \in DOMAIN d : pwm'.duty[c] = d[c]
               /\ startApplied' = IF enable /\ cmd.start THEN 1 ELSE 0
               /\ IF enable /\ cmd.start
                  THEN gearApplied' = cmd.gear /\ reverseMode' = ReverseMode(cmd, BackAge(dt, cmd))
                  ELSE UNCHANGED <<gearApplied, reverseMode>>
               /\ backAge' = BackAge(dt, cmd)
               /\ mStart' = cmd.start /\ mEnable' = enable /\ mTraction' = cmd.traction
               /\ UNCHANGED lifecycle
<1> DEFINE starting == ~mEnable /\ enable
           stopping == mEnable /\ ~enable
           h == [c \in {"horn"} |-> HornPulse(cmd)]
           d == JointDuties(cmd, BackAge(dt, cmd))
<1>0. /\ pwm \in PwmFiles /\ enable \in BOOLEAN /\ mEnable \in BOOLEAN
      /\ starting \in BOOLEAN /\ stopping \in BOOLEAN /\ pwm.fails \in Nat
      /\ Joints \subseteq Channel
  <2>1. pwm \in PwmFiles /\ enable \in BOOLEAN /\ mEnable \in BOOLEAN
    BY DEF TypeOK
  <2>2. pwm.fails \in Nat
    BY <2>1, BoundAssumption DEF PwmFiles
  <2> QED
    BY <2>1, <2>2 DEF Channel
<1>6. PICK horn \in SetDuties(pwm, h) :
        \E up \in IF starting THEN StartTruck(horn) ELSE {Outcome(horn, 0, TRUE)} :
          \/ ~up.ok /\ AbortWrite(up.files)
          \/ /\ up.ok
             /\ \E gear \in GearOutcomes(up.files, cmd) :
                \E down \in IF stopping THEN StopTruck(gear) ELSE {Outcome(gear, 0, TRUE)} :
                  \/ ~down.ok /\ AbortWrite(down.files)
                  \/ down.ok /\ FinishWrite(dt, cmd, down.files)
  BY DEF Write
<1>1. PICK up \in IF starting THEN StartTruck(horn) ELSE {Outcome(horn, 0, TRUE)} :
        \/ ~up.ok /\ AbortWrite(up.files)
        \/ /\ up.ok
           /\ \E gear \in GearOutcomes(up.files, cmd) :
              \E down \in IF stopping THEN StopTruck(gear) ELSE {Outcome(gear, 0, TRUE)} :
                \/ ~down.ok /\ AbortWrite(down.files)
                \/ down.ok /\ FinishWrite(dt, cmd, down.files)
  BY <1>6
<1>2. /\ horn \in PwmFiles /\ horn.on = pwm.on /\ horn.fails >= pwm.fails /\ horn.fails \in Nat
      /\ \A c \in Joints : horn.duty[c] = pwm.duty[c]
      /\ horn.fails = pwm.fails => horn.duty["horn"] = HornPulse(cmd)
  <2>1. {"horn"} \in SUBSET Channel /\ "horn" \notin Joints
    BY NotJoints
  <2>2. h \in [{"horn"} -> Pulse] /\ h["horn"] = HornPulse(cmd)
    BY DEF HornPulse, Pulse
  <2> HIDE DEF h
  <2>3. /\ horn \in PwmFiles /\ horn.on = pwm.on /\ horn.fails >= pwm.fails
        /\ \A c \in Channel \ {"horn"} : horn.duty[c] = pwm.duty[c]
        /\ horn.fails = pwm.fails => horn.duty["horn"] = h["horn"]
    BY <1>0, <1>1, <2>1, <2>2, SetDutiesEffect
  <2>4. horn.fails \in Nat
    BY <2>3, BoundAssumption DEF PwmFiles
  <2> QED
    BY <1>0, <2>1, <2>2, <2>3, <2>4
<1>3. /\ up.files \in PwmFiles /\ up.ok \in BOOLEAN /\ horn.on \subseteq up.files.on
      /\ \A c \in Channel \ Joints : up.files.duty[c] = horn.duty[c]
      /\ \A c \in Joints : up.files.duty[c] \in {horn.duty[c], "neutral"}
      /\ up.ok => up.files.fails = horn.fails
      /\ up.ok /\ starting => up.files.on \cap Joints = Joints
      /\ up.ok /\ ~starting => up.files.on = horn.on
      /\ ~up.ok => starting /\ up.files.fails > horn.fails
  <2>1. /\ horn \in PwmFiles /\ starting \in BOOLEAN
        /\ up \in IF starting THEN StartTruck(horn) ELSE {Outcome(horn, 0, TRUE)}
    BY <1>0, <1>1, <1>2
  <2> HIDE DEF starting
  <2>2. /\ up.files \in PwmFiles /\ up.ok \in BOOLEAN /\ horn.on \subseteq up.files.on
        /\ \A c \in Channel \ Joints : up.files.duty[c] = horn.duty[c]
        /\ \A c \in Joints : up.files.duty[c] \in {horn.duty[c], "neutral"}
    BY <2>1, StartEffect
  <2>3. up.ok => up.files.fails = horn.fails
    BY <2>1, StartEffect
  <2>4. up.ok /\ starting => up.files.on \cap Joints = Joints
    BY <2>1, StartEffect
  <2>5. up.ok /\ ~starting => up.files.on = horn.on
    BY <2>1, StartEffect
  <2>6. ~up.ok => starting /\ up.files.fails > horn.fails
    BY <2>1, StartEffect
  <2> QED
    BY <2>2, <2>3, <2>4, <2>5, <2>6
<1>4. CASE ~up.ok /\ AbortWrite(up.files)
  <2>1. /\ pwm' = up.files /\ lifecycle' = "finalized"
        /\ UNCHANGED <<startApplied, gearApplied, reverseMode, backAge, mStart, mEnable, mTraction>>
    BY <1>4 DEF AbortWrite
  <2>2. starting /\ up.files.fails > horn.fails
    BY <1>3, <1>4
  <2>3. /\ pwm' \in PwmFiles /\ pwm'.fails > pwm.fails /\ pwm'.fails >= pwm.fails
        /\ pwm'.fails # pwm.fails /\ pwm.on \subseteq pwm'.on
    <3>1. up.files.fails \in Nat
      BY <1>3, BoundAssumption DEF PwmFiles
    <3> QED
      BY <1>0, <1>2, <1>3, <2>1, <2>2, <3>1
  <2>4. \A c \in Joints : pwm'.duty[c] \in {pwm.duty[c], "neutral"}
    BY <1>2, <1>3, <2>1
  <2>5. enable # mEnable
    BY <1>0, <2>2
  <2> QED
    BY <2>1, <2>3, <2>4, <2>5
<1>5. CASE up.ok
  <2>10. PICK gear \in GearOutcomes(up.files, cmd) :
           \E down \in IF stopping THEN StopTruck(gear) ELSE {Outcome(gear, 0, TRUE)} :
             \/ ~down.ok /\ AbortWrite(down.files)
             \/ down.ok /\ FinishWrite(dt, cmd, down.files)
    BY <1>1, <1>5
  <2>1. PICK down \in IF stopping THEN StopTruck(gear) ELSE {Outcome(gear, 0, TRUE)} :
          \/ ~down.ok /\ AbortWrite(down.files)
          \/ down.ok /\ FinishWrite(dt, cmd, down.files)
    BY <2>10
  <2>2. /\ gear \in PwmFiles /\ gear.fails >= up.files.fails
        /\ up.files.on \ {"gear"} \subseteq gear.on /\ gear.on \subseteq up.files.on \cup {"gear"}
        /\ \A c \in Channel \ {"gear"} : gear.duty[c] = up.files.duty[c]
    BY <1>3, <2>1, GearEffect
  <2>3. /\ down.files \in PwmFiles /\ down.ok \in BOOLEAN /\ gear.on \ Joints \subseteq down.files.on
        /\ down.files.duty = gear.duty
        /\ down.ok => /\ down.files.fails = gear.fails
                      /\ down.files.on \cap Joints = IF stopping THEN {} ELSE gear.on \cap Joints
        /\ ~down.ok => stopping /\ down.files.fails > gear.fails
    <3> HIDE DEF stopping
    <3> QED
      BY <1>0, <2>1, <2>2, StopEffect
  <2>4. gear.fails \in Nat /\ gear.fails >= pwm.fails /\ down.files.fails \in Nat
        /\ down.files.fails >= pwm.fails
    <3>1. gear.fails \in Nat /\ down.files.fails \in Nat
      BY <2>2, <2>3, BoundAssumption DEF PwmFiles
    <3> QED
      BY <1>0, <1>2, <1>3, <1>5, <2>2, <2>3, <3>1
  <2>5. "horn" \in pwm.on => "horn" \in down.files.on
    BY <1>2, <1>3, <2>2, <2>3, NotJoints
  <2>6. \A c \in Joints : down.files.duty[c] \in {pwm.duty[c], "neutral"}
    BY <1>0, <1>2, <1>3, <2>2, <2>3, NotJoints
  <2>7. down.files.duty["horn"] = horn.duty["horn"]
    BY <1>3, <2>2, <2>3, NotJoints
  <2>8. CASE ~down.ok /\ AbortWrite(down.files)
    <3>1. /\ pwm' = down.files /\ lifecycle' = "finalized"
          /\ UNCHANGED <<startApplied, gearApplied, reverseMode, backAge, mStart, mEnable, mTraction>>
      BY <2>8 DEF AbortWrite
    <3>2. stopping /\ down.files.fails > gear.fails
      BY <2>3, <2>8
    <3>3. /\ pwm' \in PwmFiles /\ pwm'.fails > pwm.fails /\ pwm'.fails >= pwm.fails
          /\ pwm'.fails # pwm.fails
      BY <1>0, <2>3, <2>4, <3>1, <3>2
    <3>4. enable # mEnable
      BY <1>0, <3>2
    <3> QED
      BY <2>5, <2>6, <3>1, <3>3, <3>4
  <2>9. CASE down.ok /\ FinishWrite(dt, cmd, down.files)
    <3>1. /\ pwm' \in SetDuties(down.files, d)
          /\ startApplied' = IF enable /\ cmd.start THEN 1 ELSE 0
          /\ IF enable /\ cmd.start
             THEN gearApplied' = cmd.gear /\ reverseMode' = ReverseMode(cmd, BackAge(dt, cmd))
             ELSE UNCHANGED <<gearApplied, reverseMode>>
          /\ backAge' = BackAge(dt, cmd)
          /\ mStart' = cmd.start /\ mEnable' = enable /\ mTraction' = cmd.traction
          /\ UNCHANGED lifecycle
      BY <2>9 DEF FinishWrite
    <3>2. DOMAIN d \in SUBSET Channel /\ DOMAIN d \subseteq Joints /\ d \in [DOMAIN d -> Pulse]
      BY <1>0, BackAgeType, JointDutiesType
    <3> HIDE DEF d
    <3>3. /\ pwm' \in PwmFiles /\ pwm'.on = down.files.on /\ pwm'.fails >= down.files.fails
          /\ \A c \in Channel \ DOMAIN d : pwm'.duty[c] = down.files.duty[c]
          /\ pwm'.fails = down.files.fails => \A c \in DOMAIN d : pwm'.duty[c] = d[c]
      BY <2>3, <3>1, <3>2, SetDutiesEffect
    <3>4. pwm'.fails \in Nat
      BY <3>3, BoundAssumption DEF PwmFiles
    <3>5. /\ pwm'.fails >= pwm.fails
          /\ pwm'.fails = pwm.fails => /\ pwm'.fails = down.files.fails
                                       /\ horn.fails = pwm.fails
      BY <1>0, <1>2, <1>3, <1>5, <2>2, <2>3, <2>4, <2>9, <3>3, <3>4
    <3>6. pwm'.fails = pwm.fails => pwm'.duty["horn"] = HornPulse(cmd)
      BY <1>2, <2>7, <3>2, <3>3, <3>5, NotJoints
    <3>7. pwm'.on \cap Joints =
            IF enable = mEnable THEN pwm.on \cap Joints ELSE IF enable THEN Joints ELSE {}
      <4>1. up.files.on \cap Joints = IF starting THEN Joints ELSE pwm.on \cap Joints
        BY <1>2, <1>3, <1>5
      <4>2. gear.on \cap Joints = up.files.on \cap Joints
        BY <2>2, NotJoints
      <4>3. pwm'.on \cap Joints = IF stopping THEN {} ELSE gear.on \cap Joints
        BY <2>3, <2>9, <3>3
      <4>4. CASE enable = mEnable
        BY <1>0, <4>1, <4>2, <4>3, <4>4
      <4>5. CASE enable /\ ~mEnable
        BY <1>0, <4>1, <4>2, <4>3, <4>5
      <4>6. CASE ~enable /\ mEnable
        BY <1>0, <4>1, <4>2, <4>3, <4>6
      <4> QED
        BY <1>0, <4>4, <4>5, <4>6
    <3>8. pwm'.fails = pwm.fails => \A c \in DOMAIN d : pwm'.duty[c] = d[c]
      BY <3>3, <3>5
    <3>9. "horn" \in pwm.on => "horn" \in pwm'.on
      BY <2>5, <3>3
    <3> QED
      BY <3>1, <3>3, <3>5, <3>6, <3>7, <3>8, <3>9 DEF d
  <2> QED
    BY <2>1, <2>8, <2>9
<1> QED
  BY <1>1, <1>3, <1>4, <1>5

-----------------------------------------------------------------------------
(***************************************************************************)
(* The lifecycle callbacks                                                 *)
(***************************************************************************)
\* A configuration enables nothing; where it gives up, an access has failed.
LEMMA ConfigureEffect ==
  ASSUME TypeOK, Configure
  PROVE  /\ lifecycle = "unconfigured" /\ lifecycle' \in {"inactive", "finalized"}
         /\ pwm' \in PwmFiles /\ pwm'.on = pwm.on /\ pwm'.duty = pwm.duty
         /\ pwm'.fails >= pwm.fails /\ (lifecycle' = "finalized" => pwm'.fails > pwm.fails)
<1>1. PICK r \in ExportAll(pwm) :
        pwm' = r.files /\ lifecycle' = IF r.ok THEN "inactive" ELSE "finalized"
  BY DEF Configure, Move
<1>2. pwm \in PwmFiles /\ lifecycle = "unconfigured"
  BY DEF TypeOK, Configure, Move
<1>3. pwm.fails \in Nat
  BY <1>2, BoundAssumption DEF PwmFiles
<1>4. /\ r.files \in PwmFiles /\ r.ok \in BOOLEAN
      /\ r.files.on = pwm.on /\ r.files.duty = pwm.duty
      /\ r.ok => r.files.fails = pwm.fails
      /\ ~r.ok => r.files.fails = pwm.fails + 1
  BY <1>1, <1>2, ExportAllEffect
<1>5. CASE r.ok
  BY <1>1, <1>2, <1>3, <1>4, <1>5
<1>6. CASE ~r.ok
  BY <1>1, <1>2, <1>3, <1>4, <1>6
<1> QED
  BY <1>5, <1>6

\* A clean-up that succeeds leaves no channel enabled and none with a duty.
LEMMA CleanupEffect ==
  ASSUME TypeOK, Cleanup
  PROVE  /\ lifecycle = "inactive" /\ lifecycle' \in {"unconfigured", "finalized"}
         /\ pwm' \in PwmFiles /\ pwm'.on \subseteq pwm.on /\ pwm'.fails >= pwm.fails
         /\ lifecycle' = "finalized" => pwm'.fails > pwm.fails
         /\ lifecycle' = "unconfigured" =>
              pwm'.on = {} /\ \A c \in Channel : pwm'.duty[c] = "none"
<1>1. PICK r \in UnexportAll(pwm) :
        pwm' = r.files /\ lifecycle' = IF r.ok THEN "unconfigured" ELSE "finalized"
  BY DEF Cleanup, Move
<1>2. pwm \in PwmFiles /\ lifecycle = "inactive"
  BY DEF TypeOK, Cleanup, Move
<1>3. pwm.fails \in Nat
  BY <1>2, BoundAssumption DEF PwmFiles
<1>4. /\ r.files \in PwmFiles /\ r.ok \in BOOLEAN /\ r.files.on \subseteq pwm.on
      /\ r.ok => r.files.on = {} /\ r.files.fails = pwm.fails
                 /\ \A c \in Channel : r.files.duty[c] = "none"
      /\ ~r.ok => r.files.fails = pwm.fails + 1
  BY <1>1, <1>2, UnexportAllEffect
<1>5. CASE r.ok
  BY <1>1, <1>2, <1>3, <1>4, <1>5
<1>6. CASE ~r.ok
  BY <1>1, <1>2, <1>3, <1>4, <1>6
<1> QED
  BY <1>5, <1>6

\* An activation enables the horn and leaves the joints alone.
LEMMA ActivateEffect ==
  ASSUME TypeOK, Activate
  PROVE  /\ lifecycle = "inactive" /\ lifecycle' \in {"active", "finalized"}
         /\ pwm' \in PwmFiles /\ pwm'.on \cap Joints = pwm.on \cap Joints
         /\ \A c \in Joints : pwm'.duty[c] = pwm.duty[c]
         /\ pwm'.fails >= pwm.fails
         /\ lifecycle' = "finalized" => pwm'.fails > pwm.fails
         /\ lifecycle' = "active" => "horn" \in pwm'.on
<1> DEFINE order == <<"horn", "gear">>
           cs == UpTo(order, Len(order))
<1>1. PICK r \in EnableAll(pwm, order) :
        pwm' = r.files /\ lifecycle' = IF r.ok THEN "active" ELSE "finalized"
  BY DEF Activate, Move
<1>2. pwm \in PwmFiles /\ lifecycle = "inactive"
  BY DEF TypeOK, Activate, Move
<1>3. pwm.fails \in Nat
  BY <1>2, BoundAssumption DEF PwmFiles
<1>4. order \in Seq(Channel) /\ cs = {"horn", "gear"}
  BY ChannelOrderType
<1> HIDE DEF order
<1>5. /\ r.files \in PwmFiles /\ r.ok \in BOOLEAN
      /\ pwm.on \subseteq r.files.on /\ r.files.on \subseteq pwm.on \cup cs
      /\ \A c \in Channel : r.files.duty[c] \in {pwm.duty[c], IF c \in cs THEN "neutral" ELSE pwm.duty[c]}
      /\ r.ok => r.files.on = pwm.on \cup cs /\ r.files.fails = pwm.fails
      /\ ~r.ok => r.files.fails = pwm.fails + 1
  BY <1>1, <1>2, <1>4, EnableAllEffect
<1> HIDE DEF cs
<1>6. /\ pwm'.on \cap Joints = pwm.on \cap Joints
      /\ \A c \in Joints : pwm'.duty[c] = pwm.duty[c]
  BY <1>1, <1>4, <1>5, NotJoints DEF Channel
<1>7. CASE r.ok
  BY <1>1, <1>2, <1>3, <1>4, <1>5, <1>6, <1>7
<1>8. CASE ~r.ok
  BY <1>1, <1>2, <1>3, <1>4, <1>5, <1>6, <1>8
<1> QED
  BY <1>5, <1>7, <1>8

\* A deactivation only disables.
LEMMA DeactivateEffect ==
  ASSUME TypeOK, Deactivate
  PROVE  /\ lifecycle = "active" /\ lifecycle' \in {"inactive", "finalized"}
         /\ pwm' \in PwmFiles /\ pwm'.on \subseteq pwm.on /\ pwm'.duty = pwm.duty
         /\ pwm'.fails >= pwm.fails
         /\ lifecycle' = "finalized" => pwm'.fails > pwm.fails
<1> DEFINE cs == {"horn", "gear", "steering", "traction"}
<1>1. PICK r \in DisableAll(pwm, cs) :
        pwm' = r.files /\ lifecycle' = IF r.ok THEN "inactive" ELSE "finalized"
  BY DEF Deactivate, Move
<1>2. pwm \in PwmFiles /\ lifecycle = "active"
  BY DEF TypeOK, Deactivate, Move
<1>3. pwm.fails \in Nat
  BY <1>2, BoundAssumption DEF PwmFiles
<1>4. cs \in SUBSET Channel
  BY JointAssumption DEF Channel
<1> HIDE DEF cs
<1>5. /\ r.files \in PwmFiles /\ r.ok \in BOOLEAN
      /\ r.files.on \subseteq pwm.on /\ r.files.duty = pwm.duty
      /\ r.files.fails >= pwm.fails /\ (~r.ok => r.files.fails > pwm.fails)
  BY <1>1, <1>2, <1>4, DisableAllEffect
<1>6. CASE r.ok
  BY <1>1, <1>2, <1>3, <1>5, <1>6
<1>7. CASE ~r.ok
  BY <1>1, <1>2, <1>3, <1>5, <1>7
<1> QED
  BY <1>5, <1>6, <1>7

\* A shutdown leaves the channels as they are.
LEMMA ShutdownEffect ==
  ASSUME TypeOK, Shutdown
  PROVE  /\ lifecycle' = "finalized" /\ pwm' \in PwmFiles
         /\ pwm'.on = pwm.on /\ pwm'.duty = pwm.duty /\ pwm'.fails = pwm.fails
<1> DEFINE r == Outcome(pwm, 0, TRUE)
<1>1. pwm' = r.files /\ lifecycle' = "finalized"
  BY DEF Shutdown, Move
<1>2. pwm \in PwmFiles
  BY DEF TypeOK
<1>3. r = Outcome(pwm, 0, TRUE)
  OBVIOUS
<1> HIDE DEF r
<1>4. /\ r.files \in PwmFiles
      /\ r.files.on = pwm.on /\ r.files.duty = pwm.duty /\ r.files.fails = pwm.fails
  BY <1>2, <1>3, Success
<1> QED
  BY <1>1, <1>4

-----------------------------------------------------------------------------
\* Every member, every static and the channels keep their types.
THEOREM TypeCorrect == Spec => []TypeOK
<1> USE TimeAssumption, BoundAssumption
<1>1. Init => TypeOK
  <2> SUFFICES ASSUME Init PROVE TypeOK
    OBVIOUS
  <2>1. pwm \in PwmFiles
    BY DEF Init, PwmFiles, Pulse
  <2>2. lifecycle = "unconfigured" /\ mTraction \in Sign
    BY DEF Init, Sign
  <2>3. /\ startApplied \in {Unset, 0, 1}
        /\ gearApplied \in {Unset} \cup 1 .. 3 /\ gearState \in {Unset} \cup 1 .. 3
    BY DEF Init
  <2>4. /\ enable \in BOOLEAN /\ mStart \in BOOLEAN /\ mEnable \in BOOLEAN
        /\ reverseMode \in BOOLEAN /\ heldOver \in BOOLEAN
    BY DEF Init
  <2>5. /\ startAge \in 0 .. StartDelay /\ stopAge \in 0 .. StopDelay
        /\ backAge \in 0 .. ReverseTime /\ sounded \in 0 .. StartDelay
        /\ moves \in 0 .. MaxMoves /\ crashes \in 0 .. MaxCrashes
    BY DEF Init
  <2> QED
    BY <2>1, <2>2, <2>3, <2>4, <2>5 DEF TypeOK
<1>2. TypeOK /\ [Next]_vars => TypeOK'
  <2> SUFFICES ASSUME TypeOK, [Next]_vars PROVE TypeOK'
    OBVIOUS
  <2> USE DEF members, statics, observers
  <2>1. CASE Configure
    <3>1. pwm' \in PwmFiles /\ lifecycle' \in {"inactive", "finalized"}
      BY <2>1, ConfigureEffect
    <3>2. enable' \in BOOLEAN /\ gearState' \in {Unset} \cup 1 .. 3
      <4>1. CASE lifecycle' = "inactive"
        <5>1. (enable' = FALSE) /\ gearState' = 1
          BY <2>1, <4>1, Zenon DEF Configure
        <5>2. enable' \in BOOLEAN
          BY <5>1, Zenon
        <5> QED
          BY <5>1, <5>2
      <4>2. CASE lifecycle' # "inactive"
        BY <2>1, <4>2 DEF Configure, TypeOK
      <4> QED
        BY <4>1, <4>2
    <3>3. sounded' = 0 /\ moves' \in 0 .. MaxMoves /\ UNCHANGED crashes
      BY <2>1 DEF Configure, Move, TypeOK
    <3>4. UNCHANGED <<startApplied, gearApplied, statics, heldOver>>
      BY <2>1 DEF Configure
    <3> QED
      BY <3>1, <3>2, <3>3, <3>4 DEF TypeOK
  <2>2. CASE Cleanup
    BY <2>2, CleanupEffect DEF Cleanup, Move, TypeOK
  <2>3. CASE Activate
    BY <2>3, ActivateEffect DEF Activate, Move, TypeOK
  <2>4. CASE Deactivate
    BY <2>4, DeactivateEffect DEF Deactivate, Move, TypeOK
  <2>5. CASE Shutdown
    <3>1. pwm' \in PwmFiles /\ lifecycle' = "finalized"
      BY <2>5, ShutdownEffect
    <3>2. sounded' = 0 /\ moves' \in 0 .. MaxMoves /\ UNCHANGED crashes
      BY <2>5 DEF Shutdown, Move, TypeOK
    <3>3. UNCHANGED <<members, statics, heldOver>>
      BY <2>5 DEF Shutdown
    <3> QED
      BY <3>1, <3>2, <3>3 DEF TypeOK
  <2>6. CASE Crash
    <3>1. lifecycle' = "unconfigured" /\ pwm' = pwm /\ moves' = moves
      BY <2>6 DEF Crash
    <3>2. /\ startApplied' \in {Unset, 0, 1} /\ mTraction' \in Sign
          /\ gearApplied' \in {Unset} \cup 1 .. 3 /\ gearState' \in {Unset} \cup 1 .. 3
      BY <2>6 DEF Crash, Sign
    <3>3. /\ enable' \in BOOLEAN /\ mStart' \in BOOLEAN /\ mEnable' \in BOOLEAN
          /\ reverseMode' \in BOOLEAN /\ heldOver' \in BOOLEAN
      BY <2>6 DEF Crash
    <3>4. /\ startAge' \in 0 .. StartDelay /\ stopAge' \in 0 .. StopDelay
          /\ backAge' \in 0 .. ReverseTime /\ sounded' \in 0 .. StartDelay
          /\ crashes' \in 0 .. MaxCrashes
      BY <2>6 DEF Crash, TypeOK
    <3> QED
      BY <3>1, <3>2, <3>3, <3>4 DEF TypeOK
  <2>7. CASE Read
    BY <2>7 DEF Read, TypeOK
  <2>8. ASSUME NEW dt \in 1 .. MaxGap, NEW cmd \in Command, Write(dt, cmd)
        PROVE  TypeOK'
    <3> USE <2>8
    <3>1. dt \in Nat
      OBVIOUS
    <3>2. startAge' \in 0 .. StartDelay /\ stopAge' \in 0 .. StopDelay
      BY <3>1, AgedType DEF Write, TypeOK
    <3>3. sounded' \in 0 .. StartDelay
      BY <3>1, AgedType DEF Write, TypeOK
    <3>4. /\ cmd.start \in BOOLEAN /\ cmd.gear \in Gear /\ cmd.gear \in 1 .. 3
          /\ cmd.traction \in Sign
      BY GearAssumption DEF Command
    <3>5. enable' \in BOOLEAN /\ heldOver' \in BOOLEAN
      BY <3>4 DEF Write, TypeOK
    <3>6. UNCHANGED <<gearState, moves, crashes>>
      BY DEF Write
    <3>7. BackAge(dt, cmd) \in 0 .. ReverseTime /\ ReverseMode(cmd, BackAge(dt, cmd)) \in BOOLEAN
      BY BackAgeType, <3>4 DEF ReverseMode, TypeOK
    <3>8. pwm' \in PwmFiles
      BY WriteEffect
    <3>9. /\ lifecycle' \in {"unconfigured", "inactive", "active", "finalized"}
          /\ startApplied' \in {Unset, 0, 1} /\ gearApplied' \in {Unset} \cup 1 .. 3
          /\ reverseMode' \in BOOLEAN /\ backAge' \in 0 .. ReverseTime
          /\ mStart' \in BOOLEAN /\ mEnable' \in BOOLEAN /\ mTraction' \in Sign
      BY WriteEffect, <3>4, <3>7 DEF TypeOK
    <3> QED
      BY <3>2, <3>3, <3>5, <3>6, <3>8, <3>9 DEF TypeOK
  <2>9. CASE UNCHANGED vars
    BY <2>9 DEF TypeOK, vars
  <2> QED
    BY <2>1, <2>2, <2>3, <2>4, <2>5, <2>6, <2>7, <2>8, <2>9 DEF Next
<1> QED
  BY <1>1, <1>2, PTL DEF Spec

-----------------------------------------------------------------------------
\* Joints are enabled, while cycles run, only if the last write knew the truck
\* as started (start_truck, stop_truck, on_deactivate, on_cleanup).
THEOREM StoppedIsOffHolds == Spec => []StoppedIsOff
<1>1. Init => StoppedInv
  BY DEF Init, StoppedInv
<1>2. TypeOK /\ TypeOK' /\ StoppedInv /\ [Next]_vars => StoppedInv'
  <2> SUFFICES ASSUME TypeOK, TypeOK', StoppedInv, [Next]_vars PROVE StoppedInv'
    OBVIOUS
  <2> USE DEF StoppedInv, Running
  <2>1. CASE Configure
    <3>1. UNCHANGED crashes
      BY <2>1 DEF Configure, Move
    <3> QED
      BY <2>1, <3>1, ConfigureEffect
  <2>2. CASE Cleanup
    BY <2>2, CleanupEffect
  <2>3. CASE Activate
    <3>1. UNCHANGED <<crashes, mEnable>>
      BY <2>3 DEF Activate, Move, statics
    <3> QED
      BY <2>3, <3>1, ActivateEffect
  <2>4. CASE Deactivate
    <3>1. UNCHANGED <<crashes, mEnable>>
      BY <2>4 DEF Deactivate, Move, statics
    <3> QED
      BY <2>4, <3>1, DeactivateEffect
  <2>5. CASE Shutdown
    BY <2>5, ShutdownEffect
  <2>6. CASE Crash
    BY <2>6 DEF Crash, TypeOK
  <2>7. CASE Read
    BY <2>7 DEF Read, statics
  <2>8. ASSUME NEW dt \in 1 .. MaxGap, NEW cmd \in Command, Write(dt, cmd)
        PROVE  StoppedInv'
    <3>1. lifecycle \in Running /\ UNCHANGED crashes /\ enable \in BOOLEAN /\ mEnable \in BOOLEAN
      BY <2>8 DEF Write, TypeOK
    <3>2. \/ lifecycle' = "finalized"
          \/ /\ pwm'.on \cap Joints =
                  IF enable = mEnable THEN pwm.on \cap Joints ELSE IF enable THEN Joints ELSE {}
             /\ mEnable' = enable /\ UNCHANGED lifecycle
      BY <2>8, WriteEffect
    <3> QED
      BY <3>1, <3>2
  <2>9. CASE UNCHANGED vars
    BY <2>9 DEF vars, statics
  <2> QED
    BY <2>1, <2>2, <2>3, <2>4, <2>5, <2>6, <2>7, <2>8, <2>9 DEF Next
<1>3. StoppedInv => StoppedIsOff
  BY DEF StoppedInv, StoppedIsOff
<1> QED
  BY <1>1, <1>2, <1>3, TypeCorrect, PTL DEF Spec

\* A start is reported only with every joint enabled (write, start_truck,
\* stop_truck, on_activate).
THEOREM ReportedStartHolds == Spec => []ReportedStart
<1>1. Init => StartedInv
  BY DEF Init, StartedInv
<1>2. TypeOK /\ TypeOK' /\ StartedInv /\ [Next]_vars => StartedInv'
  <2> SUFFICES ASSUME TypeOK, TypeOK', StartedInv, [Next]_vars PROVE StartedInv'
    OBVIOUS
  <2> USE DEF StartedInv
  <2>1. CASE Configure
    BY <2>1, ConfigureEffect
  <2>2. CASE Cleanup
    BY <2>2, CleanupEffect
  <2>3. CASE Activate
    <3>1. lifecycle' = "active" => startApplied' = 0
      BY <2>3 DEF Activate
    <3>2. ~heldOver' => ~mEnable'
      BY <2>3 DEF Activate, statics
    <3> QED
      BY <3>1, <3>2
  <2>4. CASE Deactivate
    BY <2>4, DeactivateEffect
  <2>5. CASE Shutdown
    BY <2>5, ShutdownEffect
  <2>6. CASE Crash
    BY <2>6 DEF Crash
  <2>7. CASE Read
    BY <2>7 DEF Read, statics, observers
  <2>8. ASSUME NEW dt \in 1 .. MaxGap, NEW cmd \in Command, Write(dt, cmd)
        PROVE  StartedInv'
    <3>1. /\ heldOver' = (heldOver /\ (cmd.start \/ enable))
          /\ enable \in BOOLEAN /\ mEnable \in BOOLEAN /\ cmd.start \in BOOLEAN
      BY <2>8 DEF Write, TypeOK, Command
    <3>2. CASE lifecycle' = "finalized"
      BY <3>2
    <3>3. CASE lifecycle' # "finalized"
      <4>1. /\ pwm'.on \cap Joints =
                  IF enable = mEnable THEN pwm.on \cap Joints ELSE IF enable THEN Joints ELSE {}
            /\ startApplied' = IF enable /\ cmd.start THEN 1 ELSE 0
            /\ mEnable' = enable /\ UNCHANGED lifecycle
        BY <2>8, <3>3, WriteEffect
      <4>2. CASE ~enable
        BY <4>1, <4>2
      <4>3. CASE enable
        <5>1. heldOver' = heldOver
          BY <3>1, <4>3 DEF TypeOK
        <5>2. lifecycle' = "active" /\ ~heldOver' => Joints \subseteq pwm'.on
          BY <3>1, <4>1, <4>3, <5>1
        <5> QED
          BY <4>1, <4>3, <5>2
      <4> QED
        BY <4>2, <4>3
    <3> QED
      BY <3>2, <3>3
  <2>9. CASE UNCHANGED vars
    BY <2>9 DEF vars, members, statics, observers
  <2> QED
    BY <2>1, <2>2, <2>3, <2>4, <2>5, <2>6, <2>7, <2>8, <2>9 DEF Next
<1>3. StartedInv => ReportedStart
  BY DEF StartedInv, ReportedStart
<1> QED
  BY <1>1, <1>2, <1>3, TypeCorrect, PTL DEF Spec

-----------------------------------------------------------------------------
\* The count of failed accesses is a number.
LEMMA FailsType == ASSUME TypeOK PROVE pwm.fails \in Nat
BY BoundAssumption DEF TypeOK, PwmFiles

\* A write without a failed access does all it is meant to do.
LEMMA FaultlessWrite ==
  ASSUME TypeOK, TypeOK', NEW dt \in 1 .. MaxGap, NEW cmd \in Command, Write(dt, cmd),
         pwm'.fails = 0
  PROVE  /\ pwm.fails = 0 /\ pwm'.duty["horn"] = HornPulse(cmd)
         /\ "horn" \in pwm.on => "horn" \in pwm'.on
         /\ lifecycle' = lifecycle
         /\ mStart' = cmd.start /\ mEnable' = enable /\ mTraction' = cmd.traction
         /\ enable /\ cmd.start =>
              /\ pwm'.duty["traction"] = TractionPulse(cmd, BackAge(dt, cmd))
              /\ reverseMode' = ReverseMode(cmd, BackAge(dt, cmd))
         /\ ~(enable /\ cmd.start) =>
              \A c \in Joints \ {"steering"} : pwm'.duty[c] = "neutral"
<1> DEFINE d == JointDuties(cmd, BackAge(dt, cmd))
<1>1. pwm.fails = 0
  BY FailsType, WriteEffect
<1>2. /\ pwm'.duty["horn"] = HornPulse(cmd)
      /\ "horn" \in pwm.on => "horn" \in pwm'.on
  BY <1>1, WriteEffect
<1>3. /\ \A c \in DOMAIN d : pwm'.duty[c] = d[c]
      /\ IF enable /\ cmd.start
         THEN gearApplied' = cmd.gear /\ reverseMode' = ReverseMode(cmd, BackAge(dt, cmd))
         ELSE UNCHANGED <<gearApplied, reverseMode>>
      /\ mStart' = cmd.start /\ mEnable' = enable /\ mTraction' = cmd.traction
      /\ lifecycle' = lifecycle
  BY <1>1, WriteEffect
<1>4. /\ Joints \ {"steering"} \subseteq DOMAIN d
      /\ ~(enable /\ cmd.start) => \A c \in DOMAIN d : d[c] = "neutral"
      /\ enable /\ cmd.start => d["traction"] = TractionPulse(cmd, BackAge(dt, cmd))
  BY BackAgeType, JointDutiesType
<1> HIDE DEF d
<1>5. "traction" \in Joints \ {"steering"}
  BY JointAssumption
<1> QED
  BY <1>1, <1>2, <1>3, <1>4, <1>5

\* The traction never goes from forward straight to reverse (write, the statics
\* reverse_mode and start_drive_back_time_s).
THEOREM NoShiftHolds == Spec => NoShiftUnderPower
<1>1. Init => ShiftInv
  BY DEF Init, ShiftInv
<1>2. TypeOK /\ TypeOK' /\ ShiftInv /\ [Next]_vars =>
        /\ ShiftInv'
        /\ pwm.duty["traction"] = "forward" /\ pwm'.fails = 0 => pwm'.duty["traction"] # "reverse"
  <2> DEFINE Safe == pwm.duty["traction"] = "forward" /\ pwm'.fails = 0
                       => pwm'.duty["traction"] # "reverse"
  <2> SUFFICES ASSUME TypeOK, TypeOK', ShiftInv, [Next]_vars PROVE ShiftInv' /\ Safe
    OBVIOUS
  <2>0. pwm.fails \in Nat /\ pwm'.fails \in Nat /\ "traction" \in Joints /\ "traction" \in Channel
    BY FailsType, JointAssumption, BoundAssumption DEF TypeOK, PwmFiles, Channel
  <2>11. ASSUME UNCHANGED <<reverseMode, mTraction>>, pwm'.fails >= pwm.fails,
                \/ pwm'.duty["traction"] = pwm.duty["traction"]
                \/ pwm'.duty["traction"] = "none"
                \/ pwm'.fails > pwm.fails
         PROVE  ShiftInv' /\ Safe
    BY <2>0, <2>11 DEF ShiftInv
  <2>1. CASE Configure
    <3>1. UNCHANGED <<reverseMode, mTraction>>
      BY <2>1 DEF Configure, statics
    <3> QED
      BY <2>1, <2>11, <3>1, ConfigureEffect
  <2>2. CASE Cleanup
    <3>1. UNCHANGED <<reverseMode, mTraction>>
      BY <2>2 DEF Cleanup, statics
    <3> QED
      BY <2>0, <2>2, <2>11, <3>1, CleanupEffect
  <2>3. CASE Activate
    <3>1. UNCHANGED <<reverseMode, mTraction>>
      BY <2>3 DEF Activate, statics
    <3> QED
      BY <2>0, <2>3, <2>11, <3>1, ActivateEffect
  <2>4. CASE Deactivate
    <3>1. UNCHANGED <<reverseMode, mTraction>>
      BY <2>4 DEF Deactivate, statics
    <3> QED
      BY <2>4, <2>11, <3>1, DeactivateEffect
  <2>5. CASE Shutdown
    <3>1. UNCHANGED <<reverseMode, mTraction>>
      BY <2>5 DEF Shutdown, statics
    <3> QED
      BY <2>0, <2>5, <2>11, <3>1, ShutdownEffect
  <2>6. CASE Crash
    BY <2>6 DEF Crash, ShiftInv
  <2>7. CASE Read
    BY <2>7 DEF Read, statics, ShiftInv
  <2>8. ASSUME NEW dt \in 1 .. MaxGap, NEW cmd \in Command, Write(dt, cmd)
        PROVE  ShiftInv' /\ Safe
    <3>1. CASE pwm'.fails # 0
      BY <3>1 DEF ShiftInv
    <3>2. CASE pwm'.fails = 0
      <4>1. /\ pwm.fails = 0 /\ mTraction' = cmd.traction
            /\ enable /\ cmd.start =>
                 /\ pwm'.duty["traction"] = TractionPulse(cmd, BackAge(dt, cmd))
                 /\ reverseMode' = ReverseMode(cmd, BackAge(dt, cmd))
            /\ ~(enable /\ cmd.start) => pwm'.duty["traction"] = "neutral"
        BY <2>0, <2>8, <3>2, FaultlessWrite, JointAssumption
      <4>2. CASE ~(enable /\ cmd.start)
        BY <4>1, <4>2 DEF ShiftInv
      <4>3. CASE (enable /\ cmd.start) /\ cmd.traction = "ahead"
        BY <4>1, <4>3 DEF ShiftInv, TractionPulse, ReverseMode
      <4>4. CASE (enable /\ cmd.start) /\ cmd.traction = "still"
        BY <4>1, <4>4 DEF ShiftInv, TractionPulse
      <4>5. CASE (enable /\ cmd.start) /\ cmd.traction = "back"
        <5>1. BackAge(dt, cmd) \in Nat /\ BrakeTime \in Nat \ {0} /\ ReverseTime \in Nat
          BY <2>8, BackAgeType, TimeAssumption
        <5>2. pwm'.duty["traction"] = IF BackAge(dt, cmd) < BrakeTime THEN "brake"
                  ELSE IF BackAge(dt, cmd) < ReverseTime THEN "neutral" ELSE "reverse"
          BY <4>1, <4>5 DEF TractionPulse
        <5>3. ShiftInv'
          BY <5>2 DEF ShiftInv
        <5>4. ASSUME pwm.duty["traction"] = "forward"
              PROVE  pwm'.duty["traction"] # "reverse"
          <6>1. ~reverseMode /\ mTraction # "back"
            BY <4>1, <5>4 DEF ShiftInv
          <6>2. BackAge(dt, cmd) = 0
            BY <4>5, <6>1 DEF BackAge
          <6> QED
            BY <5>1, <5>2, <6>2
        <5> QED
          BY <5>3, <5>4
      <4>6. cmd.traction \in Sign
        BY DEF Command
      <4> QED
        BY <4>2, <4>3, <4>4, <4>5, <4>6 DEF Sign
    <3> QED
      BY <3>1, <3>2
  <2>9. CASE UNCHANGED vars
    BY <2>9 DEF vars, statics, ShiftInv
  <2> QED
    BY <2>1, <2>2, <2>3, <2>4, <2>5, <2>6, <2>7, <2>8, <2>9 DEF Next
<1> QED
  BY <1>1, <1>2, TypeCorrect, PTL DEF Spec, NoShiftUnderPower

\* The truck is released only after the horn has sounded for as long as the
\* start lasts (write, start_time_s).
THEOREM WarnedHolds == Spec => WarnedBeforeDrive
<1>1. Init => WarnInv
  BY DEF Init, WarnInv
<1>2. TypeOK /\ TypeOK' /\ WarnInv /\ [Next]_vars =>
        /\ WarnInv'
        /\ lifecycle = "active" /\ ~heldOver /\ pwm'.fails = 0 /\ ~enable /\ enable'
             => sounded' >= StartDelay
  <2> DEFINE Warned == lifecycle = "active" /\ ~heldOver /\ pwm'.fails = 0 /\ ~enable /\ enable'
                         => sounded' >= StartDelay
  <2> SUFFICES ASSUME TypeOK, TypeOK', WarnInv, [Next]_vars PROVE WarnInv' /\ Warned
    OBVIOUS
  <2>1. CASE Configure
    BY <2>1, ConfigureEffect DEF WarnInv
  <2>2. CASE Cleanup
    BY <2>2, CleanupEffect DEF WarnInv
  <2>3. CASE Activate
    <3>1. ~heldOver' => ~mStart'
      BY <2>3 DEF Activate, statics
    <3> QED
      BY <2>3, <3>1, ActivateEffect DEF WarnInv
  <2>4. CASE Deactivate
    <3>1. enable' = enable
      BY <2>4 DEF Deactivate, members
    <3> QED
      BY <2>4, <3>1, DeactivateEffect DEF WarnInv
  <2>5. CASE Shutdown
    <3>1. enable' = enable
      BY <2>5 DEF Shutdown, members
    <3> QED
      BY <2>5, <3>1, ShutdownEffect DEF WarnInv
  <2>6. CASE Crash
    BY <2>6 DEF Crash, WarnInv
  <2>7. CASE Read
    BY <2>7 DEF Read, statics, observers, WarnInv
  <2>8. ASSUME NEW dt \in 1 .. MaxGap, NEW cmd \in Command, Write(dt, cmd)
        PROVE  WarnInv' /\ Warned
    <3>1. CASE pwm'.fails # 0
      BY <3>1 DEF WarnInv
    <3>2. CASE pwm'.fails = 0
      <4>1. /\ pwm.fails = 0 /\ pwm'.duty["horn"] = HornPulse(cmd)
            /\ "horn" \in pwm.on => "horn" \in pwm'.on
            /\ lifecycle' = lifecycle /\ mStart' = cmd.start
        BY <2>8, <3>2, FaultlessWrite
      <4>2. /\ startAge' = IF cmd.start /\ ~mStart THEN 0 ELSE Aged(startAge, dt, StartDelay)
            /\ enable' = IF cmd.start THEN enable \/ startAge' >= StartDelay
                                      ELSE enable /\ stopAge' < StopDelay
            /\ sounded' = IF "horn" \in pwm'.on /\ pwm.duty["horn"] = "warn"
                                                /\ pwm'.duty["horn"] = "warn"
                          THEN Aged(sounded, dt, StartDelay) ELSE 0
            /\ heldOver' = (heldOver /\ (cmd.start \/ enable))
        BY <2>8 DEF Write
      <4>3. /\ enable \in BOOLEAN /\ mStart \in BOOLEAN /\ heldOver \in BOOLEAN
            /\ cmd.start \in BOOLEAN /\ StartDelay \in Nat \ {0} /\ dt \in Nat
            /\ startAge \in 0 .. StartDelay /\ sounded \in 0 .. StartDelay
            /\ startAge' \in 0 .. StartDelay /\ sounded' \in 0 .. StartDelay
        BY TimeAssumption DEF TypeOK, Command
      \* While a start is under way, the horn has sounded as long as it lasts.
      <4>4. ASSUME lifecycle = "active", ~heldOver, cmd.start, ~enable
            PROVE  pwm'.duty["horn"] = "warn" /\ sounded' >= startAge'
        <5>1. pwm'.duty["horn"] = "warn"
          BY <4>1, <4>4 DEF HornPulse
        <5>2. CASE ~mStart
          BY <4>2, <4>3, <4>4, <5>1, <5>2
        <5>3. CASE mStart
          <6>1. "horn" \in pwm.on /\ pwm.duty["horn"] = "warn" /\ startAge <= sounded
            BY <4>1, <4>3, <4>4, <5>3 DEF WarnInv
          <6>2. sounded' = Aged(sounded, dt, StartDelay)
            BY <4>1, <4>2, <5>1, <6>1
          <6>3. startAge' = Aged(startAge, dt, StartDelay)
            BY <4>2, <5>3
          <6>4. Aged(startAge, dt, StartDelay) <= Aged(sounded, dt, StartDelay)
            BY <4>3, <6>1, AgedType
          <6> QED
            BY <4>3, <5>1, <6>2, <6>3, <6>4
        <5> QED
          BY <5>2, <5>3
      <4>5. WarnInv'
        <5> SUFFICES ASSUME lifecycle' = "active"
                     PROVE  /\ "horn" \in pwm'.on
                            /\ ~heldOver' /\ mStart' /\ ~enable' =>
                                 pwm'.duty["horn"] = "warn" /\ sounded' >= startAge'
          BY DEF WarnInv
        <5>1. lifecycle = "active" /\ "horn" \in pwm'.on
          BY <4>1 DEF WarnInv
        <5>2. ASSUME ~heldOver', mStart', ~enable'
              PROVE  pwm'.duty["horn"] = "warn" /\ sounded' >= startAge'
          <6>1. cmd.start /\ ~enable /\ ~heldOver
            BY <4>1, <4>2, <4>3, <5>2
          <6> QED
            BY <4>4, <5>1, <6>1
        <5> QED
          BY <5>1, <5>2
      <4>6. Warned
        <5> SUFFICES ASSUME lifecycle = "active", ~heldOver, ~enable, enable'
                     PROVE  sounded' >= StartDelay
          OBVIOUS
        <5>1. cmd.start /\ startAge' >= StartDelay
          BY <4>2, <4>3
        <5> QED
          BY <4>3, <4>4, <5>1
      <4> QED
        BY <4>5, <4>6
    <3> QED
      BY <3>1, <3>2
  <2>9. CASE UNCHANGED vars
    BY <2>9 DEF vars, members, statics, observers, WarnInv
  <2> QED
    BY <2>1, <2>2, <2>3, <2>4, <2>5, <2>6, <2>7, <2>8, <2>9 DEF Next
<1> QED
  BY <1>1, <1>2, TypeCorrect, PTL DEF Spec, WarnedBeforeDrive

\* A write that gives up leaves the truck at rest (write, start_truck,
\* stop_truck): the channels are changed over one cycle after the joints were
\* given their neutral duties.
THEOREM AbortHolds == Spec => AbortedIsNeutral
<1> DEFINE Rest == {"none", "neutral"}
           Abort == /\ lifecycle' = "finalized" /\ pwm'.fails = 1
                    /\ \E dt \in 1 .. MaxGap, cmd \in Command : Write(dt, cmd)
<1>1. Init => RestInv
  BY DEF Init, RestInv
<1>2. TypeOK /\ TypeOK' /\ RestInv /\ [Next]_vars => RestInv'
  <2> SUFFICES ASSUME TypeOK, TypeOK', RestInv, [Next]_vars PROVE RestInv'
    OBVIOUS
  <2>0. pwm.fails \in Nat /\ pwm'.fails \in Nat /\ Joints \subseteq Channel
    BY FailsType, BoundAssumption DEF TypeOK, PwmFiles, Channel
  <2>1. CASE Configure
    <3>1. lifecycle' = "inactive" => ~enable'
      BY <2>1, Zenon DEF Configure
    <3>2. mEnable' = mEnable
      BY <2>1 DEF Configure, statics
    <3> QED
      BY <2>0, <2>1, <3>1, <3>2, ConfigureEffect DEF RestInv, Running, TypeOK
  <2>2. CASE Cleanup
    BY <2>0, <2>2, CleanupEffect DEF RestInv, Running
  <2>3. CASE Activate
    <3>1. enable' = enable /\ mEnable' = mEnable
      BY <2>3 DEF Activate, statics
    <3> QED
      BY <2>0, <2>3, <3>1, ActivateEffect DEF RestInv, Running
  <2>4. CASE Deactivate
    <3>1. enable' = enable /\ mEnable' = mEnable
      BY <2>4 DEF Deactivate, members, statics
    <3> QED
      BY <2>0, <2>4, <3>1, DeactivateEffect DEF RestInv, Running
  <2>5. CASE Shutdown
    BY <2>5, ShutdownEffect DEF RestInv, Running
  <2>6. CASE Crash
    BY <2>6 DEF Crash, RestInv, Running
  <2>7. CASE Read
    BY <2>7 DEF Read, statics, RestInv
  <2>8. ASSUME NEW dt \in 1 .. MaxGap, NEW cmd \in Command, Write(dt, cmd)
        PROVE  RestInv'
    <3>1. CASE pwm'.fails # 0
      BY <3>1 DEF RestInv
    <3>2. CASE pwm'.fails = 0
      <4>1. /\ lifecycle' = lifecycle /\ mEnable' = enable
            /\ ~(enable /\ cmd.start) =>
                 \A c \in Joints \ {"steering"} : pwm'.duty[c] = "neutral"
        BY <2>8, <3>2, FaultlessWrite
      <4>2. /\ lifecycle \in Running
            /\ enable' = IF cmd.start THEN enable \/ startAge' >= StartDelay
                                      ELSE enable /\ stopAge' < StopDelay
        BY <2>8 DEF Write
      <4>3. enable' # mEnable' => ~(enable /\ cmd.start)
        BY <4>1, <4>2 DEF TypeOK
      <4> QED
        BY <4>1, <4>2, <4>3 DEF RestInv, Running
    <3> QED
      BY <3>1, <3>2
  <2>9. CASE UNCHANGED vars
    BY <2>9 DEF vars, members, statics, RestInv
  <2> QED
    BY <2>1, <2>2, <2>3, <2>4, <2>5, <2>6, <2>7, <2>8, <2>9 DEF Next
<1>3. TypeOK /\ TypeOK' /\ RestInv /\ Abort =>
        \A c \in (Joints \ {"steering"}) \cap pwm'.on : pwm'.duty[c] \in Rest
  <2> SUFFICES ASSUME TypeOK, TypeOK', RestInv, lifecycle' = "finalized", pwm'.fails = 1,
                      NEW dt \in 1 .. MaxGap, NEW cmd \in Command, Write(dt, cmd)
               PROVE  \A c \in Joints \ {"steering"} : pwm'.duty[c] \in Rest
    OBVIOUS
  <2>1. lifecycle \in Running /\ lifecycle' # lifecycle
    BY DEF Write, Running
  <2>2. /\ pwm'.fails > pwm.fails /\ enable # mEnable
        /\ \A c \in Joints : pwm'.duty[c] \in {pwm.duty[c], "neutral"}
    BY <2>1, WriteEffect
  <2>3. pwm.fails = 0
    BY <2>2, FailsType
  <2> QED
    BY <2>1, <2>2, <2>3 DEF RestInv
<1>4. TypeOK /\ TypeOK' /\ RestInv /\ [Next]_vars =>
        [Abort => \A c \in (Joints \ {"steering"}) \cap pwm'.on : pwm'.duty[c] \in Rest]_vars
  BY <1>3
<1> QED
  BY <1>1, <1>2, <1>4, TypeCorrect, PTL DEF Spec, AbortedIsNeutral

=============================================================================
