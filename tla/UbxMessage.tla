---------------------------- MODULE UbxMessage ----------------------------
(* A received message of navio/ublox.py as its user sees it: class         *)
(* UBloxMessage with unpack, pack, format and access to fields, driven by  *)
(* the layouts of class UBloxDescriptor.  The receiver is free to send any *)
(* length and any number of repeated blocks, and the user to set any field *)
(* to any value, one that struct.pack refuses and another count of the     *)
(* repeated blocks among them.  The list of the repeated blocks is as      *)
(* unpack left it, the values in it are the user's too.  A field is one    *)
(* value, an array too, and a value is known by its place in the payload;  *)
(* the program is run by Python 3.                                         *)
EXTENDS Naturals, Sequences, FiniteSets, SequencesExt

CONSTANTS MaxRecords,  (* bound: repeated blocks in a payload *)
          MaxEdits     (* bound: values the user sets *)
ASSUME BoundsAssumption == MaxRecords \in Nat \ {0} /\ MaxEdits \in Nat
----------------------------------------------------------------------------
(* A descriptor: the blocks of msg_format with their sizes and the names   *)
(* of their fields, here numbers; the field that counts the repeated       *)
(* blocks of format2, or 0; and the size of one of those.                  *)
Flat(size, n) ==
  [blocks |-> <<[size |-> size, names |-> [i \in 1..n |-> i]]>>, count |-> 0, size2 |-> 0]
Counted(size, n, count, size2) ==
  [Flat(size, n) EXCEPT !.count = count, !.size2 = size2]
Layered(blocks) == [blocks |-> blocks, count |-> 0, size2 |-> 0]

Remaining == 99   \* count_field '_remaining': as many as fit

msg_types ==
  [ACK_ACK |-> Flat(2, 2), ACK_NACK |-> Flat(2, 2), CFG_USB |-> Flat(108, 9),
   CFG_PRT |-> Flat(20, 9), CFG_RST |-> Flat(4, 3), CFG_SBAS |-> Flat(8, 5),
   CFG_GNSS |-> Flat(12, 9), CFG_RATE |-> Flat(6, 3), CFG_MSG |-> Flat(8, 3),
   NAV_POSLLH |-> Flat(28, 7), NAV_PVT |-> Flat(92, 37), NAV_VELNED |-> Flat(36, 9),
   NAV_DOP |-> Flat(18, 8), NAV_STATUS |-> Flat(16, 7), NAV_SOL |-> Flat(52, 17),
   NAV_POSUTM |-> Flat(18, 6), NAV_POSECEF |-> Flat(20, 5), NAV_VELECEF |-> Flat(20, 5),
   NAV_TIMEGPS |-> Flat(16, 6), NAV_TIMEUTC |-> Flat(20, 10), NAV_CLOCK |-> Flat(20, 5),
   RXM_SFRB |-> Flat(42, 3), CFG_NAV5 |-> Flat(36, 16), CFG_NAVX5 |-> Flat(40, 24),
   MON_HW |-> Flat(68, 17), MON_HW2 |-> Flat(28, 10), MON_SCHD |-> Flat(24, 9),
   TIM_TP |-> Flat(16, 6), TIM_TM2 |-> Flat(28, 10), TIM_SVIN |-> Flat(28, 9),
   INF_ERR |-> Flat(18, 1), INF_DEBUG |-> Flat(18, 1),
   NAV_SBAS |-> Counted(12, 9, 6, 12), NAV_DGPS |-> Counted(16, 7, 5, 12),
   NAV_SVINFO |-> Counted(8, 4, 2, 12), RXM_SVSI |-> Counted(8, 4, 4, 6),
   RXM_RAW |-> Counted(8, 4, 3, 24),
   CFG_CFG |-> Layered(<<[size |-> 12, names |-> <<1, 2, 3>>], [size |-> 1, names |-> <<4>>]>>),
   RXM_EPH |-> Layered(<<[size |-> 8, names |-> <<1, 2>>], [size |-> 96, names |-> <<3, 4, 5>>]>>),
   AID_EPH |-> Layered(<<[size |-> 8, names |-> <<1, 2>>], [size |-> 96, names |-> <<3, 4, 5>>]>>),
   RXM_ALM |-> Layered(<<[size |-> 8, names |-> <<1, 2>>], [size |-> 32, names |-> <<3>>]>>),
   (* 'optional1[48]' is listed twice *)
   AID_AOP |-> Layered(<<[size |-> 48, names |-> <<1, 2>>], [size |-> 144, names |-> <<3, 4, 4>>]>>),
   MON_VER |-> [blocks |-> <<[size |-> 40, names |-> <<1, 2>>], [size |-> 30, names |-> <<3>>]>>,
                count |-> Remaining, size2 |-> 30],
   (* '_remaining' stands where the list of fields belongs: no field of it *)
   (* can be taken, and none is packed.                                    *)
   AID_ALM |-> [blocks |-> <<[size |-> 8, names |-> <<>>]>>, count |-> 0, size2 |-> 0]]

Types == DOMAIN msg_types
Blocks(d, n) == SubSeq(d.blocks, 1, n)
SizeOf(blocks) == FoldLeft(LAMBDA sum, b : sum + b.size, 0, blocks)
NamesOf(blocks) == FoldLeft(LAMBDA all, b : all \o b.names, <<>>, blocks)
----------------------------------------------------------------------------
VARIABLES type,
          buf,       (* payload: length, value of the count field, the values in their order *)
          fields,    (* _fields: the value of each name *)
          counted,   (* the value of the field that counts the repeated blocks *)
          recs,      (* the number of _recs *)
          refused,   (* some value in _recs is one that struct.pack refuses *)
          unpacked,  (* _unpacked *)
          result,    (* how the last call ended *)
          edits,
          accepted   (* history: the last unpack went through *)

vars == <<type, buf, fields, counted, recs, refused, unpacked, result, edits, accepted>>
content == <<fields, counted, recs, refused, unpacked, accepted>>
d == msg_types[type]

Edited == 0     \* a value the user has set
Refused == 38   \* one that the format has no room for, or of another type
NoFields == [n \in {} |-> Edited]
Destroyed == [len |-> 0, cnt |-> 0, vals |-> <<>>]   \* msg._buf = ''
Results == {"ok", "shown", "packed", "UBloxError", "TypeError", "AttributeError",
            "struct.error", "NameError"}

(* The blocks that a payload of a length holds, whole ones and in order.   *)
Whole(t, len) ==
  {n \in 0..Len(msg_types[t].blocks) : SizeOf(Blocks(msg_types[t], n)) <= len}
Values(t, n) == Len(NamesOf(Blocks(msg_types[t], n)))

Payload(t, len, cnt) ==
  [len |-> len, cnt |-> cnt,
   vals |-> [i \in 1..Values(t, CHOOSE n \in Whole(t, len) : \A k \in Whole(t, len) : k <= n) |-> i]]

(* Lengths at and beside the ends of the blocks and of the repeated ones.  *)
Lengths(t) ==
  UNION {{x - 1, x, x + 1} :
    x \in {SizeOf(Blocks(msg_types[t], n)) + k * msg_types[t].size2 :
             n \in 1..Len(msg_types[t].blocks), k \in 0..MaxRecords}}

Init ==
  /\ type \in Types
  /\ \E len \in Lengths(type), cnt \in 0..MaxRecords :
       /\ d.count \in {0, Remaining} => cnt = 0
       /\ buf = Payload(type, len, cnt)
  /\ fields = NoFields
  /\ counted = 0
  /\ recs = 0
  /\ refused = FALSE
  /\ unpacked = FALSE
  /\ result = "ok"
  /\ edits = 0
  /\ accepted = FALSE
----------------------------------------------------------------------------
(* unpack: block by block until the payload is used up, then the repeated  *)
(* blocks.                                                                 *)
Exact == {n \in 1..Len(d.blocks) : SizeOf(Blocks(d, n)) = buf.len}
Taken == IF Exact = {} THEN Cardinality(Whole(type, buf.len)) - 1 ELSE CHOOSE n \in Exact : TRUE
TooShort == Exact = {} /\ Taken < Len(d.blocks)
Rest == buf.len - SizeOf(Blocks(d, Taken))

(* A name that is listed twice gets the last of its values.                *)
Stored ==
  LET names == NamesOf(Blocks(d, Taken))
      last(name) == CHOOSE i \in DOMAIN names :
                      names[i] = name /\ \A j \in (i + 1)..Len(names) : names[j] # name
  IN [name \in ToSet(names) |-> buf.vals[last(name)]]

(* What is left, divided by the size of a block, is a float: a count that  *)
(* range() refuses unless it is zero.                                      *)
Count == IF d.count = Remaining THEN Rest ELSE IF d.count = 0 THEN 0 ELSE buf.cnt
Fitting == IF d.size2 = 0 THEN 0 ELSE Rest \div d.size2

\* The slip of comparing with the size of a repeated block too late.
ReadPastTheEnd == Min({Count, Fitting + 1})

Read == Min({Count, Fitting})

\* The slip of setting the flag before the payload is looked at.
FlagAfterEarly(outcome) == TRUE

(* _unpacked is set by a payload without repeated blocks before its extra  *)
(* bytes are found, and by others after everything has been checked.       *)
FlagAfter(outcome) ==
  unpacked \/ outcome = "ok" \/ (outcome = "UBloxError" /\ ~TooShort /\ Count = 0)

Outcome ==
  CASE type = "AID_ALM" /\ ~TooShort -> "AttributeError"
    [] TooShort -> "UBloxError"
    [] ~TooShort /\ Count > 0 /\ d.count = Remaining -> "TypeError"
    [] OTHER -> IF Rest = Count * d.size2 THEN "ok" ELSE "UBloxError"

(* What was stored before an error stays.                                  *)
DoUnpack ==
  /\ fields' = Stored
  /\ counted' = buf.cnt
  /\ refused' = FALSE
  /\ recs' = IF TooShort \/ d.count = Remaining THEN 0 ELSE Read
  /\ unpacked' = FlagAfter(Outcome)
  /\ accepted' = (Outcome = "ok")

Valid == buf # Destroyed

Unpack ==
  /\ IF Valid THEN DoUnpack /\ result' = Outcome
     ELSE result' = "UBloxError" /\ UNCHANGED content
  /\ UNCHANGED <<type, buf, edits>>

(* str(message) unpacks it when nobody did.                                *)
Format ==
  /\ Valid
  /\ IF unpacked
     THEN result' = "shown" /\ UNCHANGED content
     ELSE DoUnpack /\ result' = IF Outcome = "ok" THEN "shown" ELSE Outcome
  /\ UNCHANGED <<type, buf, edits>>

(* The user sets a field, one the message has or not, for instance        *)
(* special_handling; the count is set like any other.                      *)
SetField(name, value) ==
  /\ edits < MaxEdits
  /\ edits' = edits + 1
  /\ fields' = [n \in DOMAIN fields \cup {name} |-> IF n = name THEN value ELSE fields[n]]
  /\ IF name = d.count THEN counted' \in 0..MaxRecords ELSE UNCHANGED counted
  /\ UNCHANGED <<type, buf, recs, refused, unpacked, result, accepted>>

(* A value in a repeated block, set as an item of the dictionary that its  *)
(* record is.                                                              *)
SetInBlock ==
  /\ recs > 0
  /\ edits < MaxEdits
  /\ edits' = edits + 1
  /\ refused' \in BOOLEAN
  /\ UNCHANGED <<type, buf, fields, counted, recs, unpacked, result, accepted>>

(* The values of the fields, up to the first name that is missing.         *)
Collected ==
  LET names == NamesOf(d.blocks)
      there == {i \in DOMAIN names : \A j \in 1..i : names[j] \in DOMAIN fields}
  IN [i \in 1..Cardinality(there) |-> fields[names[i]]]

\* The slip of a length without the repeated blocks.
PackedPayloadShort(blocks) ==
  [len |-> SizeOf(blocks), cnt |-> counted, vals |-> Collected]

PackedPayload(blocks) ==
  [len |-> SizeOf(blocks) + recs * d.size2, cnt |-> counted, vals |-> Collected]

\* The slip of trying the whole format only.
FormatsWhole == {Len(d.blocks)}

Formats == {1, Len(d.blocks)}

Fits ==
  {n \in Formats : /\ Len(Collected) = Len(NamesOf(Blocks(d, n))) /\ type # "AID_ALM"
                   /\ Refused \notin ToSet(Collected) /\ ~refused}

(* pack: the whole format, or the first block without the optional part.   *)
(* When neither takes the values, or that of the repeated blocks does not, *)
(* struct.pack raises and the old payload is gone: _buf is empty, or ends  *)
(* in the middle of a repeated block, which is as invalid.  The exception  *)
(* for an invalid message is misspelt.                                     *)
Pack ==
  /\ \/ /\ ~Valid
        /\ result' = "NameError"
        /\ UNCHANGED buf
     \/ /\ Valid /\ Fits # {}
        /\ buf' = PackedPayload(Blocks(d, Max(Fits)))
        /\ result' = "packed"
     \/ /\ Valid /\ Fits = {}
        /\ buf' = Destroyed
        /\ result' = "struct.error"
  /\ UNCHANGED <<type, content, edits>>

Next ==
  \/ Unpack \/ Format \/ Pack \/ SetInBlock
  \/ \E name \in ToSet(NamesOf(d.blocks)), value \in {Edited, Refused} : SetField(name, value)

Spec == Init /\ [][Next]_vars
----------------------------------------------------------------------------
TypeOK ==
  /\ type \in Types
  /\ buf.len \in Nat /\ buf.cnt \in 0..MaxRecords
  /\ buf.vals \in Seq(0..37)
  /\ DOMAIN fields \subseteq ToSet(NamesOf(d.blocks))
  /\ counted \in 0..MaxRecords
  /\ Valid => recs \in 0..Fitting
  /\ refused \in BOOLEAN
  /\ unpacked \in BOOLEAN /\ accepted \in BOOLEAN
  /\ result \in Results
  /\ edits \in 0..MaxEdits

(* The count in the payload is the one the receiver sent.                  *)
OwnCount == d.count \in DOMAIN buf.vals => buf.vals[d.count] # Edited

Present == ToSet(NamesOf(Blocks(d, Taken)))

(* A message that was unpacked stays well formed, whatever its user sets   *)
(* and however often it is packed, unless pack raised and nothing is left: *)
(* its length is that of whole blocks and of all repeated blocks, no field *)
(* of them is missing, and unless the user set the count of the repeated   *)
(* blocks it can be unpacked again.                                        *)
StaysWellFormed ==
  accepted /\ Valid =>
    /\ ~TooShort
    /\ Rest = recs * d.size2
    /\ Present \subseteq DOMAIN fields
    /\ OwnCount => Outcome = "ok"

(* What str() shows are the fields of all blocks of the payload, and as    *)
(* many repeated blocks as it counts: never the rest of an unpack that     *)
(* came upon an error in one of them.  A count that the user set and       *)
(* packed is left out: it disagrees with the blocks that were read.        *)
ShownIsWhole ==
  result = "shown" /\ OwnCount =>
    /\ ~TooShort
    /\ Present \subseteq DOMAIN fields
    /\ recs = Count

(* The fields are those that the payload has, and every value fits.        *)
Sound ==
  /\ DOMAIN fields = Present
  /\ \A name \in DOMAIN fields : fields[name] # Refused
  /\ ~refused

(* Packing what was unpacked changes the values that the user set and      *)
(* nothing else, and keeps the length unless the user added a field.  The  *)
(* payload is lost only if the user set a value that its format refuses or *)
(* a field that the message did not have.  AID_AOP, with a name listed     *)
(* twice, is the exception.                                                *)
PackKeeps ==
  [][Pack /\ accepted /\ Valid /\ type # "AID_AOP" =>
       \/ /\ Sound => buf'.len = buf.len
          /\ \A i \in DOMAIN buf.vals :
               i \in DOMAIN buf'.vals /\ buf'.vals[i] \in {buf.vals[i], Edited}
       \/ ~Sound /\ buf' = Destroyed]_vars
=============================================================================
