---------------------------- MODULE UbxFraming ----------------------------
(* The framing of the u-blox binary protocol, as the class UBloxMessage of *)
(* navio/ublox.py sees it: two preamble bytes, class, id, a payload length *)
(* of two bytes, the payload, and two checksum bytes.  A message m is the  *)
(* _buf of a message that is being received.                               *)
EXTENDS Integers, Sequences

Byte == 0..255
PREAMBLE1 == 181
PREAMBLE2 == 98

MsgClass(m) == m[3]
MsgId(m) == m[4]
MsgType(m) == <<MsgClass(m), MsgId(m)>>
MsgLength(m) == m[5] + 256 * m[6]

(* The bytes still missing.  Negative when the buffer holds more than one  *)
(* message.                                                                *)
NeededBytes(m) ==
  IF Len(m) < 6 THEN 8 - Len(m) ELSE MsgLength(m) + 8 - Len(m)

(* The two running sums over class, id, length and payload, modulo 2^8.    *)
Checksum(data) ==
  LET ck_a[i \in 0..Len(data)] ==
        IF i = 0 THEN 0 ELSE (ck_a[i - 1] + data[i]) % 256
      ck_b[i \in 0..Len(data)] ==
        IF i = 0 THEN 0 ELSE (ck_b[i - 1] + ck_a[i]) % 256
  IN <<ck_a[Len(data)], ck_b[Len(data)]>>
ValidChecksum(m) ==
  SubSeq(m, Len(m) - 1, Len(m)) = Checksum(SubSeq(m, 3, Len(m) - 2))

Valid(m) == Len(m) >= 8 /\ NeededBytes(m) = 0 /\ ValidChecksum(m)

ValidSoFar(m) ==
  /\ Len(m) > 0 => m[1] = PREAMBLE1
  /\ Len(m) > 1 => m[2] = PREAMBLE2
  /\ NeededBytes(m) = 0 => Valid(m)

From(m, k) == SubSeq(m, k + 1, Len(m))

(* The slip of emptying the buffer instead of looking for the next start.  *)
DroppedAll(m) == IF ValidSoFar(m) THEN 0 ELSE Len(m)

(* How many bytes the loop of add() drops: it stops at the first suffix    *)
(* that may still become a message, at the latest at the empty one.        *)
Dropped(m) ==
  CHOOSE k \in 0..Len(m) :
    /\ ValidSoFar(From(m, k))
    /\ \A j \in 0..(k - 1) : ~ValidSoFar(From(m, j))

(* The slips of keeping the first message of several, and of no check.     *)
KeepFirst(m) ==
  IF NeededBytes(m) < 0 THEN SubSeq(m, 1, Len(m) + NeededBytes(m)) ELSE m
KeepAll(m) == m

(* A suffix that holds more than one message is thrown away whole.         *)
Keep(m) == IF NeededBytes(m) < 0 THEN <<>> ELSE m

Add(m, bytes) ==
  LET all == m \o bytes IN Keep(From(all, Dropped(all)))

(* Where a header starts on a line: two preamble bytes.  Its length says   *)
(* how far the message would reach.                                        *)
HeaderAt(line, h) ==
  /\ h + 5 <= Len(line)
  /\ line[h] = PREAMBLE1
  /\ line[h + 1] = PREAMBLE2
EndOf(line, h) == h + 7 + line[h + 4] + 256 * line[h + 5]
Segment(line, h) == SubSeq(line, h, EndOf(line, h))
FrameAt(line, h) ==
  /\ HeaderAt(line, h)
  /\ EndOf(line, h) <= Len(line)
  /\ Valid(Segment(line, h))

(* The settings that the user may have a preference for: the type of the   *)
(* message that reports each, the place of its byte in that message, and   *)
(* the payload that the layout of the type demands.                        *)
CFG_NAV5 == <<6, 36>>
CFG_NAVX5 == <<6, 35>>
Settings == {"dynModel", "dgpsTimeOut", "usePPP"}
ReportOf == [dynModel |-> CFG_NAV5, dgpsTimeOut |-> CFG_NAV5, usePPP |-> CFG_NAVX5]
PlaceOf == [dynModel |-> 9, dgpsTimeOut |-> 30, usePPP |-> 33]
SizeOf(type) == IF type = CFG_NAV5 THEN 36 ELSE 40

(* A message of the given type and payload, as send_message builds it.     *)
Frame(cls, id, payload) ==
  LET body == <<cls, id, Len(payload) % 256, Len(payload) \div 256>> \o payload
  IN <<PREAMBLE1, PREAMBLE2>> \o body \o Checksum(body)
============================================================================
