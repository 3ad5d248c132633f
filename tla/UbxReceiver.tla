---------------------------- MODULE UbxReceiver ----------------------------
(* receive_message of navio/ublox.py and its two variants, reading a line  *)
(* that delivers its bytes in pieces of any size.                          *)
(*                                                                         *)
(* A call starts with an empty message, reads as many bytes as the message *)
(* still needs, and ends with a message, with None when a read returns     *)
(* nothing (unless ignore_eof is set), with an error of special_handling,  *)
(* or with an exception from outside, which may strike between any two     *)
(* steps: the TimeoutError of SIGALRM in receive_message_nonblocking, or   *)
(* the error of a device that fails.  With None or an error the bytes read *)
(* so far are gone.                                                        *)
(*                                                                         *)
(* What special_handling sends is the subject of UbxConfig, and so are     *)
(* preferences that change between two calls: here they are set before the *)
(* first one, as numbers.  What an SPI device clocks in while it is        *)
(* written to is never read, and not part of the line.                     *)
EXTENDS UbxFraming

CONSTANTS Streams,      (* what the line may carry *)
          KnownTypes,   (* the keys of msg_types that occur *)
          Preferences,  (* what the user may prefer: a value for each of some settings *)
          MaxCuts       (* bound: calls that end without a message *)

ASSUME StreamsAssumption == Streams \subseteq Seq(Byte)
ASSUME MaxCutsAssumption == MaxCuts \in Nat
ASSUME PreferencesAssumption ==
  \A p \in Preferences : DOMAIN p \subseteq Settings /\ \A s \in DOMAIN p : p[s] \in Int

VARIABLES line,     (* the bytes of the line; never changes *)
          ignoreEof,(* the argument ignore_eof *)
          alarm,    (* exceptions may strike from outside *)
          preferred,(* preferred_dynamic_model, _dgps_timeout, _usePPP: those that are set *)
          pos,      (* bytes read from the line so far *)
          pc,       (* "idle": no call, "reading", "special": a whole message
                       is in the buffer and special_handling is next *)
          buf,      (* _buf of the message being received *)
          got,      (* history: the messages returned, with the place of
                       their last byte *)
          cuts      (* history: the places at which a call gave up *)

vars == <<line, ignoreEof, alarm, preferred, pos, pc, buf, got, cuts>>
call == <<line, ignoreEof, alarm, preferred>>

Message == [last : Nat, bytes : Seq(Byte)]

TypeOK ==
  /\ line \in Streams
  /\ ignoreEof \in BOOLEAN
  /\ alarm \in BOOLEAN
  /\ preferred \in Preferences
  /\ pos \in 0..Len(line)
  /\ pc \in {"idle", "reading", "special"}
  /\ buf \in Seq(Byte)
  /\ got \in Seq(Message)
  /\ cuts \in Seq(0..Len(line))

Init ==
  /\ line \in Streams
  /\ ignoreEof \in BOOLEAN
  /\ alarm \in BOOLEAN
  /\ preferred \in Preferences
  /\ pos = 0
  /\ pc = "idle"
  /\ buf = <<>>
  /\ got = <<>>
  /\ cuts = <<>>

Call ==
  /\ pc = "idle"
  /\ pc' = "reading"
  /\ buf' = <<>>
  /\ UNCHANGED <<call, pos, got, cuts>>

(* The slip of counting the bytes asked for.                               *)
ReadSomeAsked(n) ==
  /\ pc = "reading"
  /\ n <= NeededBytes(buf)
  /\ pos' = pos + NeededBytes(buf)
  /\ buf' = Add(buf, SubSeq(line, pos + 1, pos + n))
  /\ pc' = IF Valid(buf') THEN "special" ELSE "reading"
  /\ UNCHANGED <<call, got, cuts>>

(* read(n) returns between one and n bytes: what has arrived by then, or   *)
(* on a blocking device what the system hands over.                        *)
ReadSome(n) ==
  /\ pc = "reading"
  /\ n <= NeededBytes(buf)
  /\ pos' = pos + n
  /\ buf' = Add(buf, SubSeq(line, pos + 1, pos + n))
  /\ pc' = IF Valid(buf') THEN "special" ELSE "reading"
  /\ UNCHANGED <<call, got, cuts>>

GiveUp ==
  /\ Len(cuts) < MaxCuts
  /\ pc' = "idle"
  /\ buf' = <<>>
  /\ cuts' = Append(cuts, pos)
  /\ UNCHANGED <<call, pos, got>>

(* A read that returns nothing ends the call with None.  With ignore_eof   *)
(* the loop sleeps and reads again, which changes nothing.                 *)
ReadNothing == pc = "reading" /\ ~ignoreEof /\ GiveUp

(* special_handling asks for the name of the message first, which fails    *)
(* for a type without a descriptor.  CFG_NAV5 it always unpacks, CFG_NAVX5 *)
(* if there is a preference for it, which fails when the length is not     *)
(* that of the layout.                                                     *)
Known(m) == MsgType(m) \in KnownTypes
Wanted(m) == {s \in DOMAIN preferred : ReportOf[s] = MsgType(m)}
Misfit(m) ==
  /\ MsgType(m) = CFG_NAV5 \/ Wanted(m) # {}
  /\ MsgLength(m) # SizeOf(MsgType(m))

(* A setting that is not as preferred is set in the message, which is then *)
(* packed: that fails for a value that is no byte.                         *)
Differing(m) == {s \in Wanted(m) : m[PlaceOf[s]] # preferred[s]}
Refuses(m) == \E s \in Differing(m) : preferred[s] \notin Byte

WithPreferred(m) ==
  [i \in 1..Len(m) |->
     IF \E s \in Differing(m) : PlaceOf[s] = i
     THEN preferred[CHOOSE s \in Differing(m) : PlaceOf[s] = i]
     ELSE m[i]]

\* The slip of setting the bytes without packing.
HandledInPlace(m) == WithPreferred(m)

Handled(m) ==
  IF Differing(m) = {} THEN m
  ELSE LET b == SubSeq(WithPreferred(m), 1, Len(m) - 2)
       IN b \o Checksum(SubSeq(b, 3, Len(b)))

Taken(m) == Known(m) /\ ~Misfit(m) /\ ~Refuses(m)

(* The three errors: UBloxError twice, and struct.error.                   *)
Fail ==
  /\ pc = "special"
  /\ \/ ~Known(buf)
     \/ Known(buf) /\ Misfit(buf)
     \/ Known(buf) /\ ~Misfit(buf) /\ Refuses(buf)
  /\ pc' = "idle"
  /\ buf' = <<>>
  /\ UNCHANGED <<call, pos, got, cuts>>

Return ==
  /\ pc = "special"
  /\ Taken(buf)
  /\ pc' = "idle"
  /\ got' = Append(got, [last |-> pos, bytes |-> Handled(buf)])
  /\ buf' = <<>>
  /\ UNCHANGED <<call, pos, cuts>>

(* An exception from outside.                                              *)
Alarm == alarm /\ pc # "idle" /\ GiveUp

Receive == Call \/ (\E n \in 1..(Len(line) - pos) : ReadSome(n)) \/ Fail \/ Return

Next == Receive \/ ReadNothing \/ Alarm

(* Bytes keep arriving and the caller keeps calling.                       *)
Spec == Init /\ [][Next]_vars /\ WF_vars(Receive)
----------------------------------------------------------------------------
(* No earlier header reaches into the message at s, be it a damaged one or *)
(* two bytes of noise or payload that look like one.                       *)
Undisturbed(s) ==
  \A h \in 1..(s - 1) : HeaderAt(line, h) => EndOf(line, h) < s

Cut(s) == \E i \in DOMAIN cuts : cuts[i] \in s..EndOf(line, s)

Returned(s) == \E i \in DOMAIN got : got[i].last = EndOf(line, s)

(* A message that special_handling takes under the preferences.            *)
Due(s) == FrameAt(line, s) /\ Undisturbed(s) /\ Taken(Segment(line, s))

(* The message under construction is always the stretch of the line that   *)
(* ends at the last byte read: add() joins, drops and clears, and must     *)
(* never leave a gap or a byte that was dropped before.                    *)
BufferIsContiguous ==
  /\ Len(buf) <= pos
  /\ buf = SubSeq(line, pos - Len(buf) + 1, pos)

(* A call that reads asks for at least one byte: read(0) returns nothing,  *)
(* which the loop takes for the end of the file, or with ignore_eof it     *)
(* would ask for nothing for ever.                                         *)
WaitsForSomething == pc = "reading" => NeededBytes(buf) > 0

(* Noise, damage and the size of the pieces cost no message but those that *)
(* a false header reaches into, those in which a call gave up, and those   *)
(* at which special_handling fails.                                        *)
NothingSkipped ==
  pc = "idle" =>
    \A s \in 1..Len(line) :
      Due(s) /\ EndOf(line, s) <= pos /\ ~Cut(s) => Returned(s)

(* The calls hand out what UbxDelivery promises.                           *)
Placed(m) ==
  [first |-> m.last - Len(m.bytes) + 1, last |-> m.last, bytes |-> m.bytes]
delivered == [i \in DOMAIN got |-> Placed(got[i])]
Delivery == INSTANCE UbxDelivery WITH out <- delivered
Delivers == Delivery!Spec

(* A caller that never gives up gets every undisturbed message that        *)
(* special_handling takes.                                                 *)
AllReturned ==
  ignoreEof /\ ~alarm => <>(\A s \in 1..Len(line) : Due(s) => Returned(s))
============================================================================
