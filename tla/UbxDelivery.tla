---------------------------- MODULE UbxDelivery ----------------------------
(* What a receiver of u-blox messages promises, whatever the line carries: *)
(* each message it hands out is a valid message, of the type, length and   *)
(* content of one that lies on the line in one piece, but for the bytes of *)
(* settings, which may be those that the user prefers.  Messages are       *)
(* handed out in the order of the line, none twice and no two sharing a    *)
(* byte.  Nothing is promised about the messages that are never handed     *)
(* out.                                                                    *)
EXTENDS UbxFraming, SequencesExt

CONSTANTS Streams,     (* what the line may carry *)
          Preferences  (* what the user may prefer: a value for each of some settings *)

VARIABLES line,        (* every byte the receiver sends, in order *)
          preferred,   (* the preferences of the user *)
          out          (* the messages handed out: first, last and bytes *)

vars == <<line, preferred, out>>

Init == line \in Streams /\ preferred \in Preferences /\ out = <<>>

(* b is m but for settings with a preference, and has a checksum to match. *)
Presents(m, b) ==
  /\ Valid(b)
  /\ Len(b) = Len(m)
  /\ \A i \in 1..(Len(m) - 2) :
       \/ b[i] = m[i]
       \/ \E s \in DOMAIN preferred :
            ReportOf[s] = MsgType(m) /\ PlaceOf[s] = i /\ b[i] = preferred[s]

After(first) == out = <<>> \/ out[Len(out)].last < first

Deliver(first) ==
  /\ FrameAt(line, first)
  /\ After(first)
  /\ \E m \in ToSet(out') :
       /\ m.first = first /\ m.last = EndOf(line, first)
       /\ Presents(Segment(line, first), m.bytes)
       /\ out' = Append(out, m)
  /\ UNCHANGED <<line, preferred>>

Next == \E first \in 1..Len(line) : Deliver(first)

Spec == Init /\ [][Next]_vars
============================================================================
