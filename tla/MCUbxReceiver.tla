--------------------------- MODULE MCUbxReceiver ---------------------------
(* The lines of UbxReceiver: one, two or three pieces of what a receiver sends,  *)
(* intact, damaged, cut short or mixed with noise.                         *)
EXTENDS UbxReceiver

AckAck == Frame(5, 1, <<6, 36>>)
Poll == Frame(6, 36, <<>>)
\* A payload that looks like the header of a message with two more bytes.
Nested == Frame(1, 4, <<PREAMBLE1, PREAMBLE2, 5, 1, 2, 0>>)
\* A type that msg_types does not describe (CLASS_ESF, MSG_ESF_STATUS).
Unknown == Frame(16, 16, <<0>>)
\* One flipped bit: in the payload, and in the length, which then reaches
\* into the next message or ends within this one.
BadPayload == [AckAck EXCEPT ![7] = 7]
TooLong == [AckAck EXCEPT ![5] = 12]
TooShort == [AckAck EXCEPT ![5] = 0]
\* Bytes lost, half a preamble, and what an SPI receiver sends when idle.
Lost == SubSeq(AckAck, 1, 7)
Half == <<PREAMBLE1, 7, PREAMBLE1>>
Idle == <<255, 255>>
\* Reports of the settings, the last one too short.
Nav5 == Frame(6, 36, [i \in 1..36 |-> IF i = 3 THEN 8 ELSE 0])
Navx5 == Frame(6, 35, [i \in 1..40 |-> 0])
Navx5Short == Frame(6, 35, <<0, 0>>)

Damaged == {BadPayload, TooLong, TooShort, Lost, Half}
Reports == {Nav5, Navx5, Navx5Short}
Pieces == {AckAck, Poll, Nested, Unknown, Idle} \cup Damaged
MCStreams ==
  Pieces
    \cup {p \o q : p \in Pieces, q \in Pieces}
    \cup {d \o AckAck \o AckAck : d \in Damaged}
    \cup Reports
MCKnownTypes == {<<5, 1>>, CFG_NAV5, CFG_NAVX5, <<1, 4>>}
MCPreferences == {<<>>, [dynModel |-> 4, dgpsTimeOut |-> 60, usePPP |-> 300]}
============================================================================
