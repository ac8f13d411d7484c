------------------------------ MODULE MCFraming ------------------------------
(***************************************************************************)
(* Bytes for Framing: frames without data, with bytes that need escaping   *)
(* in their data, and with such a byte in the checksum (0xc0 and 0xdb as   *)
(* its high byte, 0xc0 as its low byte); before them nothing, or a byte    *)
(* that starts an escape.                                                  *)
(*                                                                         *)
(* The checksum is that of module Crc16, checked here against its bit by   *)
(* bit definition (polynomial x^16 + x^12 + x^5 + 1, initial value 0xffff) *)
(* on the frames and on all that differs from one of them in one byte.     *)
(***************************************************************************)
EXTENDS Framing, Crc16

MCBody == {<<134>>, <<136, 192, 219, 220>>, <<134, 76>>, <<136, 3>>, <<136, 161>>}
MCJunk == {<<>>, <<219>>}
MCFullBody == {<<136, 1>>}
MCNoJunk == {<<>>}

\* One bit of the shift register.
ShiftBit(crc) == IF crc >= 32768 THEN ((2 * crc) % crc_mod) ^^ 4129 ELSE 2 * crc

ReferenceStep(crc, byte) ==
    LET shifted[n \in 0..8] == IF n = 0 THEN crc ^^ (byte * 256) ELSE ShiftBit(shifted[n - 1])
    IN  shifted[8]

Reference(data) == FoldLeft(LAMBDA crc, byte : ReferenceStep(crc, byte), 65535, data)

\* What the checksum of the frame under way covers, and the same with one
\* byte changed.
UnderWay == IF Len(sent) = 1 /\ buffer_ = <<>> /\ handled = <<>> /\ open
            THEN {Content(sent[1].body)} ELSE {}
Changed(content) == {[content EXCEPT ![j] = b] : j \in DOMAIN content, b \in Byte}

\* The table and the loop compute the CRC they are meant to: a wrong literal
\* in the table would reject the frames of some devices only
\* (crc_table and crc16, lines 22-67 of utils.cpp).
MatchesReference ==
    \A content \in UnderWay : \A data \in Changed(content) : crc16(data) = Reference(data)

\* A frame damaged in any one byte on its way has another checksum, so
\* recive_impl never takes it for what the device sent (check_crc,
\* transport_messages.hpp 60-71).
DamageIsNoticed ==
    \A content \in UnderWay :
        \A data \in Changed(content) \ {content} : crc16(data) # crc16(content)
=============================================================================
