------------------------------- MODULE Framing -------------------------------
(***************************************************************************)
(* Frames in the byte stream of one connection: store_data, the loop of    *)
(* recive_impl, stuff_byte_to_buffer and send of                           *)
(* src/omnicomm/protocol.cpp, the header of                                *)
(* src/omnicomm/transport_messages.hpp, and handle_read of src/client.cpp, *)
(* which hands over whatever one read brought.                             *)
(*                                                                         *)
(* A frame is a prefix, a command, the length of its data, low byte first, *)
(* the data and a checksum, high byte first.  After the prefix the bytes   *)
(* 0xc0 and 0xdb are escaped.  TCP may cut the stream anywhere, between    *)
(* the two bytes of an escape too.                                         *)
(***************************************************************************)
EXTENDS Naturals, Sequences, SequencesExt

CONSTANTS Crc(_),        \* the checksum of a sequence of bytes
          Body,          \* what frames carry: the command and then the data
          Junk,          \* bytes without a prefix that may precede a frame
          MaxFrames,     \* bound: frames the device sends
          ReadSize       \* size of async_buffer_, 8192 in the source

Byte == 0..255
Word == 65536            \* values of two bytes

Prefix == 192            \* 0xc0
Escape == 219            \* 0xdb
EscapedPrefix == 220     \* 0xdc
EscapedEscape == 221     \* 0xdd

HeaderSize == 4          \* sizeof(transport_header_t)

\* The length of the data has two bytes.
ASSUME BodyAssumption == \A body \in Body : body \in Seq(Byte) \ {<<>>} /\ Len(body) <= Word

\* An escaped prefix would be one after the destuffing.
ASSUME JunkAssumption ==
    \A junk \in Junk :
        /\ junk \in Seq(Byte \ {Prefix})
        /\ \A i \in 1..Len(junk) - 1 : junk[i] = Escape => junk[i + 1] # EscapedPrefix

ASSUME BoundsAssumption == {MaxFrames, ReadSize} \subseteq Nat \ {0}

VARIABLES
    wire,      \* bytes on their way to the server
    sent,      \* history: the frames the device sent, [body, good, upto],
               \* where upto counts the bytes up to the end of the frame
    buffer_,   \* destuffed bytes not erased yet
    state_,    \* of the destuffing automaton
    end,       \* bytes of buffer_ that belong to processed frames
    pc,        \* recive_impl runs or not
    handled,   \* history: what process_message was called with
    open,      \* the socket is open
    late,      \* a read completed before the socket was closed
    cause      \* history: why the server closed it, "none" when open

vars == <<wire, sent, buffer_, state_, end, pc, handled, open, late, cause>>

Cmd(body) == body[1]
Data(body) == Tail(body)

-----------------------------------------------------------------------------
(* Sending.                                                                *)

\* Mutant: the escape byte itself is not escaped.
StuffPrefixOnly(byte) == IF byte = Prefix THEN <<Escape, EscapedPrefix>> ELSE <<byte>>

stuff_byte(byte) == CASE byte = Prefix -> <<Escape, EscapedPrefix>>
                      [] byte = Escape -> <<Escape, EscapedEscape>>
                      [] OTHER -> <<byte>>

Stuff(bytes) == FoldLeft(LAMBDA out, byte : out \o stuff_byte(byte), <<>>, bytes)

\* The header's fields and the data, which the checksum covers.
Content(body) == <<Cmd(body), Len(Data(body)) % 256, Len(Data(body)) \div 256>> \o Data(body)

ASSUME CrcAssumption == \A body \in Body : Crc(Content(body)) \in Nat /\ Crc(Content(body)) < Word

\* What the server's send() makes of a message: low byte of the checksum first.
ServerFrame(body) ==
    LET crc == Crc(Content(body))
    IN  <<Prefix>> \o Stuff(Content(body) \o <<crc % 256, crc \div 256>>)

\* What a device sends, with a checksum one off when it is damaged.
DeviceFrame(body, good) ==
    LET crc == (Crc(Content(body)) + (IF good THEN 0 ELSE 1)) % Word
    IN  <<Prefix>> \o Stuff(Content(body) \o <<crc \div 256, crc % 256>>)

-----------------------------------------------------------------------------
(* Destuffing, byte by byte: [state, out].                                 *)

\* Mutant: an escape that nothing completes is dropped.
StoreByteDropsEscape(s, byte) ==
    IF s.state = "normal"
    THEN IF byte = Escape
         THEN [s EXCEPT !.state = "possible_stuff"]
         ELSE [s EXCEPT !.out = Append(@, byte)]
    ELSE [state |-> "normal",
          out |-> Append(s.out, IF byte = EscapedPrefix THEN Prefix ELSE Escape)]

store_byte(s, byte) ==
    IF s.state = "normal"
    THEN IF byte = Escape
         THEN [s EXCEPT !.state = "possible_stuff"]
         ELSE [s EXCEPT !.out = Append(@, byte)]
    ELSE [state |-> "normal",
          out |-> s.out \o CASE byte = EscapedPrefix -> <<Prefix>>
                             [] byte = EscapedEscape -> <<Escape>>
                             [] OTHER -> <<Escape, byte>>]

\* Mutant: every read starts the automaton afresh.
store_data_afresh(state, out, data) ==
    FoldLeft(store_byte, [state |-> "normal", out |-> out], data)

store_data(state, out, data) == FoldLeft(store_byte, [state |-> state, out |-> out], data)

-----------------------------------------------------------------------------
(* The frame the loop of recive_impl looks at.                             *)

\* Position of the next prefix, 0 when there is none.
start == SelectInSubSeq(buffer_, end + 1, Len(buffer_), LAMBDA byte : byte = Prefix)

remain_len == Len(buffer_) - start + 1
data_len == buffer_[start + 2] + 256 * buffer_[start + 3]
full_length == HeaderSize + data_len + 2

FrameComplete == /\ start # 0
                 /\ remain_len >= HeaderSize
                 /\ remain_len >= full_length

get_crc == 256 * buffer_[start + HeaderSize + data_len] + buffer_[start + HeaderSize + data_len + 1]
calc_crc == Crc(SubSeq(buffer_, start + 1, start + HeaderSize + data_len - 1))
check_crc == get_crc = calc_crc

FrameBody == <<buffer_[start + 1]>>
             \o SubSeq(buffer_, start + HeaderSize, start + HeaderSize + data_len - 1)

\* The handlers that check the length of a message or store its records can
\* fail; the one of an archive packet does neither when it has no data.
MayThrow(body) == \/ Cmd(body) \in {128, 149}
                  \/ Cmd(body) = 134 /\ Data(body) # <<>>

-----------------------------------------------------------------------------
Init ==
    /\ wire = <<>> /\ sent = <<>>
    /\ buffer_ = <<>> /\ state_ = "normal"
    /\ end = 0 /\ pc = "idle"
    /\ handled = <<>>
    /\ open = TRUE /\ late = FALSE /\ cause = "none"

\* Bytes of all the frames.
Total(frames) == IF frames = <<>> THEN 0 ELSE Last(frames).upto

DeviceSends ==
    /\ Len(sent) < MaxFrames
    /\ \E junk \in Junk, body \in Body, good \in BOOLEAN :
          LET bytes == junk \o DeviceFrame(body, good)
          IN  /\ wire' = wire \o bytes
              /\ sent' = Append(sent, [body |-> body, good |-> good,
                                       upto |-> Total(sent) + Len(bytes)])
    /\ UNCHANGED <<buffer_, state_, end, pc, handled, open, late, cause>>

\* client_t::stop(): the read that is always under way may have completed.
Stop(why) ==
    /\ open' = FALSE
    /\ late' \in {FALSE, open /\ wire # <<>>}
    /\ cause' = IF open THEN why ELSE cause

\* handle_read: the bytes of one read go through store_data.
Receive ==
    /\ pc = "idle"
    /\ open \/ late
    /\ \E n \in 1..Len(wire) :
          /\ n < ReadSize
          /\ wire' = SubSeq(wire, n + 1, Len(wire))
          /\ LET stored == store_data(state_, buffer_, SubSeq(wire, 1, n))
             IN  /\ state_' = stored.state
                 /\ buffer_' = stored.out
    /\ pc' = "scan"
    /\ end' = 0
    /\ late' = FALSE
    /\ UNCHANGED <<sent, handled, open, cause>>

\* handle_read takes a read that fills async_buffer_ for an error, before it
\* starts the next one.
FullRead ==
    /\ pc = "idle"
    /\ open \/ late
    /\ Len(wire) >= ReadSize
    /\ wire' = SubSeq(wire, ReadSize + 1, Len(wire))
    /\ open' = FALSE
    /\ late' = FALSE
    /\ cause' = IF open THEN "full read" ELSE cause
    /\ UNCHANGED <<sent, buffer_, state_, end, pc, handled>>

\* Mutant: the frame is processed whatever its checksum.
ProcessUnchecked ==
    /\ pc = "scan"
    /\ FrameComplete
    /\ handled' = Append(handled, FrameBody)
    /\ end' = start + full_length - 1
    /\ UNCHANGED <<wire, sent, buffer_, state_, pc, open, late, cause>>

\* Mutant: the length of the checksum is added twice.
ProcessSkipsTooFar ==
    /\ pc = "scan"
    /\ FrameComplete
    /\ check_crc
    /\ handled' = Append(handled, FrameBody)
    /\ end' = start + full_length + 1
    /\ UNCHANGED <<wire, sent, buffer_, state_, pc, open, late, cause>>

ProcessMessage ==
    /\ pc = "scan"
    /\ FrameComplete
    /\ check_crc
    /\ handled' = Append(handled, FrameBody)
    /\ end' = start + full_length - 1
    /\ UNCHANGED <<wire, sent, buffer_, state_, pc, open, late, cause>>

\* process_message stops the client and rethrows: nothing is erased.
HandlerThrows ==
    /\ pc = "scan"
    /\ FrameComplete
    /\ check_crc
    /\ MayThrow(FrameBody)
    /\ handled' = Append(handled, FrameBody)
    /\ Stop("handler")
    /\ pc' = "idle"
    /\ end' = 0
    /\ UNCHANGED <<wire, sent, buffer_, state_>>

\* The processed frames are erased, what follows them is kept.
EraseProcessed ==
    /\ buffer_' = SubSeq(buffer_, end + 1, Len(buffer_))
    /\ end' = 0
    /\ pc' = "idle"

ChecksumError ==
    /\ pc = "scan"
    /\ FrameComplete
    /\ ~check_crc
    /\ Stop("checksum")
    /\ EraseProcessed
    /\ UNCHANGED <<wire, sent, state_, handled>>

\* No prefix, or a frame that is not complete yet.
LoopEnds ==
    /\ pc = "scan"
    /\ ~FrameComplete
    /\ EraseProcessed
    /\ UNCHANGED <<wire, sent, state_, handled, open, late, cause>>

Next == \/ DeviceSends \/ Receive \/ FullRead
        \/ ProcessMessage \/ HandlerThrows \/ ChecksumError \/ LoopEnds

Spec == Init /\ [][Next]_vars

-----------------------------------------------------------------------------
TypeOK ==
    /\ wire \in Seq(Byte) /\ buffer_ \in Seq(Byte)
    /\ sent \in Seq([body : Body, good : BOOLEAN, upto : Nat])
    /\ handled \in Seq(Seq(Byte))
    /\ state_ \in {"normal", "possible_stuff"}
    /\ end \in 0..Len(buffer_)
    /\ pc \in {"idle", "scan"}
    /\ open \in BOOLEAN /\ late \in BOOLEAN
    /\ cause \in {"none", "handler", "checksum", "full read"}

\* Frames that have arrived whole.
Arrived == {i \in 1..Len(sent) : sent[i].upto + Len(wire) <= Total(sent)}

\* Whatever the reads cut the stream into, process_message sees the frames of
\* the device, each one whole, in order and once, up to the first damaged
\* one.  Only after an exception left the buffer unerased may a read that had
\* already completed bring the frames of that buffer back
\* (recive_impl, protocol.cpp 189-258).
FramesInOrder ==
    IF cause = "handler"
    THEN \A i \in 1..Len(handled) :
             \E j \in 1..Len(sent) : sent[j].good /\ sent[j].body = handled[i]
    ELSE /\ Len(handled) <= Len(sent)
         /\ \A i \in 1..Len(handled) : sent[i].good /\ sent[i].body = handled[i]

\* A frame is processed by the read that completes it, wherever the stream
\* was cut before: between reads of an open connection no whole frame waits
\* in buffer_, and the checksum closes a connection for a frame damaged on
\* its way only (recive_impl and store_data, protocol.cpp 189-258 and
\* 525-557).
PromptDelivery ==
    /\ pc = "idle" /\ open => Arrived = 1..Len(handled) /\ \A i \in Arrived : sent[i].good
    /\ cause = "checksum" => \E i \in Arrived : ~sent[i].good

\* What the server sends can be found again in a stream: the prefix occurs at
\* its head only, and destuffing gives back the message and its checksum
\* (send and stuff_byte_to_buffer, protocol.cpp 482-519).
AnswersDecode ==
    \A body \in Range(handled) :
        LET frame == ServerFrame(body)
            crc == Crc(Content(body))
        IN  /\ \A i \in 2..Len(frame) : frame[i] # Prefix
            /\ store_data("normal", <<>>, frame) =
                   [state |-> "normal",
                    out |-> <<Prefix>> \o Content(body) \o <<crc % 256, crc \div 256>>]

\* The server closes a connection for a damaged frame or a failed handler
\* only: one on which every frame is good, and none can make its handler fail,
\* stays open, for data of any length fit into async_buffer_ or into several
\* reads.  The code does not keep this: handle_read (client.cpp 136-139)
\* refuses a read of exactly the buffer's size.
ClosedForCause ==
    (\A i \in DOMAIN sent : sent[i].good /\ ~MayThrow(sent[i].body)) => open
=============================================================================
