---------------------------- MODULE SessionProofs ----------------------------
(***************************************************************************)
(* Theorems of OmnicommSession, for every number of devices, records,      *)
(* connections and faults: no device deletes a record the server has not   *)
(* taken, and no counter runs ahead of the records taken.                  *)
(*                                                                         *)
(* The argument follows the frames.  What a connection has received and    *)
(* not erased, together with what is under way to it, is its pipe.  The    *)
(* records before a frame in the pipe are taken already or come earlier in *)
(* the pipe; so when the handler reaches the frame and its own records are *)
(* taken, everything up to its last record is, and the counter may be set  *)
(* to it.  Answers carry a counter, so a device that obeys a delete gives  *)
(* up only what was taken; and an upload starts where the counter ended,   *)
(* which keeps the pipe without gaps.  A connection that a crash or a      *)
(* refusal has closed for good may have gaps, but nobody reads it.         *)
(***************************************************************************)
EXTENDS OmnicommSession, SequenceTheorems, TLAPS

-----------------------------------------------------------------------------
(* The inductive invariant.                                                *)

\* TypeOK, but for the identity of the stored records; the handler that saves
\* the counters has a data frame and has handed over its records; and a device
\* with a connection has made one.
TypeInv ==
    /\ open \in [Link -> BOOLEAN] /\ late \in [Link -> BOOLEAN]
    /\ buffer_ \in [Link -> Seq(UpFrame)]
    /\ controller_id_ \in [Link -> Controller \cup {NoController}]
    /\ protocol_state_ \in [Link -> ProtocolState]
    /\ io \in [pc : {"idle", "frame", "saving"}, link : Link, pos : Nat, added : 0..MaxPacket]
    /\ io.pos <= Len(buffer_[io.link])
    /\ io.pc = "saving" => /\ io.pos < Len(buffer_[io.link])
                           /\ Frame.last # 0 /\ io.added = FrameLength
    /\ counterer_ \in [Controller \cup {NoController} -> 0..MaxRecord]
    /\ file \in [Controller \cup {NoController} -> 0..MaxRecord]
    /\ stored \in SUBSET [id : Controller \cup {NoController}, number : Record,
                          label : 0..MaxRecord]
    /\ again \subseteq stored
    /\ up \in [Link -> Seq(UpFrame)] /\ down \in [Link -> Seq(DownFrame)]
    /\ produced \in [Controller -> 0..MaxRecord] /\ deleted \in [Controller -> 0..MaxRecord]
    /\ sending \in [Controller -> 0..MaxRecord + 1]
    /\ drained \in [Controller -> BOOLEAN] /\ linked \in [Controller -> BOOLEAN]
    /\ used \in [Controller -> 0..MaxConn]
    /\ \A c \in Controller : linked[c] => used[c] # 0
    /\ faults \in 0..MaxFault

\* The frames of a connection that are still to be erased, oldest first.
Pipe(l) == buffer_[l] \o up[l]

\* The records of a frame: none, unless it carries data.
Numbers(f) == (f.first .. f.last) \ {0}

\* The records that are taken from the device of a connection, or are in its pipe.
Known(l) == {n \in Record : \/ n \in Stored(l[1])
                            \/ \E j \in 1..Len(Pipe(l)) : n \in Numbers(Pipe(l)[j])}

\* Its frames may still be handled.
Active(l) == open[l] \/ late[l] \/ (io.pc # "idle" /\ io.link = l)

\* What comes before a frame is taken or comes earlier in the pipe.
NoGap(l) ==
    \A i \in 1..Len(Pipe(l)) : \A n \in 1..(Pipe(l)[i].first - 1) :
        \/ n \in Stored(l[1])
        \/ \E j \in 1..(i - 1) : n \in Numbers(Pipe(l)[j])

\* The device has introduced itself and has had no answer.
Introduced(l) ==
    /\ \A i \in 1..Len(Pipe(l)) : Pipe(l)[i].cmd = "ident"
    /\ down[l] = <<>>
    /\ OnLine(l) => sending[l[1]] = 0 /\ ~drained[l[1]]

LinkInv(l) ==
    Active(l) =>
        /\ NoGap(l)
        /\ controller_id_[l] = l[1] \/ Introduced(l)
        /\ OnLine(l) => /\ \A n \in 1..(sending[l[1]] - 1) : n \in Known(l)
                        /\ drained[l[1]] => \A n \in 1..produced[l[1]] : n \in Known(l)

\* A connection not made yet is empty.
FreshInv(l) ==
    l[2] > used[l[1]] => ~Active(l) /\ buffer_[l] = <<>> /\ down[l] = <<>>

\* What the server tells a device to delete, or not to send, it has taken.
AnswerInv(l) ==
    \A i \in 1..Len(down[l]) :
        LET f == down[l][i]
        IN  /\ f.cmd = "delete" => 1..f.last \subseteq Stored(l[1])
            /\ f.cmd = "request" => 1..(f.last - 1) \subseteq Stored(l[1])

DeviceInv(c) ==
    /\ ~linked[c] => sending[c] = 0 /\ ~drained[c]
    /\ 1..deleted[c] \subseteq Stored(c)
    /\ 1..counterer_[c] \subseteq Stored(c)
    /\ 1..file[c] \subseteq Stored(c)

\* The handler has taken the records of the frames behind it, and the first
\* ones of the frame it is at.
HandlerInv ==
    io.pc # "idle" =>
        /\ \A j \in 1..io.pos : Numbers(buffer_[io.link][j]) \subseteq Stored(io.link[1])
        /\ io.pos < Len(buffer_[io.link]) =>
               \A n \in Frame.first..(Frame.first + io.added - 1) : n \in Stored(io.link[1])

\* What is in a pipe has been made.
MadeInv(l) == \A i \in 1..Len(Pipe(l)) : Pipe(l)[i].last <= produced[l[1]]

\* Nothing is stored for nobody.
StoredInv == \A r \in stored : r.id \in Controller

Inv == /\ TypeInv
       /\ \A l \in Link : LinkInv(l) /\ FreshInv(l) /\ AnswerInv(l) /\ MadeInv(l)
       /\ \A c \in Controller : DeviceInv(c)
       /\ HandlerInv
       /\ StoredInv

-----------------------------------------------------------------------------
(* Frames and connections.                                                 *)

USE ControllerAssumption, BoundsAssumption

\* The connections are pairs, and there is one.
LEMMA LinkFacts ==
    /\ Link # {}
    /\ Idle.link \in Link /\ Idle.pc = "idle" /\ Idle.pos = 0 /\ Idle.added = 0
    /\ Idle \in [pc : {"idle", "frame", "saving"}, link : Link, pos : Nat, added : 0..MaxPacket]
    /\ \A l \in Link : l[1] \in Controller /\ l[2] \in 1..MaxConn /\ l = <<l[1], l[2]>>
    /\ \A c \in Controller, k \in 1..MaxConn : <<c, k>> \in Link
<1>1. \A l \in Link : l[1] \in Controller /\ l[2] \in 1..MaxConn /\ l = <<l[1], l[2]>>
  BY DEF Link
<1>2. \A c \in Controller, k \in 1..MaxConn : <<c, k>> \in Link
  BY DEF Link
<1>3. Link # {}
  <2>1. 1 \in 1..MaxConn
    OBVIOUS
  <2> QED
    BY <1>2, <2>1
<1>4. (CHOOSE l \in Link : TRUE) \in Link
  BY <1>3
<1> QED
  BY <1>1, <1>2, <1>3, <1>4 DEF Idle

\* What a frame from a device may be.
LEMMA UpFrameFacts ==
    /\ Ident \in UpFrame /\ Confirm \in UpFrame /\ ArchiveEnd \in UpFrame
    /\ Ident.cmd = "ident"
    /\ \A f \in {Ident, Confirm, ArchiveEnd} : f.first = 0 /\ f.last = 0
    /\ \A m, n \in Record : m <= n /\ n < m + MaxPacket =>
           Archive(m, n) \in UpFrame /\ Archive(m, n).first = m /\ Archive(m, n).last = n
    /\ \A n \in Record : Current(n) \in UpFrame /\ Current(n).first = n /\ Current(n).last = n
<1>1. \A m, n \in Record : m <= n /\ n < m + MaxPacket => Archive(m, n) \in UpFrame
  <2> SUFFICES ASSUME NEW m \in Record, NEW n \in Record, m <= n, n < m + MaxPacket
               PROVE  Archive(m, n) \in UpFrame
    OBVIOUS
  <2>1. <<m, n>> \in Packet
    BY DEF Packet
  <2>2. Archive(<<m, n>>[1], <<m, n>>[2]) = Archive(m, n)
    OBVIOUS
  <2> QED
    BY <2>1, <2>2 DEF UpFrame
<1>2. Ident \in UpFrame /\ Confirm \in UpFrame /\ ArchiveEnd \in UpFrame
  BY DEF UpFrame
<1>3. \A n \in Record : Current(n) \in UpFrame
  BY DEF UpFrame
<1>4. /\ Ident.cmd = "ident"
      /\ \A f \in {Ident, Confirm, ArchiveEnd} : f.first = 0 /\ f.last = 0
  BY DEF Ident, Confirm, ArchiveEnd, Archive
<1>5. \A m, n \in Record : Archive(m, n).first = m /\ Archive(m, n).last = n
  BY DEF Archive
<1>6. \A n \in Record : Current(n).first = n /\ Current(n).last = n
  BY DEF Current
<1> QED
  BY <1>1, <1>2, <1>3, <1>4, <1>5, <1>6

LEMMA UpFrameType ==
    ASSUME NEW f \in UpFrame
    PROVE  /\ f.first \in 0..MaxRecord /\ f.last \in 0..MaxRecord
           /\ f.cmd \in {"ident", "confirm"} => f.last = 0
           /\ f.last = 0 => f.first = 0
           /\ f.last # 0 => /\ f.first \in Record /\ f.last \in Record
                            /\ f.first <= f.last /\ f.last < f.first + MaxPacket
<1>1. CASE f \in {Ident, Confirm, ArchiveEnd}
  BY <1>1 DEF Ident, Confirm, ArchiveEnd, Archive
<1>2. ASSUME NEW p \in Packet, f = Archive(p[1], p[2])
      PROVE  /\ f.cmd = "archive"
             /\ f.first \in Record /\ f.last \in Record
             /\ f.first <= f.last /\ f.last < f.first + MaxPacket
  BY <1>2 DEF Archive, Packet
<1>3. ASSUME NEW n \in Record, f = Current(n)
      PROVE  /\ f.cmd = "current"
             /\ f.first \in Record /\ f.last \in Record
             /\ f.first <= f.last /\ f.last < f.first + MaxPacket
  BY <1>3 DEF Current, Record
<1> QED
  BY <1>1, <1>2, <1>3 DEF UpFrame, Record

LEMMA DownFrameFacts ==
    /\ Garbage \in DownFrame /\ Garbage.cmd = "garbage"
    /\ \A n \in 0..MaxRecord + 1 :
           Request(n) \in DownFrame /\ Request(n).cmd = "request" /\ Request(n).last = n
    /\ \A n \in Record :
           Delete(n) \in DownFrame /\ Delete(n).cmd = "delete" /\ Delete(n).last = n
BY DEF DownFrame, Garbage, Request, Delete

LEMMA DownFrameType ==
    ASSUME NEW f \in DownFrame
    PROVE  /\ f.cmd = "request" => f.last \in 0..MaxRecord + 1
           /\ f.cmd = "delete" => f.last \in Record
BY DEF DownFrame, Garbage, Request, Delete

-----------------------------------------------------------------------------
(* Type correctness.                                                       *)

\* The frame the handler is at.
LEMMA FrameType ==
    ASSUME TypeInv, io.pos < Len(buffer_[io.link])
    PROVE  /\ Frame \in UpFrame /\ io.link \in Link /\ io.pos \in Nat
           /\ io.pos + 1 \in 1..Len(buffer_[io.link])
<1>1. buffer_[io.link] \in Seq(UpFrame) /\ io.pos \in Nat /\ io.link \in Link
  BY DEF TypeInv
<1>2. io.pos + 1 \in 1..Len(buffer_[io.link])
  BY <1>1
<1> QED
  BY <1>1, <1>2, ElementOfSeq DEF Frame

\* The connection a device holds.
LEMMA CurrentLinkType ==
    ASSUME TypeInv, NEW c \in Controller, linked[c]
    PROVE  /\ CurrentLink(c) \in Link /\ CurrentLink(c)[1] = c /\ OnLine(CurrentLink(c))
           /\ \A l \in Link : OnLine(l) /\ l[1] = c => l = CurrentLink(c)
<1>1. used[c] \in 0..MaxConn /\ used[c] # 0
  BY DEF TypeInv
<1> QED
  BY <1>1, LinkFacts DEF CurrentLink, OnLine

\* An answer is appended to the frames under way to one device, or a garbled
\* one is, or nothing is.
LEMMA SendStep ==
    ASSUME TypeInv, NEW l \in Link, NEW f \in DownFrame, Send(l, f)
    PROVE  /\ down' \in [Link -> Seq(DownFrame)] /\ faults' \in 0..MaxFault
           /\ \A k \in Link : k # l => down'[k] = down[k]
           /\ down'[l] \in {down[l], Append(down[l], f), Append(down[l], Garbage)}
<1>1. down \in [Link -> Seq(DownFrame)] /\ faults \in 0..MaxFault
  BY DEF TypeInv
<1>2. Append(down[l], f) \in Seq(DownFrame) /\ Append(down[l], Garbage) \in Seq(DownFrame)
  BY <1>1, DownFrameFacts, AppendProperties
<1>3. /\ faults' \in {faults, faults + 1} /\ faults' <= MaxFault
      /\ \/ down' = down
         \/ down' = [down EXCEPT ![l] = Append(@, f)]
         \/ down' = [down EXCEPT ![l] = Append(@, Garbage)]
  BY <1>1 DEF Send, Deliver, FaultHappens
<1>4. faults' \in 0..MaxFault
  BY <1>1, <1>3
<1> QED
  BY <1>1, <1>2, <1>3, <1>4

\* What get_last_counter returns makes a delete, unless it is 0, or a request.
LEMMA CounterFrames ==
    ASSUME TypeInv, NEW id \in Controller \cup {NoController}
    PROVE  /\ get_last_counter(id) \in 0..MaxRecord
           /\ get_last_counter(id) # 0 => Delete(get_last_counter(id)) \in DownFrame
           /\ Request(IF get_last_counter(id) = 0 THEN 0 ELSE get_last_counter(id) + 1) \in DownFrame
<1>1. get_last_counter(id) \in 0..MaxRecord
  BY DEF TypeInv, get_last_counter
<1>2. get_last_counter(id) # 0 => get_last_counter(id) \in Record
  BY <1>1 DEF Record
<1>3. (IF get_last_counter(id) = 0 THEN 0 ELSE get_last_counter(id) + 1) \in 0..MaxRecord + 1
  BY <1>1
<1> QED
  BY <1>1, <1>2, <1>3, DownFrameFacts

LEMMA SendDeleteStep ==
    ASSUME TypeInv, NEW l \in Link, NEW id \in Controller \cup {NoController},
           SendDelete(l, get_last_counter(id))
    PROVE  /\ down' \in [Link -> Seq(DownFrame)] /\ faults' \in 0..MaxFault
           /\ \A k \in Link : k # l => down'[k] = down[k]
           /\ \/ down'[l] \in {down[l], Append(down[l], Garbage)}
              \/ /\ get_last_counter(id) # 0
                 /\ down'[l] = Append(down[l], Delete(get_last_counter(id)))
<1>1. CASE get_last_counter(id) # 0
  BY <1>1, CounterFrames, SendStep DEF SendDelete
<1>2. CASE get_last_counter(id) = 0
  BY <1>2 DEF SendDelete, TypeInv
<1> QED
  BY <1>1, <1>2

LEMMA DeliverDeleteStep ==
    ASSUME TypeInv, NEW l \in Link, NEW id \in Controller \cup {NoController},
           DeliverDelete(l, get_last_counter(id))
    PROVE  /\ down' \in [Link -> Seq(DownFrame)]
           /\ \A k \in Link : k # l => down'[k] = down[k]
           /\ \/ down'[l] = down[l]
              \/ /\ get_last_counter(id) # 0
                 /\ down'[l] = Append(down[l], Delete(get_last_counter(id)))
<1>1. down \in [Link -> Seq(DownFrame)]
  BY DEF TypeInv
<1>2. CASE get_last_counter(id) # 0
  <2>1. Append(down[l], Delete(get_last_counter(id))) \in Seq(DownFrame)
    BY <1>1, <1>2, CounterFrames, AppendProperties
  <2> QED
    BY <1>1, <1>2, <2>1 DEF DeliverDelete, Deliver
<1>3. CASE get_last_counter(id) = 0
  BY <1>1, <1>3 DEF DeliverDelete
<1> QED
  BY <1>2, <1>3

LEMMA SendRequestStep ==
    ASSUME TypeInv, NEW l \in Link, NEW id \in Controller \cup {NoController},
           SendRequest(l, get_last_counter(id))
    PROVE  /\ down' \in [Link -> Seq(DownFrame)] /\ faults' \in 0..MaxFault
           /\ \A k \in Link : k # l => down'[k] = down[k]
           /\ \/ down'[l] \in {down[l], Append(down[l], Garbage)}
              \/ down'[l] = Append(down[l], Request(IF get_last_counter(id) = 0 THEN 0
                                                    ELSE get_last_counter(id) + 1))
BY CounterFrames, SendStep DEF SendRequest

LEMMA InitTypeInv == Init => TypeInv
<1> SUFFICES ASSUME Init PROVE TypeInv
  OBVIOUS
<1>1. /\ buffer_ \in [Link -> Seq(UpFrame)] /\ up \in [Link -> Seq(UpFrame)]
      /\ down \in [Link -> Seq(DownFrame)]
  BY EmptySeq DEF Init
<1>2. Len(buffer_[io.link]) = 0 /\ io.pos = 0 /\ io.pc = "idle"
  BY LinkFacts, EmptySeq DEF Init
<1>3. /\ counterer_ \in [Controller \cup {NoController} -> 0..MaxRecord]
      /\ file \in [Controller \cup {NoController} -> 0..MaxRecord]
  BY DEF Init, Zero
<1>4. /\ produced \in [Controller -> 0..MaxRecord] /\ deleted \in [Controller -> 0..MaxRecord]
      /\ sending \in [Controller -> 0..MaxRecord + 1]
      /\ drained \in [Controller -> BOOLEAN] /\ linked \in [Controller -> BOOLEAN]
      /\ used \in [Controller -> 0..MaxConn] /\ faults \in 0..MaxFault
  BY DEF Init
<1>5. /\ open \in [Link -> BOOLEAN] /\ late \in [Link -> BOOLEAN]
      /\ controller_id_ \in [Link -> Controller \cup {NoController}]
      /\ protocol_state_ \in [Link -> ProtocolState]
      /\ io \in [pc : {"idle", "frame", "saving"}, link : Link, pos : Nat, added : 0..MaxPacket]
  BY LinkFacts DEF Init, ProtocolState
<1> QED
  BY <1>1, <1>2, <1>3, <1>4, <1>5 DEF Init, TypeInv

LEMMA NextTypeInv == TypeInv /\ [Next]_vars => TypeInv'
<1> SUFFICES ASSUME TypeInv, [Next]_vars PROVE TypeInv'
  OBVIOUS
<1> USE DEF protocol, counters, backend, device
<1>e. <<>> \in Seq(UpFrame) /\ <<>> \in Seq(DownFrame) /\ Len(<<>>) = 0
  BY EmptySeq
<1>i. /\ io.link \in Link /\ io.pos \in Nat /\ io.added \in 0..MaxPacket
      /\ Len(buffer_[io.link]) \in Nat
      /\ controller_id_[io.link] \in Controller \cup {NoController}
  BY DEF TypeInv
<1>u. up \in [Link -> Seq(UpFrame)] /\ down \in [Link -> Seq(DownFrame)]
  BY DEF TypeInv
<1>d. /\ produced \in [Controller -> 0..MaxRecord] /\ deleted \in [Controller -> 0..MaxRecord]
      /\ sending \in [Controller -> 0..MaxRecord + 1]
      /\ drained \in [Controller -> BOOLEAN] /\ linked \in [Controller -> BOOLEAN]
      /\ used \in [Controller -> 0..MaxConn]
  BY DEF TypeInv
<1>a. ASSUME NEW k \in Link, NEW f \in UpFrame
      PROVE  [up EXCEPT ![k] = Append(@, f)] \in [Link -> Seq(UpFrame)]
  <2>1. Append(up[k], f) \in Seq(UpFrame)
    BY <1>u, AppendProperties
  <2> QED
    BY <1>u, <2>1
<1>f. FaultHappens => faults' \in 0..MaxFault
  BY DEF FaultHappens, TypeInv
<1>n. ASSUME io.pos < Len(buffer_[io.link]), NextFrame, UNCHANGED buffer_
      PROVE  /\ io' \in [pc : {"idle", "frame", "saving"}, link : Link, pos : Nat,
                         added : 0..MaxPacket]
             /\ io'.pos <= Len(buffer_'[io'.link]) /\ io'.pc = "frame"
  <2>1. io \in [pc : {"idle", "frame", "saving"}, link : Link, pos : Nat, added : 0..MaxPacket]
    BY DEF TypeInv
  <2>2. io' = [io EXCEPT !.pc = "frame", !.pos = @ + 1, !.added = 0]
    BY <1>n DEF NextFrame
  <2>3. io'.pos = io.pos + 1 /\ io'.link = io.link /\ io'.pc = "frame" /\ io'.added = 0
    BY <2>1, <2>2
  <2>4. io' \in [pc : {"idle", "frame", "saving"}, link : Link, pos : Nat, added : 0..MaxPacket]
    <3>1. io.pos + 1 \in Nat /\ 0 \in 0..MaxPacket
      BY <1>i
    <3> QED
      BY <2>1, <2>2, <3>1
  <2> QED
    BY <1>i, <1>n, <2>3, <2>4
<1>s. ASSUME NEW l \in Link, Stop(l)
      PROVE  open' \in [Link -> BOOLEAN] /\ late' \in [Link -> BOOLEAN]
  BY <1>s DEF Stop, TypeInv
<1>1. ASSUME NEW l \in Link, Receive(l) PROVE TypeInv'
  <2>1. PICK k \in 1..Len(up[l]) :
          /\ buffer_' = [buffer_ EXCEPT ![l] = @ \o SubSeq(up[l], 1, k)]
          /\ up' = [up EXCEPT ![l] = SubSeq(@, k + 1, Len(@))]
    BY <1>1 DEF Receive
  <2>2. up[l] \in Seq(UpFrame) /\ buffer_[l] \in Seq(UpFrame)
    BY DEF TypeInv
  <2>3. SubSeq(up[l], 1, k) \in Seq(UpFrame) /\ SubSeq(up[l], k + 1, Len(up[l])) \in Seq(UpFrame)
    BY <2>2
  <2>4. buffer_[l] \o SubSeq(up[l], 1, k) \in Seq(UpFrame)
    BY <2>2, <2>3, ConcatProperties
  <2>5. buffer_' \in [Link -> Seq(UpFrame)] /\ up' \in [Link -> Seq(UpFrame)]
    BY <2>1, <2>3, <2>4 DEF TypeInv
  <2>6. /\ io' \in [pc : {"idle", "frame", "saving"}, link : Link, pos : Nat, added : 0..MaxPacket]
        /\ io'.pos = 0 /\ io'.link = l /\ io'.pc = "frame"
    BY <1>1 DEF Receive
  <2>7. io'.pos <= Len(buffer_'[io'.link])
    BY <2>5, <2>6, LenProperties
  <2>8. late' \in [Link -> BOOLEAN]
    BY <1>1 DEF Receive, TypeInv
  <2> QED
    BY <1>1, <2>5, <2>6, <2>7, <2>8 DEF Receive, TypeInv
<1>2. ASSUME NEW l \in Link, PeerClosed(l) PROVE TypeInv'
  BY <1>2, <1>s DEF PeerClosed, TypeInv, Frame, FrameLength
<1>3. CASE ReceiveDone
  <2>1. buffer_' \in [Link -> Seq(UpFrame)]
    BY <1>3, <1>e, <1>i DEF ReceiveDone, TypeInv
  <2>2. io' = Idle
    BY <1>3 DEF ReceiveDone
  <2>3. io'.pos <= Len(buffer_'[io'.link])
    BY <2>1, <2>2, LinkFacts, LenProperties
  <2> QED
    BY <1>3, <2>1, <2>2, <2>3, LinkFacts DEF ReceiveDone, TypeInv
<1>4. CASE ProcessControllerIdent
  <2>1. io.pos < Len(buffer_[io.link]) /\ NextFrame /\ UNCHANGED buffer_
    BY <1>4 DEF ProcessControllerIdent, Busy
  <2>2. io.link[1] \in Controller
    BY <1>i, LinkFacts
  <2>3. down' \in [Link -> Seq(DownFrame)] /\ faults' \in 0..MaxFault
    BY <1>4, <1>i, <2>2, SendDeleteStep, SendRequestStep DEF ProcessControllerIdent
  <2>4. /\ controller_id_' \in [Link -> Controller \cup {NoController}]
        /\ protocol_state_' \in [Link -> ProtocolState]
    BY <1>4, <1>i, <2>2 DEF ProcessControllerIdent, TypeInv, ProtocolState
  <2> QED
    BY <1>4, <1>n, <2>1, <2>3, <2>4 DEF ProcessControllerIdent, TypeInv
<1>5. CASE ProcessDeleteConfirmation
  <2>1. io.pos < Len(buffer_[io.link]) /\ NextFrame /\ UNCHANGED buffer_
    BY <1>5 DEF ProcessDeleteConfirmation, Busy
  <2>2. down' \in [Link -> Seq(DownFrame)] /\ faults' \in 0..MaxFault
    BY <1>5, <1>i, SendRequestStep DEF ProcessDeleteConfirmation, TypeInv
  <2>3. protocol_state_' \in [Link -> ProtocolState]
    <3>1. protocol_state_ \in [Link -> ProtocolState]
      BY DEF TypeInv
    <3> QED
      BY <1>5, <1>i, <3>1 DEF ProcessDeleteConfirmation, ProtocolState
  <2> QED
    BY <1>5, <1>n, <2>1, <2>2, <2>3 DEF ProcessDeleteConfirmation, TypeInv
<1>6. CASE ProcessArchiveEnd
  <2>1. io.pos < Len(buffer_[io.link]) /\ NextFrame /\ UNCHANGED buffer_
    BY <1>6 DEF ProcessArchiveEnd, Busy
  <2>2. down' \in [Link -> Seq(DownFrame)] /\ faults' \in 0..MaxFault
    BY <1>6, <1>i, SendDeleteStep DEF ProcessArchiveEnd
  <2>3. protocol_state_' \in [Link -> ProtocolState]
    BY <1>6, <1>i DEF ProcessArchiveEnd, TypeInv, ProtocolState
  <2> QED
    BY <1>6, <1>n, <2>1, <2>2, <2>3 DEF ProcessArchiveEnd, TypeInv
<1>7. CASE SetLastCounter
  <2>1. io.pos < Len(buffer_[io.link]) /\ Frame.last # 0 /\ io.added = FrameLength
    BY <1>7 DEF SetLastCounter, DataFrame, Busy
  <2>2. Frame.last \in 0..MaxRecord
    BY <2>1, FrameType, UpFrameType
  <2>3. counterer_' \in [Controller \cup {NoController} -> 0..MaxRecord]
    BY <1>7, <1>i, <2>2 DEF SetLastCounter, TypeInv
  <2>4. /\ io' \in [pc : {"idle", "frame", "saving"}, link : Link, pos : Nat, added : 0..MaxPacket]
        /\ io'.pos = io.pos /\ io'.link = io.link /\ io'.added = io.added /\ buffer_' = buffer_
    BY <1>7 DEF SetLastCounter, TypeInv
  <2>5. Frame' = Frame /\ FrameLength' = FrameLength
    BY <2>4 DEF Frame, FrameLength
  <2> QED
    BY <1>7, <2>1, <2>3, <2>4, <2>5 DEF SetLastCounter, TypeInv
<1>8. CASE RecordSaved
  <2>1. io.pos < Len(buffer_[io.link]) /\ NextFrame /\ UNCHANGED buffer_
    BY <1>8 DEF RecordSaved, TypeInv
  <2>2. down' \in [Link -> Seq(DownFrame)] /\ faults' \in 0..MaxFault
    BY <1>8, <1>i, SendDeleteStep DEF RecordSaved, TypeInv
  <2>3. protocol_state_' \in [Link -> ProtocolState]
    BY <1>8, <1>i DEF RecordSaved, TypeInv, ProtocolState
  <2> QED
    BY <1>8, <1>n, <2>1, <2>2, <2>3 DEF RecordSaved, save_counters, TypeInv
<1>19. CASE SaveFails
  <2>1. io.pos < Len(buffer_[io.link]) /\ NextFrame /\ UNCHANGED buffer_
    BY <1>19 DEF SaveFails, TypeInv
  <2>2. down' \in [Link -> Seq(DownFrame)] /\ faults' \in 0..MaxFault
    BY <1>19, <1>f, <1>i, DeliverDeleteStep DEF SaveFails, TypeInv
  <2>3. protocol_state_' \in [Link -> ProtocolState]
    BY <1>19, <1>i DEF SaveFails, TypeInv, ProtocolState
  <2>4. file' \in [Controller \cup {NoController} -> 0..MaxRecord]
    BY <1>19 DEF SaveFails, PartOfCounters, TypeInv
  <2> QED
    BY <1>19, <1>n, <2>1, <2>2, <2>3, <2>4 DEF SaveFails, TypeInv
<1>9. CASE StoreRecord
  <2>1. /\ io.pc = "frame" /\ io.pos < Len(buffer_[io.link]) /\ Frame.last # 0
        /\ io.added < FrameLength
    BY <1>9 DEF StoreRecord, DataFrame, Busy
  <2>2. /\ Frame.first \in Record /\ Frame.last \in Record /\ Frame.first <= Frame.last
        /\ Frame.last < Frame.first + MaxPacket
    BY <2>1, FrameType, UpFrameType
  <2>3. FrameLength = Frame.last - Frame.first + 1 /\ io.added + 1 \in 0..MaxPacket
    BY <1>i, <2>1, <2>2 DEF FrameLength, Record
  <2>4. /\ Frame.first + io.added \in Record
        /\ (Frame.last - FrameLength) + io.added \in 0..MaxRecord
    <3>1. io.added \in Nat /\ io.added < Frame.last - Frame.first + 1
      BY <1>i, <2>1, <2>3
    <3>2. Frame.first + io.added \in 1..MaxRecord
      BY <2>2, <3>1 DEF Record
    <3>3. Frame.last - FrameLength = Frame.first - 1
      BY <2>2, <2>3 DEF Record
    <3> QED
      BY <2>2, <3>1, <3>2, <3>3 DEF Record
  <2>5. [id |-> controller_id_[io.link], number |-> Frame.first + io.added,
         label |-> (Frame.last - FrameLength) + io.added]
            \in [id : Controller \cup {NoController}, number : Record, label : 0..MaxRecord]
    BY <1>i, <2>4
  <2>6. /\ stored' \in SUBSET [id : Controller \cup {NoController}, number : Record,
                               label : 0..MaxRecord]
        /\ again' \subseteq stored'
    BY <1>9, <2>5 DEF StoreRecord, TypeInv
  <2>7. /\ io' \in [pc : {"idle", "frame", "saving"}, link : Link, pos : Nat, added : 0..MaxPacket]
        /\ io'.pos = io.pos /\ io'.link = io.link /\ io'.pc = "frame"
    BY <1>9, <2>1, <2>3 DEF StoreRecord, TypeInv
  <2> QED
    BY <1>9, <2>6, <2>7 DEF StoreRecord, TypeInv
<1>10. CASE StoreRefuses
  <2>1. open' \in [Link -> BOOLEAN] /\ late' \in [Link -> BOOLEAN] /\ faults' \in 0..MaxFault
    BY <1>10, <1>f, <1>i, <1>s DEF StoreRefuses
  <2>2. io' = Idle /\ UNCHANGED buffer_
    BY <1>10 DEF StoreRefuses
  <2>3. io'.pos <= Len(buffer_'[io'.link])
    BY <2>2, LinkFacts, LenProperties DEF TypeInv
  <2> QED
    BY <1>10, <2>1, <2>2, <2>3, LinkFacts DEF StoreRefuses, TypeInv
<1>11. CASE Crash
  <2>1. /\ open' \in [Link -> BOOLEAN] /\ late' \in [Link -> BOOLEAN]
        /\ controller_id_' \in [Link -> Controller \cup {NoController}]
        /\ protocol_state_' \in [Link -> ProtocolState]
    BY <1>11 DEF Crash, ProtocolState
  <2>2. buffer_' \in [Link -> Seq(UpFrame)] /\ up' \in [Link -> Seq(UpFrame)]
    BY <1>11, <1>e DEF Crash
  <2>3. io' = Idle /\ faults' \in 0..MaxFault
    BY <1>11, <1>f DEF Crash
  <2>4. /\ file' \in [Controller \cup {NoController} -> 0..MaxRecord]
        /\ counterer_' \in [Controller \cup {NoController} -> 0..MaxRecord]
    BY <1>11 DEF Crash, PartOfCounters, load_counters, TypeInv
  <2>5. io'.pos <= Len(buffer_'[io'.link])
    BY <2>2, <2>3, LinkFacts, LenProperties
  <2> QED
    BY <1>11, <2>1, <2>2, <2>3, <2>4, <2>5, LinkFacts DEF Crash, TypeInv
<1>12. ASSUME NEW c \in Controller, Connect(c) PROVE TypeInv'
  <2>1. <<Ident>> \in Seq(UpFrame)
    BY UpFrameFacts
  <2>2. up' \in [Link -> Seq(UpFrame)] /\ open' \in [Link -> BOOLEAN]
    BY <1>12, <2>1 DEF Connect, TypeInv
  <2>3. /\ used' \in [Controller -> 0..MaxConn] /\ linked' \in [Controller -> BOOLEAN]
        /\ \A d \in Controller : linked'[d] => used'[d] # 0
    <3>1. \A d \in Controller : linked[d] => used[d] # 0
      BY DEF TypeInv
    <3> QED
      BY <1>12, <1>d, <3>1 DEF Connect
  <2> QED
    BY <1>12, <2>2, <2>3 DEF Connect, TypeInv, Frame, FrameLength
<1>13. ASSUME NEW c \in Controller, Leave(c), faults' \in 0..MaxFault PROVE TypeInv'
  <2>1. down' \in [Link -> Seq(DownFrame)]
    BY <1>13, <1>e DEF Leave, TypeInv
  <2>2. /\ \A d \in Controller : linked'[d] => linked[d]
        /\ linked' \in [Controller -> BOOLEAN] /\ drained' \in [Controller -> BOOLEAN]
        /\ sending' \in [Controller -> 0..MaxRecord + 1]
    BY <1>13, <1>d DEF Leave
  <2> QED
    BY <1>13, <2>1, <2>2 DEF Leave, TypeInv, Frame, FrameLength
<1>14. ASSUME NEW c \in Controller, Upload(c) PROVE TypeInv'
  <2>1. /\ sending[c] \in Nat \ {0} /\ produced[c] \in 0..MaxRecord
        /\ CurrentLink(c) \in Link
    BY <1>14, <1>d, CurrentLinkType DEF Upload
  <2> DEFINE Types == /\ sending' \in [Controller -> 0..MaxRecord + 1]
                      /\ drained' \in [Controller -> BOOLEAN]
                      /\ up' \in [Link -> Seq(UpFrame)]
  <2>2. Types
    <3>1. ASSUME NEW n \in sending[c]..produced[c], n < sending[c] + MaxPacket,
                 up' = [up EXCEPT ![CurrentLink(c)] = Append(@, Archive(sending[c], n))],
                 sending' = [sending EXCEPT ![c] = n + 1], UNCHANGED drained
          PROVE  Types
      <4>1. sending[c] \in Record /\ n \in Record /\ sending[c] <= n /\ n + 1 \in 0..MaxRecord + 1
        BY <2>1 DEF Record
      <4>2. Archive(sending[c], n) \in UpFrame
        BY <3>1, <4>1, UpFrameFacts
      <4> QED
        BY <1>a, <1>d, <2>1, <3>1, <4>1, <4>2
    <3>2. ASSUME up' = [up EXCEPT ![CurrentLink(c)] = Append(@, ArchiveEnd)],
                 sending' = [sending EXCEPT ![c] = 0], drained' = [drained EXCEPT ![c] = TRUE]
          PROVE  Types
      BY <1>a, <1>d, <2>1, <3>2, UpFrameFacts
    <3> QED
      BY <1>14, <3>1, <3>2 DEF Upload
  <2> QED
    BY <1>14, <2>2 DEF Upload, TypeInv, Frame, FrameLength
<1>15. ASSUME NEW c \in Controller, Obey(c) PROVE TypeInv'
  <2> DEFINE l == CurrentLink(c)
             frame == Head(down[l])
  <2>1. down' = [down EXCEPT ![l] = Tail(@)] /\ down[l] # <<>>
    BY <1>15 DEF Obey
  <2>0. l \in Link
    BY <1>15, CurrentLinkType DEF Obey
  <2>2. down' \in [Link -> Seq(DownFrame)]
    BY <1>u, <2>0, <2>1, HeadTailProperties
  <2>3. /\ sending' \in [Controller -> 0..MaxRecord + 1] /\ deleted' \in [Controller -> 0..MaxRecord]
        /\ drained' \in [Controller -> BOOLEAN] /\ up' \in [Link -> Seq(UpFrame)]
    <3>1. frame \in DownFrame
      BY <1>u, <2>0, <2>1, HeadTailProperties
    <3>2. CASE frame.cmd = "request"
      <4>1. frame.last \in 0..MaxRecord + 1
        BY <3>1, <3>2, DownFrameType
      <4>2. (IF frame.last > deleted[c] THEN frame.last ELSE deleted[c] + 1) \in 0..MaxRecord + 1
        BY <1>d, <4>1
      <4>3. /\ sending' = [sending EXCEPT ![c] =
                               IF frame.last > deleted[c] THEN frame.last ELSE deleted[c] + 1]
            /\ drained' = [drained EXCEPT ![c] = FALSE] /\ UNCHANGED <<up, deleted>>
        BY <1>15, <3>2 DEF Obey
      <4> HIDE DEF frame
      <4> QED
        BY <1>d, <1>u, <4>2, <4>3
    <3>3. CASE frame.cmd = "delete"
      <4>1. (IF frame.last > deleted[c] THEN frame.last ELSE deleted[c]) \in 0..MaxRecord
        BY <1>d, <3>1, <3>3, DownFrameType DEF Record
      <4>2. /\ deleted' = [deleted EXCEPT ![c] =
                               IF frame.last > deleted[c] THEN frame.last ELSE deleted[c]]
            /\ up' = [up EXCEPT ![l] = Append(@, Confirm)] /\ UNCHANGED <<sending, drained>>
        BY <1>15, <3>3 DEF Obey
      <4>3. up' \in [Link -> Seq(UpFrame)]
        BY <1>a, <2>0, <4>2, UpFrameFacts
      <4> HIDE DEF frame
      <4> QED
        BY <1>d, <4>1, <4>2, <4>3
    <3>4. CASE frame.cmd = "garbage"
      BY <1>15, <1>d, <1>u, <3>4 DEF Obey
    <3> QED
      BY <1>15, <3>2, <3>3, <3>4 DEF Obey
  <2> HIDE DEF l
  <2> QED
    BY <1>15, <2>2, <2>3 DEF Obey, TypeInv, Frame, FrameLength
<1>16. ASSUME NEW c \in Controller, Produce(c) PROVE TypeInv'
  <2>0. /\ produced[c] < MaxRecord /\ produced[c] \in 0..MaxRecord /\ MaxRecord \in Nat
        /\ produced' = [produced EXCEPT ![c] = produced[c] + 1]
    BY <1>16, <1>d, BoundsAssumption DEF Produce
  <2>1. produced[c] + 1 \in Record /\ produced[c] + 1 \in 0..MaxRecord
    BY <2>0 DEF Record
  <2>2. produced' \in [Controller -> 0..MaxRecord]
    BY <1>d, <2>0, <2>1
  <2>3. up' \in [Link -> Seq(UpFrame)]
    <3>1. CASE linked[c] /\ drained[c]
      <4>1. CurrentLink(c) \in Link
        BY <3>1, CurrentLinkType
      <4>2. up' = [up EXCEPT ![CurrentLink(c)] = Append(@, Current(produced[c] + 1))]
        BY <1>16, <3>1 DEF Produce
      <4> QED
        BY <1>a, <2>1, <4>1, <4>2, UpFrameFacts
    <3>2. CASE ~(linked[c] /\ drained[c])
      BY <1>16, <1>u, <3>2 DEF Produce
    <3> QED
      BY <3>1, <3>2
  <2> QED
    BY <1>16, <2>2, <2>3 DEF Produce, TypeInv, Frame, FrameLength
<1>17. CASE UNCHANGED vars
  BY <1>17 DEF vars, TypeInv, Frame, FrameLength
<1>18. ASSUME NEW c \in Controller, Device(c) PROVE TypeInv'
  <2>1. CASE LinkBreaks(c)
    BY <1>13, <1>f, <2>1 DEF LinkBreaks
  <2>2. CASE NoticesClose(c) \/ Hangup(c) \/ DeviceTimeout(c)
    BY <1>13, <2>2 DEF NoticesClose, Hangup, DeviceTimeout, TypeInv
  <2> QED
    BY <1>12, <1>14, <1>15, <1>16, <1>18, <2>1, <2>2 DEF Device, Talk
<1> QED
  BY <1>1, <1>2, <1>3, <1>4, <1>5, <1>6, <1>7, <1>8, <1>9, <1>10, <1>11, <1>17, <1>18, <1>19
     DEF Next, Server, Handle

-----------------------------------------------------------------------------
(* Pipes.                                                                  *)

\* The elements of a concatenation.
LEMMA ConcatParts ==
    ASSUME NEW S, NEW s \in Seq(S), NEW t \in Seq(S)
    PROVE  /\ s \o t \in Seq(S) /\ Len(s) \in Nat /\ Len(t) \in Nat
           /\ Len(s \o t) = Len(s) + Len(t)
           /\ \A i \in 1..Len(s) : i \in 1..Len(s \o t) /\ (s \o t)[i] = s[i]
           /\ \A i \in 1..Len(t) : Len(s) + i \in 1..Len(s \o t) /\ (s \o t)[Len(s) + i] = t[i]
<1>1. s \o t \in Seq(S) /\ Len(s) \in Nat /\ Len(t) \in Nat /\ Len(s \o t) = Len(s) + Len(t)
  BY ConcatProperties
<1>2. \A i \in 1..Len(s) + Len(t) : (s \o t)[i] = IF i <= Len(s) THEN s[i] ELSE t[i - Len(s)]
  BY ConcatProperties
<1>3. ASSUME NEW i \in 1..Len(s) PROVE i \in 1..Len(s \o t) /\ (s \o t)[i] = s[i]
  BY <1>1, <1>2
<1>4. ASSUME NEW i \in 1..Len(t) PROVE Len(s) + i \in 1..Len(s \o t) /\ (s \o t)[Len(s) + i] = t[i]
  <2>1. /\ Len(s) + i \in 1..Len(s) + Len(t)
        /\ ~(Len(s) + i <= Len(s)) /\ (Len(s) + i) - Len(s) = i
    BY <1>1
  <2> QED
    BY <1>1, <1>2, <2>1
<1> QED
  BY <1>1, <1>3, <1>4

\* The same of frames.
LEMMA FrameConcat ==
    \A s, t \in Seq(UpFrame) :
        /\ s \o t \in Seq(UpFrame) /\ Len(s) \in Nat /\ Len(t) \in Nat
        /\ Len(s \o t) = Len(s) + Len(t)
        /\ \A i \in 1..Len(s) : i \in 1..Len(s \o t) /\ (s \o t)[i] = s[i]
        /\ \A i \in 1..Len(t) : Len(s) + i \in 1..Len(s \o t) /\ (s \o t)[Len(s) + i] = t[i]
BY ConcatParts

LEMMA FrameConcatAssociative ==
    \A s, t, u \in Seq(UpFrame) : (s \o t) \o u = s \o (t \o u)
BY ConcatAssociative

LEMMA PipeType ==
    ASSUME TypeInv, NEW l \in Link
    PROVE  /\ buffer_[l] \in Seq(UpFrame) /\ up[l] \in Seq(UpFrame) /\ Pipe(l) \in Seq(UpFrame)
           /\ Len(buffer_[l]) \in Nat /\ Len(up[l]) \in Nat
           /\ Len(Pipe(l)) = Len(buffer_[l]) + Len(up[l])
           /\ \A i \in 1..Len(buffer_[l]) : i \in 1..Len(Pipe(l)) /\ Pipe(l)[i] = buffer_[l][i]
           /\ \A i \in 1..Len(up[l]) : /\ Len(buffer_[l]) + i \in 1..Len(Pipe(l))
                                       /\ Pipe(l)[Len(buffer_[l]) + i] = up[l][i]
<1>1. buffer_[l] \in Seq(UpFrame) /\ up[l] \in Seq(UpFrame)
  BY DEF TypeInv
<1> QED
  BY <1>1, FrameConcat, Zenon DEF Pipe

\* A frame that is sent goes to the end of the pipe.
LEMMA PipeAppend ==
    ASSUME TypeInv, NEW l \in Link, NEW f \in UpFrame,
           buffer_'[l] = buffer_[l], up'[l] = Append(up[l], f)
    PROVE  /\ Pipe(l)' = Append(Pipe(l), f)
           /\ Len(Append(Pipe(l), f)) = Len(Pipe(l)) + 1 /\ Len(Pipe(l)) \in Nat
           /\ \A i \in 1..Len(Pipe(l)) : Append(Pipe(l), f)[i] = Pipe(l)[i]
           /\ Append(Pipe(l), f)[Len(Pipe(l)) + 1] = f
<1>1. buffer_[l] \in Seq(UpFrame) /\ up[l] \in Seq(UpFrame) /\ Pipe(l) \in Seq(UpFrame)
  BY PipeType
<1>2. Append(up[l], f) = up[l] \o <<f>> /\ <<f>> \in Seq(UpFrame)
  BY <1>1, AppendIsConcat
<1>3. Pipe(l)' = (buffer_[l] \o up[l]) \o <<f>>
  <2>1. Pipe(l)' = buffer_[l] \o (up[l] \o <<f>>)
    BY <1>2 DEF Pipe
  <2>2. (buffer_[l] \o up[l]) \o <<f>> = buffer_[l] \o (up[l] \o <<f>>)
    BY <1>1, <1>2, FrameConcatAssociative
  <2> QED
    BY <2>1, <2>2, Zenon
<1>4. Pipe(l)' = Append(Pipe(l), f)
  BY <1>1, <1>3, AppendIsConcat DEF Pipe
<1> QED
  BY <1>1, <1>4, AppendProperties

\* A read moves frames within the pipe.
LEMMA PipeReceive ==
    ASSUME TypeInv, NEW l \in Link, Receive(l)
    PROVE  /\ \A k \in Link : Pipe(k)' = Pipe(k)
           /\ \A k \in Link : k # l => buffer_'[k] = buffer_[k]
<1>1. PICK k \in 1..Len(up[l]) :
          /\ buffer_' = [buffer_ EXCEPT ![l] = @ \o SubSeq(up[l], 1, k)]
          /\ up' = [up EXCEPT ![l] = SubSeq(@, k + 1, Len(@))]
  BY DEF Receive
<1>2. buffer_[l] \in Seq(UpFrame) /\ up[l] \in Seq(UpFrame) /\ Len(up[l]) \in Nat
  BY PipeType
<1>3. buffer_ \in [Link -> Seq(UpFrame)] /\ up \in [Link -> Seq(UpFrame)]
  BY DEF TypeInv
<1>4. SubSeq(up[l], 1, k) \o SubSeq(up[l], k + 1, Len(up[l])) = up[l]
  <2>1. SubSeq(up[l], 1, k) \o SubSeq(up[l], k + 1, Len(up[l])) = SubSeq(up[l], 1, Len(up[l]))
    <3>1. 1 \in 1..Len(up[l]) + 1 /\ k \in 1 - 1..Len(up[l]) /\ Len(up[l]) \in k..Len(up[l])
      BY <1>2
    <3> QED
      BY <1>2, <3>1, ConcatAdjacentSubSeq
  <2> QED
    BY <1>2, <2>1, SubSeqFull
<1>5. SubSeq(up[l], 1, k) \in Seq(UpFrame) /\ SubSeq(up[l], k + 1, Len(up[l])) \in Seq(UpFrame)
  BY <1>2
<1>6. Pipe(l)' = Pipe(l)
  <2>1. Pipe(l)' = (buffer_[l] \o SubSeq(up[l], 1, k)) \o SubSeq(up[l], k + 1, Len(up[l]))
    BY <1>1, <1>3 DEF Pipe
  <2>2. (buffer_[l] \o SubSeq(up[l], 1, k)) \o SubSeq(up[l], k + 1, Len(up[l]))
            = buffer_[l] \o (SubSeq(up[l], 1, k) \o SubSeq(up[l], k + 1, Len(up[l])))
    BY <1>2, <1>5, FrameConcatAssociative
  <2> QED
    BY <1>4, <2>1, <2>2, Zenon DEF Pipe
<1>7. \A j \in Link : j # l => Pipe(j)' = Pipe(j) /\ buffer_'[j] = buffer_[j]
  BY <1>1, <1>3 DEF Pipe
<1> QED
  BY <1>6, <1>7

-----------------------------------------------------------------------------
(* What keeps the invariant of a connection.                               *)

LEMMA StoredGrows ==
    ASSUME stored \subseteq stored'
    PROVE  \A c : Stored(c) \subseteq Stored(c)'
BY DEF Stored

\* Its pipe is left alone, it is stopped rather than started, and it has its
\* identity before it gets an answer.
LEMMA LinkKept ==
    ASSUME NEW l \in Link, LinkInv(l), stored \subseteq stored',
           Active(l)' => Active(l), Pipe(l)' = Pipe(l),
           \/ controller_id_'[l] = l[1]
           \/ controller_id_'[l] = controller_id_[l] /\ down'[l] \in {down[l], <<>>},
           OnLine(l)' => /\ OnLine(l) /\ sending'[l[1]] = sending[l[1]]
                         /\ drained'[l[1]] => drained[l[1]] /\ produced'[l[1]] = produced[l[1]]
    PROVE  LinkInv(l)'
<1> SUFFICES ASSUME Active(l)'
             PROVE  /\ NoGap(l)'
                    /\ controller_id_'[l] = l[1] \/ Introduced(l)'
                    /\ OnLine(l)' =>
                         /\ \A n \in 1..(sending'[l[1]] - 1) : n \in Known(l)'
                         /\ drained'[l[1]] => \A n \in 1..produced'[l[1]] : n \in Known(l)'
  BY DEF LinkInv
<1>1. /\ NoGap(l)
      /\ controller_id_[l] = l[1] \/ Introduced(l)
      /\ OnLine(l) => /\ \A n \in 1..(sending[l[1]] - 1) : n \in Known(l)
                      /\ drained[l[1]] => \A n \in 1..produced[l[1]] : n \in Known(l)
  BY DEF LinkInv
<1>2. Stored(l[1]) \subseteq Stored(l[1])'
  BY StoredGrows
<1>3. NoGap(l)'
  BY <1>1, <1>2 DEF NoGap
<1>4. controller_id_'[l] = l[1] \/ Introduced(l)'
  BY <1>1 DEF Introduced
<1>5. Known(l) \subseteq Known(l)'
  BY <1>2 DEF Known
<1> QED
  BY <1>1, <1>3, <1>4, <1>5

\* A frame is appended that leaves no gap.
LEMMA LinkAppend ==
    ASSUME TypeInv, NEW l \in Link, NEW f \in UpFrame, LinkInv(l),
           stored' = stored, Active(l)' => Active(l), controller_id_'[l] = controller_id_[l],
           buffer_'[l] = buffer_[l], up'[l] = Append(up[l], f),
           Active(l) => controller_id_[l] = l[1],
           Active(l) => \A n \in 1..(f.first - 1) : n \in Known(l),
           Active(l) /\ OnLine(l)' =>
               /\ \A n \in 1..(sending'[l[1]] - 1) : n \in Known(l) \cup Numbers(f)
               /\ drained'[l[1]] => \A n \in 1..produced'[l[1]] : n \in Known(l) \cup Numbers(f)
    PROVE  LinkInv(l)'
<1> SUFFICES ASSUME Active(l)', Active(l)
             PROVE  /\ NoGap(l)'
                    /\ controller_id_'[l] = l[1]
                    /\ OnLine(l)' =>
                         /\ \A n \in 1..(sending'[l[1]] - 1) : n \in Known(l)'
                         /\ drained'[l[1]] => \A n \in 1..produced'[l[1]] : n \in Known(l)'
  BY DEF LinkInv
<1>1. /\ Pipe(l)' = Append(Pipe(l), f) /\ Len(Pipe(l)') = Len(Pipe(l)) + 1 /\ Len(Pipe(l)) \in Nat
      /\ \A i \in 1..Len(Pipe(l)) : Pipe(l)'[i] = Pipe(l)[i]
      /\ Pipe(l)'[Len(Pipe(l)) + 1] = f
  BY PipeAppend
<1>2. Stored(l[1])' = Stored(l[1])
  BY DEF Stored
<1>3. Known(l) \subseteq Known(l)' /\ Numbers(f) \subseteq Known(l)'
  <2>1. Numbers(f) \subseteq Record
    BY UpFrameType DEF Numbers, Record
  <2>2. Len(Pipe(l)) + 1 \in 1..Len(Pipe(l)')
    BY <1>1
  <2>3. Numbers(f) \subseteq Known(l)'
    BY <1>1, <2>1, <2>2 DEF Known
  <2>4. \A i \in 1..Len(Pipe(l)) : i \in 1..Len(Pipe(l)') /\ Pipe(l)'[i] = Pipe(l)[i]
    BY <1>1
  <2>5. Known(l) \subseteq Known(l)'
    BY <1>2, <2>4 DEF Known
  <2> QED
    BY <2>3, <2>5
<1>4. NoGap(l)'
  <2> SUFFICES ASSUME NEW i \in 1..Len(Pipe(l)) + 1, NEW n \in 1..(Pipe(l)'[i].first - 1)
               PROVE  \/ n \in Stored(l[1])
                      \/ \E j \in 1..(i - 1) : n \in Numbers(Pipe(l)'[j])
    BY <1>1, <1>2 DEF NoGap
  <2>1. CASE i \in 1..Len(Pipe(l))
    <3>1. n \in Stored(l[1]) \/ \E j \in 1..(i - 1) : n \in Numbers(Pipe(l)[j])
      BY <1>1, <2>1 DEF LinkInv, NoGap
    <3>2. \A j \in 1..(i - 1) : Pipe(l)'[j] = Pipe(l)[j]
      BY <1>1, <2>1
    <3> QED
      BY <3>1, <3>2
  <2>2. CASE i = Len(Pipe(l)) + 1
    <3>1. n \in Known(l)
      BY <1>1, <2>2
    <3>2. \A j \in 1..Len(Pipe(l)) : j \in 1..(i - 1) /\ Pipe(l)'[j] = Pipe(l)[j]
      BY <1>1, <2>2
    <3> QED
      BY <3>1, <3>2 DEF Known
  <2> QED
    BY <1>1, <2>1, <2>2
<1> QED
  BY <1>3, <1>4

LEMMA FreshKept ==
    ASSUME NEW l \in Link, FreshInv(l),
           l[2] > used'[l[1]] => /\ l[2] > used[l[1]] /\ (Active(l)' => Active(l))
                                 /\ buffer_'[l] \in {buffer_[l], <<>>}
                                 /\ down'[l] \in {down[l], <<>>}
    PROVE  FreshInv(l)'
BY DEF FreshInv

LEMMA AnswerKept ==
    ASSUME TypeInv, NEW l \in Link, AnswerInv(l), stored \subseteq stored',
           down'[l] \in {down[l], <<>>}
    PROVE  AnswerInv(l)'
<1>1. Stored(l[1]) \subseteq Stored(l[1])'
  BY StoredGrows
<1>2. CASE down'[l] = down[l]
  BY <1>1, <1>2 DEF AnswerInv
<1>3. CASE down'[l] = <<>>
  <2>1. 1..Len(down'[l]) = {}
    BY <1>3
  <2> QED
    BY <2>1 DEF AnswerInv
<1> QED
  BY <1>2, <1>3

\* An answer the server may give to a device.
Truthful(f, c) == /\ f.cmd = "delete" => 1..f.last \subseteq Stored(c)
                  /\ f.cmd = "request" => 1..(f.last - 1) \subseteq Stored(c)

LEMMA AnswerAppend ==
    ASSUME TypeInv, NEW l \in Link, AnswerInv(l), stored' = stored,
           NEW f \in DownFrame, Truthful(f, l[1]), down'[l] = Append(down[l], f)
    PROVE  AnswerInv(l)'
<1>1. down[l] \in Seq(DownFrame)
  BY DEF TypeInv
<1>2. /\ Len(down'[l]) = Len(down[l]) + 1 /\ Len(down[l]) \in Nat
      /\ \A i \in 1..Len(down[l]) : down'[l][i] = down[l][i]
      /\ down'[l][Len(down[l]) + 1] = f
  BY <1>1, AppendProperties
<1>3. Stored(l[1])' = Stored(l[1])
  BY DEF Stored
<1> SUFFICES ASSUME NEW i \in 1..Len(down[l]) + 1
             PROVE  Truthful(down'[l][i], l[1])
  BY <1>2, <1>3 DEF AnswerInv, Truthful
<1>4. CASE i \in 1..Len(down[l])
  BY <1>2, <1>4 DEF AnswerInv, Truthful
<1>5. CASE i = Len(down[l]) + 1
  BY <1>2, <1>5
<1> QED
  BY <1>2, <1>4, <1>5

LEMMA MadeKept ==
    ASSUME TypeInv, NEW l \in Link, MadeInv(l), Pipe(l)' = Pipe(l),
           produced'[l[1]] \in Nat, produced'[l[1]] >= produced[l[1]]
    PROVE  MadeInv(l)'
<1>1. ASSUME NEW i \in 1..Len(Pipe(l)) PROVE Pipe(l)[i].last \in Nat
  <2>1. Pipe(l)[i] \in UpFrame
    BY PipeType, ElementOfSeq
  <2> QED
    BY <2>1, UpFrameType
<1>2. produced[l[1]] \in Nat
  <2>1. produced \in [Controller -> 0..MaxRecord] /\ l[1] \in Controller
    BY LinkFacts DEF TypeInv
  <2> QED
    BY <2>1
<1> QED
  BY <1>1, <1>2 DEF MadeInv

LEMMA DeviceKept ==
    ASSUME NEW c \in Controller, DeviceInv(c), stored \subseteq stored',
           deleted'[c] = deleted[c], counterer_'[c] = counterer_[c],
           file'[c] = file[c] \/ 1..file'[c] \subseteq 1..counterer_[c],
           ~linked'[c] => sending'[c] = 0 /\ ~drained'[c]
    PROVE  DeviceInv(c)'
<1>1. Stored(c) \subseteq Stored(c)'
  BY StoredGrows
<1> QED
  BY <1>1 DEF DeviceInv

\* The rest of the invariant stays when the handler does not move and nothing
\* is stored.
LEMMA HandlerKept ==
    ASSUME HandlerInv, StoredInv, UNCHANGED <<io, buffer_, stored>>
    PROVE  HandlerInv' /\ StoredInv'
BY DEF HandlerInv, StoredInv, Stored, Frame

\* An idle handler.
LEMMA HandlerIdle ==
    ASSUME io'.pc = "idle" PROVE HandlerInv'
BY DEF HandlerInv

-----------------------------------------------------------------------------
(* What the handler knows about the frame it is at.                        *)

LEMMA Identified ==
    ASSUME Inv, io.pc # "idle", io.pos < Len(buffer_[io.link]), Frame.cmd # "ident"
    PROVE  controller_id_[io.link] = io.link[1]
<1>1. io.link \in Link /\ io.pos \in Nat /\ io.pos + 1 \in 1..Len(buffer_[io.link])
  BY FrameType DEF Inv
<1>2. Pipe(io.link)[io.pos + 1] = Frame /\ io.pos + 1 \in 1..Len(Pipe(io.link))
  <2>1. TypeInv
    BY DEF Inv
  <2>2. \A i \in 1..Len(buffer_[io.link]) : /\ i \in 1..Len(Pipe(io.link))
                                             /\ Pipe(io.link)[i] = buffer_[io.link][i]
    BY <1>1, <2>1, PipeType
  <2> QED
    BY <1>1, <2>2, Zenon DEF Frame
<1>3. ~Introduced(io.link)
  BY <1>2 DEF Introduced
<1>4. LinkInv(io.link) /\ Active(io.link)
  BY <1>1 DEF Inv, Active
<1> QED
  BY <1>3, <1>4 DEF LinkInv

\* Once the records of a frame are taken, so is everything up to its last.
LEMMA Taken ==
    ASSUME Inv, io.pc # "idle", io.pos < Len(buffer_[io.link]), Frame.last # 0,
           io.added = FrameLength
    PROVE  1..Frame.last \subseteq Stored(io.link[1])
<1> DEFINE l == io.link
           p == io.pos + 1
<1>1. TypeInv /\ HandlerInv /\ l \in Link /\ LinkInv(l) /\ Active(l)
  BY DEF Inv, TypeInv, Active
<1>2. Frame \in UpFrame /\ io.pos \in Nat /\ p \in 1..Len(buffer_[l])
  BY <1>1, FrameType
<1>3. /\ Frame.first \in Record /\ Frame.last \in Record /\ Frame.first <= Frame.last
  BY <1>2, UpFrameType
<1>a. \A i \in 1..Len(buffer_[l]) : i \in 1..Len(Pipe(l)) /\ Pipe(l)[i] = buffer_[l][i]
  BY <1>1, PipeType
<1>b. Len(buffer_[l]) \in Nat
  BY <1>1, PipeType
<1>4. Pipe(l)[p] = Frame /\ p \in 1..Len(Pipe(l))
  BY <1>2, <1>a, Zenon DEF Frame
<1> SUFFICES ASSUME NEW n \in 1..Frame.last PROVE n \in Stored(l[1])
  OBVIOUS
<1>5. CASE n >= Frame.first
  <2>1. n \in Frame.first..(Frame.first + io.added - 1)
    BY <1>3, <1>5 DEF FrameLength, Record
  <2> QED
    BY <1>1, <2>1 DEF HandlerInv
<1>6. CASE n < Frame.first
  <2>1. n \in 1..(Pipe(l)[p].first - 1)
    BY <1>3, <1>4, <1>6 DEF Record
  <2>2. n \in Stored(l[1]) \/ \E j \in 1..(p - 1) : n \in Numbers(Pipe(l)[j])
    BY <1>1, <1>4, <2>1 DEF LinkInv, NoGap
  <2>3. p - 1 = io.pos /\ \A j \in 1..io.pos : j \in 1..Len(buffer_[l])
    BY <1>2, <1>b
  <2>4. \A j \in 1..io.pos : Numbers(Pipe(l)[j]) \subseteq Stored(l[1])
    BY <1>1, <1>a, <2>3 DEF HandlerInv
  <2> QED
    BY <2>2, <2>3, <2>4
<1> QED
  BY <1>3, <1>5, <1>6 DEF Record

-----------------------------------------------------------------------------
(* The handlers of the server.                                             *)

\* A frame is done with: its records are taken, and the device, whose
\* identity is known now, may get a truthful answer.
LEMMA FrameDone ==
    ASSUME Inv, io.pc # "idle", io.pos < Len(buffer_[io.link]), NextFrame,
           UNCHANGED <<open, late, buffer_, counterer_, stored, up, device>>,
           Numbers(Frame) \subseteq Stored(io.link[1]),
           controller_id_'[io.link] = io.link[1],
           \A l \in Link : l # io.link => controller_id_'[l] = controller_id_[l],
           \A l \in Link : l # io.link => down'[l] = down[l],
           \/ down'[io.link] = down[io.link]
           \/ \E f \in DownFrame : /\ Truthful(f, io.link[1])
                                   /\ down'[io.link] = Append(down[io.link], f),
           file' = file \/ \A c \in Controller : 1..file'[c] \subseteq 1..counterer_[c],
           TypeInv'
    PROVE  Inv'
<1> DEFINE k == io.link
<1>1. TypeInv /\ HandlerInv /\ StoredInv /\ k \in Link /\ io.pos \in Nat
  BY DEF Inv, TypeInv
<1>2. io'.pc = "frame" /\ io'.link = k /\ io'.pos = io.pos + 1 /\ io'.added = 0
  BY DEF NextFrame, Inv, TypeInv
<1>3. \A l \in Link : Active(l)' => Active(l)
  BY <1>2 DEF Active
<1>4. \A l \in Link : Pipe(l)' = Pipe(l)
  BY DEF Pipe
<1>5. UNCHANGED <<produced, deleted, sending, drained, linked, used>>
  BY DEF device
<1>6. ASSUME NEW l \in Link PROVE LinkInv(l)'
  <2>1. OnLine(l)' => OnLine(l)
    BY <1>5 DEF OnLine
  <2>2. LinkInv(l)
    BY DEF Inv
  <2> QED
    BY <1>3, <1>4, <1>5, <2>1, <2>2, LinkKept
<1>7. ASSUME NEW l \in Link PROVE FreshInv(l)'
  <2>1. FreshInv(l)
    BY DEF Inv
  <2>2. CASE l = k
    BY <1>5, <2>1, <2>2 DEF FreshInv, Active
  <2>3. CASE l # k
    BY <1>3, <1>5, <2>1, <2>3, FreshKept
  <2> QED
    BY <2>2, <2>3
<1>8. ASSUME NEW l \in Link PROVE AnswerInv(l)'
  <2>1. AnswerInv(l)
    BY DEF Inv
  <2>2. CASE down'[l] = down[l]
    BY <1>1, <2>1, <2>2, AnswerKept
  <2>3. CASE l = k /\ down'[l] # down[l]
    BY <1>1, <2>1, <2>3, AnswerAppend
  <2> QED
    BY <2>2, <2>3
<1>9. ASSUME NEW l \in Link PROVE MadeInv(l)'
  BY <1>4, <1>5 DEF Inv, MadeInv
<1>10. ASSUME NEW c \in Controller PROVE DeviceInv(c)'
  <2>1. DeviceInv(c)
    BY DEF Inv
  <2>2. /\ stored \subseteq stored' /\ deleted'[c] = deleted[c]
        /\ counterer_'[c] = counterer_[c]
        /\ file'[c] = file[c] \/ 1..file'[c] \subseteq 1..counterer_[c]
    BY <1>5
  <2>3. ~linked'[c] => sending'[c] = 0 /\ ~drained'[c]
    BY <1>5, <2>1 DEF DeviceInv
  <2> QED
    BY <2>1, <2>2, <2>3, DeviceKept
<1>11. HandlerInv'
  <2>1. Stored(k[1])' = Stored(k[1])
    BY <1>2 DEF Stored
  <2>2. \A j \in 1..io.pos + 1 : Numbers(buffer_[k][j]) \subseteq Stored(k[1])
    <3>1. \A j \in 1..io.pos : Numbers(buffer_[k][j]) \subseteq Stored(k[1])
      BY <1>1 DEF HandlerInv
    <3>2. \A j \in 1..io.pos + 1 : j \in 1..io.pos \/ j = io.pos + 1
      BY <1>1
    <3>3. buffer_[k][io.pos + 1] = Frame
      BY DEF Frame
    <3> QED
      BY <3>1, <3>2, <3>3
  <2>3. ASSUME io.pos + 1 < Len(buffer_[k])
        PROVE  \A n \in Frame'.first..(Frame'.first + 0 - 1) : n \in Stored(k[1])
    <3>1. io'.pos < Len(buffer_'[io'.link])
      BY <1>2, <2>3
    <3>2. buffer_[k] \in Seq(UpFrame) /\ (io.pos + 1) + 1 \in 1..Len(buffer_[k])
      <4>1. buffer_[k] \in Seq(UpFrame) /\ Len(buffer_[k]) \in Nat
        BY <1>1, PipeType
      <4> QED
        BY <1>1, <2>3, <4>1
    <3>3. Frame' = buffer_[k][(io.pos + 1) + 1]
      BY <1>2 DEF Frame
    <3>4. Frame'.first \in Nat
      BY <3>2, <3>3, ElementOfSeq, UpFrameType
    <3> QED
      BY <3>4
  <2> QED
    BY <1>2, <2>1, <2>2, <2>3 DEF HandlerInv
<1>12. StoredInv'
  BY <1>1 DEF StoredInv
<1> QED
  BY <1>6, <1>7, <1>8, <1>9, <1>10, <1>11, <1>12 DEF Inv

\* What the counter says has been taken: the answers that carry it are truthful.
LEMMA CounterTruthful ==
    ASSUME Inv, NEW c \in Controller
    PROVE  /\ Truthful(Garbage, c)
           /\ get_last_counter(c) # 0 => Truthful(Delete(get_last_counter(c)), c)
           /\ Truthful(Request(IF get_last_counter(c) = 0 THEN 0 ELSE get_last_counter(c) + 1), c)
<1> DEFINE last == get_last_counter(c)
           next == IF last = 0 THEN 0 ELSE last + 1
<1>1. last \in 0..MaxRecord /\ 1..last \subseteq Stored(c)
  BY CounterFrames DEF Inv, DeviceInv, get_last_counter
<1>2. Truthful(Garbage, c)
  BY DownFrameFacts DEF Truthful
<1> HIDE DEF last
<1>3. last # 0 => Truthful(Delete(last), c)
  <2>1. Delete(last).cmd = "delete" /\ Delete(last).last = last
    BY DEF Delete
  <2> QED
    BY <1>1, <2>1 DEF Truthful
<1>4. Truthful(Request(next), c)
  <2>1. Request(next).cmd = "request" /\ Request(next).last = next
    BY DEF Request
  <2>2. 1..(next - 1) \subseteq 1..last
    BY <1>1
  <2> QED
    BY <1>1, <2>1, <2>2 DEF Truthful
<1> QED
  BY <1>2, <1>3, <1>4 DEF last

\* A file that was not written to its end is not ahead of the counters.
LEMMA PartIsBehind ==
    ASSUME TypeInv, file' \in PartOfCounters, NEW c \in Controller
    PROVE  1..file'[c] \subseteq 1..counterer_[c]
<1>1. file'[c] <= counterer_[c] /\ file'[c] \in Nat /\ counterer_[c] \in Nat
  BY DEF PartOfCounters, TypeInv
<1> QED
  BY <1>1

LEMMA AnswersInv ==
    ASSUME Inv, TypeInv',
           \/ ProcessControllerIdent \/ ProcessDeleteConfirmation \/ ProcessArchiveEnd
           \/ RecordSaved \/ SaveFails
    PROVE  Inv'
<1> DEFINE k == io.link
           id == controller_id_[k]
<1>1. TypeInv /\ k \in Link /\ k[1] \in Controller
  BY LinkFacts DEF Inv, TypeInv
<1>2. UNCHANGED <<open, late, buffer_, counterer_, stored, up, device>> /\ NextFrame
  BY DEF ProcessControllerIdent, ProcessDeleteConfirmation, ProcessArchiveEnd, RecordSaved,
         SaveFails, counters, backend
<1>3. io.pc # "idle" /\ io.pos < Len(buffer_[k])
  BY <1>1 DEF ProcessControllerIdent, ProcessDeleteConfirmation, ProcessArchiveEnd, RecordSaved,
              SaveFails, Busy, TypeInv
<1>4. Frame \in UpFrame
  BY <1>1, <1>3, FrameType
<1>5. Numbers(Frame) \subseteq Stored(k[1])
  <2>1. CASE Frame.last = 0
    BY <1>4, <2>1, UpFrameType DEF Numbers
  <2>2. CASE Frame.last # 0
    <3>1. RecordSaved \/ SaveFails
      BY <1>4, <2>2, UpFrameType
         DEF ProcessControllerIdent, ProcessDeleteConfirmation, ProcessArchiveEnd, Busy, Frame
    <3>2. io.added = FrameLength
      BY <1>1, <3>1 DEF RecordSaved, SaveFails, TypeInv
    <3>3. 1..Frame.last \subseteq Stored(k[1])
      BY <1>3, <2>2, <3>2, Taken
    <3>4. Numbers(Frame) \subseteq 1..Frame.last
      BY <1>4, <2>2, UpFrameType DEF Numbers, Record
    <3> QED
      BY <3>3, <3>4
  <2> QED
    BY <2>1, <2>2
<1>6. /\ controller_id_'[k] = k[1] /\ \A l \in Link : l # k => controller_id_'[l] = controller_id_[l]
      /\ \/ \E c \in Controller : c = k[1] /\ SendRequest(k, get_last_counter(c))
         \/ \E c \in Controller : c = k[1] /\ SendDelete(k, get_last_counter(c))
         \/ \E c \in Controller : c = k[1] /\ DeliverDelete(k, get_last_counter(c))
         \/ UNCHANGED down
  <2>1. CASE ProcessControllerIdent
    <3>1. controller_id_' = [controller_id_ EXCEPT ![k] = k[1]]
      BY <2>1 DEF ProcessControllerIdent
    <3>2. controller_id_ \in [Link -> Controller \cup {NoController}]
      BY <1>1 DEF TypeInv
    <3>3. SendRequest(k, get_last_counter(k[1])) \/ SendDelete(k, get_last_counter(k[1]))
      BY <2>1 DEF ProcessControllerIdent
    <3> QED
      BY <1>1, <3>1, <3>2, <3>3
  <2>2. CASE ProcessDeleteConfirmation \/ ProcessArchiveEnd \/ RecordSaved \/ SaveFails
    <3>1. Frame.cmd # "ident"
      <4>1. CASE ProcessDeleteConfirmation \/ ProcessArchiveEnd
        BY <4>1 DEF ProcessDeleteConfirmation, ProcessArchiveEnd, Busy, Frame
      <4>2. CASE RecordSaved \/ SaveFails
        BY <1>1, <1>4, <4>2, UpFrameType DEF RecordSaved, SaveFails, TypeInv
      <4> QED
        BY <2>2, <4>1, <4>2
    <3>2. id = k[1]
      BY <1>3, <3>1, Identified
    <3>3. UNCHANGED controller_id_
      BY <2>2 DEF ProcessDeleteConfirmation, ProcessArchiveEnd, RecordSaved, SaveFails
    <3>4. \/ SendRequest(k, get_last_counter(id)) \/ SendDelete(k, get_last_counter(id))
          \/ DeliverDelete(k, get_last_counter(id)) \/ UNCHANGED down
      BY <2>2 DEF ProcessDeleteConfirmation, ProcessArchiveEnd, RecordSaved, SaveFails
    <3> QED
      BY <1>1, <3>2, <3>3, <3>4
  <2> QED
    BY <2>1, <2>2
<1>7. /\ \A l \in Link : l # k => down'[l] = down[l]
      /\ \/ down'[k] = down[k]
         \/ \E f \in DownFrame : Truthful(f, k[1]) /\ down'[k] = Append(down[k], f)
  <2>1. CASE \E c \in Controller : c = k[1] /\ SendRequest(k, get_last_counter(c))
    <3>1. SendRequest(k, get_last_counter(k[1]))
      BY <2>1
    <3> DEFINE f == Request(IF get_last_counter(k[1]) = 0 THEN 0 ELSE get_last_counter(k[1]) + 1)
    <3>2. f \in DownFrame /\ Truthful(f, k[1])
      BY <1>1, CounterTruthful, CounterFrames
    <3>3. Garbage \in DownFrame /\ Truthful(Garbage, k[1])
      BY <1>1, CounterTruthful, DownFrameFacts
    <3>4. /\ \A l \in Link : l # k => down'[l] = down[l]
          /\ down'[k] \in {down[k], Append(down[k], Garbage), Append(down[k], f)}
      BY <1>1, <3>1, SendRequestStep
    <3> HIDE DEF f
    <3> QED
      BY <3>2, <3>3, <3>4
  <2>2. CASE \E c \in Controller : c = k[1] /\ SendDelete(k, get_last_counter(c))
    <3>1. SendDelete(k, get_last_counter(k[1]))
      BY <2>2
    <3> DEFINE f == Delete(get_last_counter(k[1]))
    <3>2. get_last_counter(k[1]) # 0 => f \in DownFrame /\ Truthful(f, k[1])
      BY <1>1, CounterTruthful, CounterFrames
    <3>3. Garbage \in DownFrame /\ Truthful(Garbage, k[1])
      BY <1>1, CounterTruthful, DownFrameFacts
    <3>4. /\ \A l \in Link : l # k => down'[l] = down[l]
          /\ \/ down'[k] \in {down[k], Append(down[k], Garbage)}
             \/ get_last_counter(k[1]) # 0 /\ down'[k] = Append(down[k], f)
      BY <1>1, <3>1, SendDeleteStep
    <3> HIDE DEF f
    <3> QED
      BY <3>2, <3>3, <3>4
  <2>3. CASE \E c \in Controller : c = k[1] /\ DeliverDelete(k, get_last_counter(c))
    <3>1. DeliverDelete(k, get_last_counter(k[1]))
      BY <2>3
    <3> DEFINE f == Delete(get_last_counter(k[1]))
    <3>2. get_last_counter(k[1]) # 0 => f \in DownFrame /\ Truthful(f, k[1])
      BY <1>1, CounterTruthful, CounterFrames
    <3>3. /\ \A l \in Link : l # k => down'[l] = down[l]
          /\ \/ down'[k] = down[k]
             \/ get_last_counter(k[1]) # 0 /\ down'[k] = Append(down[k], f)
      BY <1>1, <3>1, DeliverDeleteStep
    <3> HIDE DEF f
    <3> QED
      BY <3>2, <3>3
  <2>4. CASE UNCHANGED down
    BY <2>4
  <2> QED
    BY <1>6, <2>1, <2>2, <2>3, <2>4
<1>8. file' = file \/ \A c \in Controller : 1..file'[c] \subseteq 1..counterer_[c]
  <2>1. CASE ProcessControllerIdent \/ ProcessDeleteConfirmation \/ ProcessArchiveEnd
    BY <2>1 DEF ProcessControllerIdent, ProcessDeleteConfirmation, ProcessArchiveEnd, counters
  <2>2. CASE RecordSaved
    BY <2>2 DEF RecordSaved, save_counters
  <2>3. CASE SaveFails
    BY <1>1, <2>3, PartIsBehind DEF SaveFails
  <2> QED
    BY <2>1, <2>2, <2>3
<1> QED
  BY <1>2, <1>3, <1>5, <1>6, <1>7, <1>8, FrameDone

LEMMA SetLastCounterInv ==
    ASSUME Inv, TypeInv', SetLastCounter
    PROVE  Inv'
<1> DEFINE k == io.link
<1>1. TypeInv /\ k \in Link /\ k[1] \in Controller /\ HandlerInv /\ StoredInv
  BY LinkFacts DEF Inv, TypeInv
<1>2. UNCHANGED <<open, late, buffer_, controller_id_, file, stored, up, down,
                  produced, deleted, sending, drained, linked, used>>
  BY DEF SetLastCounter, protocol, backend, device
<1>3. /\ io.pc = "frame" /\ io.pos < Len(buffer_[k]) /\ Frame.last # 0 /\ io.added = FrameLength
      /\ Frame.cmd # "ident"
  BY DEF SetLastCounter, DataFrame, Busy, Frame
<1>4. io'.pc = "saving" /\ io'.link = io.link /\ io'.pos = io.pos /\ io'.added = io.added
  BY <1>1 DEF SetLastCounter, TypeInv
<1>5. counterer_' = [counterer_ EXCEPT ![k[1]] = Frame.last]
  BY <1>3, Identified DEF SetLastCounter
<1>6. \A l \in Link : (Active(l)' => Active(l)) /\ Pipe(l)' = Pipe(l) /\ (OnLine(l)' => OnLine(l))
  BY <1>2, <1>3, <1>4 DEF Active, Pipe, OnLine
<1>7. ASSUME NEW l \in Link PROVE LinkInv(l)' /\ FreshInv(l)' /\ AnswerInv(l)' /\ MadeInv(l)'
  <2>1. LinkInv(l) /\ FreshInv(l) /\ AnswerInv(l) /\ MadeInv(l)
    BY DEF Inv
  <2>2. LinkInv(l)'
    BY <1>2, <1>6, <2>1, LinkKept
  <2>3. FreshInv(l)'
    BY <1>2, <1>6, <2>1, FreshKept
  <2>4. AnswerInv(l)'
    BY <1>1, <1>2, <2>1, AnswerKept
  <2> QED
    BY <1>2, <1>6, <2>1, <2>2, <2>3, <2>4 DEF MadeInv
<1>8. ASSUME NEW c \in Controller PROVE DeviceInv(c)'
  <2>1. DeviceInv(c) /\ Stored(c)' = Stored(c)
    BY <1>2 DEF Inv, Stored
  <2>2. 1..counterer_'[c] \subseteq Stored(c)
    <3>1. counterer_'[c] = IF c = k[1] THEN Frame.last ELSE counterer_[c]
      BY <1>1, <1>5 DEF TypeInv
    <3>2. 1..Frame.last \subseteq Stored(k[1])
      BY <1>3, Taken
    <3> QED
      BY <2>1, <3>1, <3>2 DEF DeviceInv
  <2> QED
    BY <1>2, <1>4, <2>1, <2>2 DEF DeviceInv
<1>9. HandlerInv' /\ StoredInv'
  <2>1. Frame' = Frame /\ Stored(k[1])' = Stored(k[1])
    BY <1>2, <1>4 DEF Frame, Stored
  <2>2. HandlerInv'
    BY <1>1, <1>2, <1>3, <1>4, <2>1 DEF HandlerInv
  <2> QED
    BY <1>1, <1>2, <2>2 DEF StoredInv
<1> QED
  BY <1>7, <1>8, <1>9 DEF Inv

LEMMA StoreRecordInv ==
    ASSUME Inv, TypeInv', StoreRecord
    PROVE  Inv'
<1> DEFINE k == io.link
           record == [id |-> controller_id_[k], number |-> Frame.first + io.added,
                      label |-> (Frame.last - FrameLength) + io.added]
<1>1. TypeInv /\ k \in Link /\ k[1] \in Controller /\ HandlerInv /\ StoredInv
  BY LinkFacts DEF Inv, TypeInv
<1>2. UNCHANGED <<open, late, buffer_, controller_id_, counterer_, file, up, down,
                  produced, deleted, sending, drained, linked, used>>
  BY DEF StoreRecord, protocol, counters, device
<1>3. /\ io.pc = "frame" /\ io.pos < Len(buffer_[k]) /\ Frame.last # 0
      /\ Frame.cmd # "ident"
  BY DEF StoreRecord, DataFrame, Busy, Frame
<1>4. /\ io'.pc = "frame" /\ io'.link = io.link /\ io'.pos = io.pos /\ io'.added = io.added + 1
      /\ io.added \in Nat
  BY <1>1, <1>3 DEF StoreRecord, TypeInv
<1>5. stored' = stored \cup {record} /\ record.id = k[1] /\ record.number = Frame.first + io.added
  BY <1>3, Identified DEF StoreRecord
<1>6. \A l \in Link : (Active(l)' => Active(l)) /\ Pipe(l)' = Pipe(l) /\ (OnLine(l)' => OnLine(l))
  BY <1>2, <1>3, <1>4 DEF Active, Pipe, OnLine
<1> HIDE DEF record
<1>7. ASSUME NEW l \in Link PROVE LinkInv(l)' /\ FreshInv(l)' /\ AnswerInv(l)' /\ MadeInv(l)'
  <2>1. LinkInv(l) /\ FreshInv(l) /\ AnswerInv(l) /\ MadeInv(l)
    BY DEF Inv
  <2>2. LinkInv(l)'
    BY <1>2, <1>5, <1>6, <2>1, LinkKept
  <2>3. FreshInv(l)'
    BY <1>2, <1>6, <2>1, FreshKept
  <2>4. AnswerInv(l)'
    BY <1>1, <1>2, <1>5, <2>1, AnswerKept
  <2> QED
    BY <1>2, <1>6, <2>1, <2>2, <2>3, <2>4 DEF MadeInv
<1>8. ASSUME NEW c \in Controller PROVE DeviceInv(c)'
  <2>1. DeviceInv(c)
    BY DEF Inv
  <2>2. Stored(c) \subseteq Stored(c)'
    BY <1>5, StoredGrows
  <2> QED
    BY <1>2, <1>3, <2>1, <2>2 DEF DeviceInv
<1>9. HandlerInv'
  <2>1. Frame' = Frame /\ Stored(k[1]) \subseteq Stored(k[1])'
    BY <1>2, <1>4, <1>5 DEF Frame, Stored
  <2>2. Frame.first + io.added \in Stored(k[1])'
    BY <1>4, <1>5 DEF Stored
  <2>3. Frame.first \in Nat
    BY <1>1, <1>3, FrameType, UpFrameType
  <2>4. \A n \in Frame.first..(Frame.first + (io.added + 1) - 1) : n \in Stored(k[1])'
    <3>1. \A n \in Frame.first..(Frame.first + io.added - 1) : n \in Stored(k[1])
      BY <1>1, <1>3 DEF HandlerInv
    <3>2. \A n \in Frame.first..(Frame.first + (io.added + 1) - 1) :
             n \in Frame.first..(Frame.first + io.added - 1) \/ n = Frame.first + io.added
      BY <1>4, <2>3
    <3> QED
      BY <2>1, <2>2, <3>1, <3>2
  <2>5. \A j \in 1..io.pos : Numbers(buffer_[k][j]) \subseteq Stored(k[1])'
    BY <1>1, <1>3, <2>1 DEF HandlerInv
  <2> QED
    BY <1>2, <1>4, <2>1, <2>4, <2>5 DEF HandlerInv
<1>10. StoredInv'
  BY <1>1, <1>5 DEF StoredInv
<1> QED
  BY <1>7, <1>8, <1>9, <1>10 DEF Inv

LEMMA ReceiveInv ==
    ASSUME Inv, TypeInv', NEW k \in Link, Receive(k)
    PROVE  Inv'
<1>1. TypeInv /\ HandlerInv /\ StoredInv
  BY DEF Inv
<1>2. UNCHANGED <<open, controller_id_, counterer_, file, stored, down,
                  produced, deleted, sending, drained, linked, used>>
  BY DEF Receive, counters, backend, device
<1>3. /\ io.pc = "idle" /\ (open[k] \/ late[k])
      /\ io'.pc = "frame" /\ io'.link = k /\ io'.pos = 0 /\ io'.added = 0
      /\ late' = [late EXCEPT ![k] = FALSE]
  BY DEF Receive
<1>4. \A l \in Link : (Active(l)' => Active(l)) /\ (OnLine(l)' => OnLine(l))
  BY <1>1, <1>2, <1>3 DEF Active, OnLine, TypeInv
<1>5. \A l \in Link : Pipe(l)' = Pipe(l) /\ (l # k => buffer_'[l] = buffer_[l])
  BY <1>1, PipeReceive
<1>6. ASSUME NEW l \in Link PROVE LinkInv(l)' /\ FreshInv(l)' /\ AnswerInv(l)' /\ MadeInv(l)'
  <2>1. LinkInv(l) /\ FreshInv(l) /\ AnswerInv(l) /\ MadeInv(l)
    BY DEF Inv
  <2>2. LinkInv(l)'
    BY <1>2, <1>4, <1>5, <2>1, LinkKept
  <2>3. FreshInv(l)'
    <3>1. CASE l = k
      BY <1>2, <1>3, <2>1, <3>1 DEF FreshInv, Active
    <3>2. CASE l # k
      BY <1>2, <1>4, <1>5, <2>1, <3>2, FreshKept
    <3> QED
      BY <3>1, <3>2
  <2>4. AnswerInv(l)'
    BY <1>1, <1>2, <2>1, AnswerKept
  <2> QED
    BY <1>2, <1>5, <2>1, <2>2, <2>3, <2>4 DEF MadeInv
<1>7. ASSUME NEW c \in Controller PROVE DeviceInv(c)'
  BY <1>2, <1>3 DEF Inv, DeviceInv, Stored
<1>8. HandlerInv'
  <2>1. 1..0 = {}
    OBVIOUS
  <2>2. ASSUME 0 < Len(buffer_'[k])
        PROVE  \A n \in Frame'.first..(Frame'.first + 0 - 1) : n \in Stored(k[1])'
    <3>1. buffer_'[k] \in Seq(UpFrame)
      BY DEF TypeInv
    <3>2. Frame' = buffer_'[k][0 + 1] /\ 0 + 1 \in 1..Len(buffer_'[k])
      BY <1>3, <2>2, <3>1 DEF Frame
    <3>3. Frame'.first \in Nat
      BY <3>1, <3>2, ElementOfSeq, UpFrameType
    <3> QED
      BY <3>3
  <2> QED
    BY <1>3, <2>1, <2>2 DEF HandlerInv
<1>9. StoredInv'
  BY <1>1, <1>2 DEF StoredInv
<1> QED
  BY <1>6, <1>7, <1>8, <1>9 DEF Inv

\* Behind the first b elements of a sequence, the others come in the same order.
LEMMA Shift ==
    ASSUME NEW p, NEW u, NEW b \in Nat, NEW m \in Nat, \A i \in 1..m : p[b + i] = u[i],
           NEW j \in 1..(b + m), j \notin 1..b
    PROVE  j - b \in 1..m /\ j - b \in Nat /\ p[j] = u[j - b]
<1>1. j - b \in 1..m /\ b + (j - b) = j
  OBVIOUS
<1>2. p[b + (j - b)] = u[j - b]
  BY <1>1, Zenon
<1> QED
  BY <1>1, <1>2

\* The frames that are erased have been taken, so the ones behind them leave
\* no gap.
LEMMA ReceiveDoneInv ==
    ASSUME Inv, TypeInv', ReceiveDone
    PROVE  Inv'
<1> DEFINE k == io.link
           b == Len(buffer_[k])
<1>1. TypeInv /\ HandlerInv /\ StoredInv /\ k \in Link
  BY DEF Inv, TypeInv
<1>2. UNCHANGED <<open, late, controller_id_, counterer_, file, stored, up, down,
                  produced, deleted, sending, drained, linked, used>>
  BY DEF ReceiveDone, counters, backend, device
<1>3. /\ io.pc = "frame" /\ io.pos = b /\ io'.pc = "idle"
      /\ buffer_' = [buffer_ EXCEPT ![k] = <<>>]
  BY LinkFacts DEF ReceiveDone
<1>4. \A l \in Link : /\ (Active(l)' => Active(l)) /\ (OnLine(l)' => OnLine(l))
                      /\ l # k => Pipe(l)' = Pipe(l) /\ buffer_'[l] = buffer_[l]
                      /\ l = k => buffer_'[l] = <<>>
  BY <1>1, <1>2, <1>3 DEF Active, OnLine, Pipe, TypeInv
<1>5. /\ b \in Nat /\ Len(up[k]) \in Nat /\ Len(Pipe(k)) = b + Len(up[k])
      /\ \A i \in 1..Len(up[k]) : b + i \in 1..Len(Pipe(k)) /\ Pipe(k)[b + i] = up[k][i]
      /\ \A i \in 1..b : Pipe(k)[i] = buffer_[k][i]
  BY <1>1, PipeType
<1>6. buffer_'[k] \o up'[k] = up[k]
  BY <1>1, <1>2, <1>4, PipeType, ConcatEmptySeq
<1>7. \A i \in 1..b : Numbers(Pipe(k)[i]) \subseteq Stored(k[1])
  BY <1>1, <1>3, <1>5 DEF HandlerInv
<1>8. ASSUME NEW l \in Link, l = k PROVE LinkInv(l)' /\ MadeInv(l)'
  <2>1. Pipe(l)' = up[l] /\ Stored(l[1])' = Stored(l[1])
    BY <1>2, <1>6, <1>8 DEF Pipe, Stored
  <2>2. LinkInv(l) /\ MadeInv(l) /\ Active(l)
    BY <1>3, <1>8 DEF Inv, Active
  <2>0. /\ b \in Nat /\ Len(up[l]) \in Nat /\ Len(Pipe(l)) = b + Len(up[l])
        /\ \A i \in 1..Len(up[l]) : b + i \in 1..Len(Pipe(l)) /\ Pipe(l)[b + i] = up[l][i]
        /\ \A i \in 1..b : Numbers(Pipe(l)[i]) \subseteq Stored(l[1])
    BY <1>5, <1>7, <1>8
  <2> HIDE DEF b, k
  <2>s. ASSUME NEW j \in 1..Len(Pipe(l)), NEW n \in Numbers(Pipe(l)[j]), n \notin Stored(l[1])
        PROVE  /\ j - b \in 1..Len(up[l]) /\ j - b \in Nat /\ j \notin 1..b
               /\ n \in Numbers(up[l][j - b])
    <3>1. j \notin 1..b
      BY <2>0, <2>s
    <3>2. j - b \in 1..Len(up[l]) /\ j - b \in Nat /\ Pipe(l)[j] = up[l][j - b]
      <4>1. j \in 1..(b + Len(up[l]))
        BY <2>0
      <4> QED
        BY <2>0, <3>1, <4>1, Shift
    <3> QED
      BY <3>1, <3>2
  <2>3. Known(l) \subseteq Known(l)'
    <3>1. ASSUME NEW n \in Known(l), n \notin Stored(l[1])
          PROVE  \E i \in 1..Len(up[l]) : n \in Numbers(up[l][i])
      <4>1. PICK j \in 1..Len(Pipe(l)) : n \in Numbers(Pipe(l)[j])
        BY <3>1 DEF Known
      <4> QED
        BY <2>s, <3>1, <4>1
    <3> QED
      BY <2>1, <3>1 DEF Known
  <2>4. NoGap(l)'
    <3>0. ASSUME NEW i \in 1..Len(up[l]), NEW n \in 1..(up[l][i].first - 1),
                 n \notin Stored(l[1])
          PROVE  \E j \in 1..(i - 1) : n \in Numbers(up[l][j])
      <4>1. b + i \in 1..Len(Pipe(l)) /\ Pipe(l)[b + i] = up[l][i]
        BY <2>0, Zenon
      <4>2. PICK j \in 1..((b + i) - 1) : n \in Numbers(Pipe(l)[j])
        BY <2>2, <3>0, <4>1 DEF LinkInv, NoGap
      <4>3. j \in 1..Len(Pipe(l))
        BY <2>0
      <4>4. j - b \in 1..Len(up[l]) /\ j \notin 1..b /\ n \in Numbers(up[l][j - b])
        BY <2>s, <3>0, <4>2, <4>3
      <4>5. j - b \in 1..(i - 1)
        BY <2>0, <4>4
      <4> QED
        BY <4>4, <4>5
    <3> QED
      BY <2>1, <3>0 DEF NoGap
  <2>5. controller_id_'[l] = l[1] \/ Introduced(l)'
    <3>1. Introduced(l) => \A i \in 1..Len(up[l]) : up[l][i].cmd = "ident"
      <4>1. ASSUME Introduced(l), NEW i \in 1..Len(up[l]) PROVE up[l][i].cmd = "ident"
        <5>1. b + i \in 1..Len(Pipe(l)) /\ Pipe(l)[b + i] = up[l][i]
          BY <2>0, Zenon
        <5>2. Pipe(l)[b + i].cmd = "ident"
          BY <4>1, <5>1, Zenon DEF Introduced
        <5> QED
          BY <5>1, <5>2
      <4> QED
        BY <4>1
    <3> QED
      BY <1>2, <1>4, <2>1, <2>2, <3>1 DEF LinkInv, Introduced
  <2>6. LinkInv(l)'
    BY <1>2, <1>4, <2>2, <2>3, <2>4, <2>5 DEF LinkInv
  <2>7. MadeInv(l)'
    <3>1. ASSUME NEW i \in 1..Len(up[l]) PROVE up[l][i].last <= produced[l[1]]
      <4>1. b + i \in 1..Len(Pipe(l)) /\ Pipe(l)[b + i] = up[l][i]
        BY <2>0, Zenon
      <4>2. Pipe(l)[b + i].last <= produced[l[1]]
        BY <2>2, <4>1, Zenon DEF MadeInv
      <4> QED
        BY <4>1, <4>2
    <3> QED
      BY <1>2, <2>1, <3>1 DEF MadeInv
  <2> QED
    BY <2>6, <2>7
<1>9. ASSUME NEW l \in Link PROVE LinkInv(l)' /\ FreshInv(l)' /\ AnswerInv(l)' /\ MadeInv(l)'
  <2>1. LinkInv(l) /\ FreshInv(l) /\ AnswerInv(l) /\ MadeInv(l)
    BY DEF Inv
  <2>2. l # k => LinkInv(l)'
    BY <1>2, <1>4, <2>1, LinkKept
  <2>3. FreshInv(l)'
    BY <1>2, <1>4, <2>1, FreshKept
  <2>4. AnswerInv(l)'
    BY <1>1, <1>2, <2>1, AnswerKept
  <2>5. l # k => MadeInv(l)'
    BY <1>2, <1>4, <2>1 DEF MadeInv
  <2> QED
    BY <1>8, <2>2, <2>3, <2>4, <2>5
<1>10. ASSUME NEW c \in Controller PROVE DeviceInv(c)'
  BY <1>2, <1>3 DEF Inv, DeviceInv, Stored
<1>11. HandlerInv' /\ StoredInv'
  BY <1>1, <1>2, <1>3, HandlerIdle DEF StoredInv
<1> QED
  BY <1>9, <1>10, <1>11 DEF Inv

\* What keeps the invariant when the handler ends or stands still, and neither
\* the frames of a connection nor what is known of a device change.
LEMMA QuietInv ==
    ASSUME Inv, TypeInv',
           UNCHANGED <<buffer_, controller_id_, counterer_, file, stored, up, down, produced,
                       deleted, sending, drained, linked, used>>,
           io' = io \/ (io.pc = "frame" /\ io'.pc = "idle"),
           \A l \in Link : Active(l)' => Active(l)
    PROVE  Inv'
<1>1. TypeInv /\ HandlerInv /\ StoredInv
  BY DEF Inv
<1>2. \A l \in Link : Pipe(l)' = Pipe(l) /\ (OnLine(l)' => OnLine(l))
  BY DEF Pipe, OnLine
<1>3. ASSUME NEW l \in Link PROVE LinkInv(l)' /\ FreshInv(l)' /\ AnswerInv(l)' /\ MadeInv(l)'
  <2>1. LinkInv(l) /\ FreshInv(l) /\ AnswerInv(l) /\ MadeInv(l)
    BY DEF Inv
  <2>2. LinkInv(l)'
    BY <1>2, <2>1, LinkKept
  <2>3. FreshInv(l)'
    BY <2>1, FreshKept
  <2>4. AnswerInv(l)'
    BY <1>1, <2>1, AnswerKept
  <2> QED
    BY <1>2, <2>1, <2>2, <2>3, <2>4 DEF MadeInv
<1>4. ASSUME NEW c \in Controller PROVE DeviceInv(c)'
  BY DEF Inv, DeviceInv, Stored
<1>5. HandlerInv' /\ StoredInv'
  BY <1>1, HandlerKept, HandlerIdle DEF StoredInv
<1> QED
  BY <1>3, <1>4, <1>5 DEF Inv

\* A connection that is stopped was active if a read is still to come.
LEMMA StopActive ==
    ASSUME TypeInv, NEW k \in Link, Stop(k), io' = io \/ io'.pc = "idle"
    PROVE  \A l \in Link : Active(l)' => Active(l)
<1>1. open \in [Link -> BOOLEAN] /\ late \in [Link -> BOOLEAN]
  BY DEF TypeInv
<1>2. ASSUME NEW l \in Link, l # k PROVE open'[l] = open[l] /\ late'[l] = late[l]
  BY <1>1, <1>2 DEF Stop
<1>3. open'[k] = FALSE /\ (late'[k] => open[k])
  BY <1>1 DEF Stop
<1> QED
  BY <1>2, <1>3 DEF Active

LEMMA PeerClosedInv ==
    ASSUME Inv, TypeInv', NEW k \in Link, PeerClosed(k)
    PROVE  Inv'
<1>1. Stop(k) /\ io' = io /\ TypeInv
  BY DEF PeerClosed, Inv
<1>2. UNCHANGED <<buffer_, controller_id_, counterer_, file, stored, up, down, produced,
                  deleted, sending, drained, linked, used>>
  BY DEF PeerClosed, counters, backend, device
<1> QED
  BY <1>1, <1>2, StopActive, QuietInv

LEMMA StoreRefusesInv ==
    ASSUME Inv, TypeInv', StoreRefuses
    PROVE  Inv'
<1>1. Stop(io.link) /\ io.pc = "frame" /\ io'.pc = "idle" /\ TypeInv /\ io.link \in Link
  BY LinkFacts DEF StoreRefuses, DataFrame, Busy, Inv, TypeInv
<1>2. UNCHANGED <<buffer_, controller_id_, counterer_, file, stored, up, down, produced,
                  deleted, sending, drained, linked, used>>
  BY DEF StoreRefuses, counters, backend, device
<1> QED
  BY <1>1, <1>2, StopActive, QuietInv

\* After a crash nothing is under way, and the counters are what the file
\* holds: the ones that were saved, or as much of them as was written.
LEMMA CrashInv ==
    ASSUME Inv, TypeInv', Crash
    PROVE  Inv'
<1>1. TypeInv /\ StoredInv
  BY DEF Inv
<1>2. UNCHANGED <<stored, down, produced, deleted, sending, drained, linked, used>>
  BY DEF Crash, backend, device
<1>3. /\ io'.pc = "idle" /\ counterer_' = file'
      /\ \A l \in Link : /\ ~open'[l] /\ ~late'[l] /\ controller_id_'[l] = NoController
                         /\ buffer_'[l] = <<>> /\ up'[l] = <<>>
  BY LinkFacts DEF Crash, load_counters
<1>4. \A l \in Link : ~Active(l)'
  BY <1>3 DEF Active
<1>5. ASSUME NEW l \in Link PROVE LinkInv(l)' /\ FreshInv(l)' /\ AnswerInv(l)' /\ MadeInv(l)'
  <2>1. FreshInv(l) /\ AnswerInv(l)
    BY DEF Inv
  <2>2. LinkInv(l)'
    BY <1>4 DEF LinkInv
  <2>3. FreshInv(l)'
    BY <1>2, <1>3, <1>4, <2>1, FreshKept
  <2>4. AnswerInv(l)'
    BY <1>1, <1>2, <2>1, AnswerKept
  <2>5. MadeInv(l)'
    <3>1. Pipe(l)' = <<>>
      BY <1>3 DEF Pipe
    <3>2. 1..Len(Pipe(l)') = {}
      BY <3>1
    <3> QED
      BY <3>2 DEF MadeInv
  <2> QED
    BY <2>2, <2>3, <2>4, <2>5
<1>6. ASSUME NEW c \in Controller PROVE DeviceInv(c)'
  <2>1. DeviceInv(c) /\ Stored(c)' = Stored(c)
    BY <1>2 DEF Inv, Stored
  <2>2. 1..file'[c] \subseteq Stored(c)
    <3>1. CASE io.pc = "saving"
      <4>1. 1..file'[c] \subseteq 1..counterer_[c]
        BY <1>1, <3>1, PartIsBehind DEF Crash
      <4> QED
        BY <2>1, <4>1 DEF DeviceInv
    <3>2. CASE io.pc # "saving"
      BY <2>1, <3>2 DEF Crash, DeviceInv
    <3> QED
      BY <3>1, <3>2
  <2> QED
    BY <1>2, <1>3, <2>1, <2>2 DEF DeviceInv
<1>7. HandlerInv' /\ StoredInv'
  BY <1>1, <1>2, <1>3, HandlerIdle DEF StoredInv
<1> QED
  BY <1>5, <1>6, <1>7 DEF Inv

-----------------------------------------------------------------------------
(* Steps of the devices.                                                   *)

\* A new connection carries the introduction and nothing else.
LEMMA ConnectInv ==
    ASSUME Inv, TypeInv', NEW c \in Controller, Connect(c)
    PROVE  Inv'
<1> DEFINE k == <<c, used[c] + 1>>
<1>1. TypeInv /\ HandlerInv /\ StoredInv
  BY DEF Inv
<1>2. UNCHANGED <<late, buffer_, controller_id_, io, counterer_, file, stored, down,
                  produced, deleted, sending, drained>>
  BY DEF Connect, counters, backend
<1>3. k \in Link /\ k[1] = c /\ k[2] = used[c] + 1 /\ used[c] \in Nat
  BY <1>1, LinkFacts DEF Connect, TypeInv
<1>4. /\ used' = [used EXCEPT ![c] = @ + 1] /\ linked' = [linked EXCEPT ![c] = TRUE]
      /\ open' = [open EXCEPT ![k] = TRUE] /\ up' = [up EXCEPT ![k] = <<Ident>>]
      /\ ~linked[c]
  BY DEF Connect
<1>5. /\ open \in [Link -> BOOLEAN] /\ up \in [Link -> Seq(UpFrame)]
      /\ used \in [Controller -> 0..MaxConn] /\ linked \in [Controller -> BOOLEAN]
  BY <1>1 DEF TypeInv
<1>6. /\ open'[k] = TRUE /\ up'[k] = <<Ident>> /\ used'[c] = used[c] + 1
      /\ \A d \in Controller : d # c => used'[d] = used[d] /\ linked'[d] = linked[d]
      /\ \A l \in Link : l # k => open'[l] = open[l] /\ up'[l] = up[l]
  BY <1>3, <1>4, <1>5
<1> HIDE DEF k
<1>7. ASSUME NEW l \in Link, l # k PROVE LinkInv(l)' /\ FreshInv(l)' /\ AnswerInv(l)' /\ MadeInv(l)'
  <2>1. LinkInv(l) /\ FreshInv(l) /\ AnswerInv(l) /\ MadeInv(l)
    BY DEF Inv
  <2>2. (Active(l)' => Active(l)) /\ Pipe(l)' = Pipe(l)
    BY <1>2, <1>6, <1>7 DEF Active, Pipe
  <2>3. OnLine(l)' => OnLine(l)
    <3>1. l[1] \in Controller /\ l = <<l[1], l[2]>> /\ k = <<k[1], k[2]>>
      BY <1>3, LinkFacts
    <3>2. l[1] = c => l[2] # used'[c]
      BY <1>3, <1>6, <1>7, <3>1
    <3> QED
      BY <1>6, <3>1, <3>2 DEF OnLine
  <2>4. LinkInv(l)'
    BY <1>2, <2>1, <2>2, <2>3, LinkKept
  <2>5. FreshInv(l)'
    <3>1. l[1] \in Controller /\ l[2] \in Nat
      BY LinkFacts
    <3>2. l[2] > used'[l[1]] => l[2] > used[l[1]]
      BY <1>3, <1>6, <3>1
    <3> QED
      BY <1>2, <2>1, <2>2, <3>2, FreshKept
  <2>6. AnswerInv(l)'
    BY <1>1, <1>2, <2>1, AnswerKept
  <2> QED
    BY <1>2, <2>1, <2>2, <2>4, <2>5, <2>6 DEF MadeInv
<1>8. ASSUME NEW l \in Link, l = k PROVE LinkInv(l)' /\ FreshInv(l)' /\ AnswerInv(l)' /\ MadeInv(l)'
  <2>0. /\ l[1] = c /\ l[2] = used[c] + 1 /\ used[c] \in Nat /\ used'[c] = used[c] + 1
        /\ up'[l] = <<Ident>>
    BY <1>3, <1>6, <1>8
  <2>1. FreshInv(l) /\ AnswerInv(l) /\ buffer_[l] = <<>> /\ down[l] = <<>>
    BY <2>0 DEF Inv, FreshInv
  <2>2. Pipe(l)' = <<Ident>>
    <3>1. <<Ident>> \in Seq(UpFrame)
      BY UpFrameFacts
    <3> QED
      BY <1>2, <2>0, <2>1, <3>1, ConcatEmptySeq DEF Pipe
  <2>3. /\ Len(Pipe(l)') = 1
        /\ \A i \in 1..Len(Pipe(l)') : Pipe(l)'[i].cmd = "ident" /\ Pipe(l)'[i].first = 0
                                                                 /\ Pipe(l)'[i].last = 0
    BY <2>2, UpFrameFacts
  <2>4. sending'[c] = 0 /\ ~drained'[c] /\ produced'[c] \in Nat
    BY <1>1, <1>2, <1>4 DEF Inv, DeviceInv, TypeInv
  <2>5. NoGap(l)'
    <3>1. \A i \in 1..Len(Pipe(l)') : 1..(Pipe(l)'[i].first - 1) = {}
      BY <2>3
    <3> QED
      BY <3>1 DEF NoGap
  <2>6. Introduced(l)'
    BY <1>2, <2>0, <2>1, <2>3, <2>4 DEF Introduced
  <2>7. 1..(sending'[c] - 1) = {}
    BY <2>4
  <2>8. LinkInv(l)'
    BY <2>0, <2>4, <2>5, <2>6, <2>7 DEF LinkInv
  <2>9. FreshInv(l)'
    BY <2>0 DEF FreshInv
  <2>10. AnswerInv(l)'
    BY <1>1, <1>2, <2>0, <2>1, AnswerKept
  <2>11. MadeInv(l)'
    BY <2>0, <2>3, <2>4 DEF MadeInv
  <2> QED
    BY <2>8, <2>9, <2>10, <2>11
<1>9. ASSUME NEW d \in Controller PROVE DeviceInv(d)'
  BY <1>2, <1>4, <1>5 DEF Inv, DeviceInv, Stored
<1>10. HandlerInv' /\ StoredInv'
  BY <1>1, <1>2, HandlerKept
<1> QED
  BY <1>7, <1>8, <1>9, <1>10 DEF Inv

\* A device leaves its connection.
LEMMA LeaveInv ==
    ASSUME Inv, TypeInv', NEW c \in Controller, Leave(c)
    PROVE  Inv'
<1>1. TypeInv /\ HandlerInv /\ StoredInv
  BY DEF Inv
<1>2. UNCHANGED <<open, late, buffer_, controller_id_, io, counterer_, file, stored, up,
                  produced, deleted, used>>
  BY DEF Leave, protocol, counters, backend
<1>3. /\ linked'[c] = FALSE /\ sending'[c] = 0 /\ drained'[c] = FALSE
      /\ \A d \in Controller : d # c => /\ linked'[d] = linked[d] /\ sending'[d] = sending[d]
                                        /\ drained'[d] = drained[d]
  BY <1>1 DEF Leave, TypeInv
<1>4. \A l \in Link : down'[l] \in {down[l], <<>>}
  BY <1>1 DEF Leave, TypeInv
<1>5. ASSUME NEW l \in Link PROVE LinkInv(l)' /\ FreshInv(l)' /\ AnswerInv(l)' /\ MadeInv(l)'
  <2>1. LinkInv(l) /\ FreshInv(l) /\ AnswerInv(l) /\ MadeInv(l)
    BY DEF Inv
  <2>2. (Active(l)' <=> Active(l)) /\ Pipe(l)' = Pipe(l)
    BY <1>2 DEF Active, Pipe
  <2>3. OnLine(l)' => l[1] # c /\ OnLine(l) /\ l[1] \in Controller
    BY <1>2, <1>3, LinkFacts DEF OnLine
  <2>4. LinkInv(l)'
    BY <1>2, <1>3, <1>4, <2>1, <2>2, <2>3, LinkKept
  <2>5. FreshInv(l)'
    BY <1>2, <1>4, <2>1, <2>2, FreshKept
  <2>6. AnswerInv(l)'
    BY <1>1, <1>2, <1>4, <2>1, AnswerKept
  <2> QED
    BY <1>2, <2>1, <2>2, <2>4, <2>5, <2>6 DEF MadeInv
<1>6. ASSUME NEW d \in Controller PROVE DeviceInv(d)'
  BY <1>2, <1>3 DEF Inv, DeviceInv, Stored
<1>7. HandlerInv' /\ StoredInv'
  BY <1>1, <1>2, HandlerKept
<1> QED
  BY <1>5, <1>6, <1>7 DEF Inv

LEMMA ProducedType ==
    ASSUME TypeInv, TypeInv', NEW c \in Controller
    PROVE  produced[c] \in Nat /\ produced'[c] \in Nat
<1>1. produced \in [Controller -> 0..MaxRecord] /\ produced' \in [Controller -> 0..MaxRecord]
  BY DEF TypeInv
<1> QED
  BY <1>1

\* The other steps of a device concern the connection it holds, if it holds
\* one, and its own records.
LEMMA OwnLinkInv ==
    ASSUME Inv, TypeInv', NEW c \in Controller,
           UNCHANGED <<open, late, buffer_, controller_id_, io, counterer_, file, stored,
                       linked, used>>,
           \A d \in Controller : d # c => /\ sending'[d] = sending[d] /\ drained'[d] = drained[d]
                                          /\ produced'[d] = produced[d] /\ deleted'[d] = deleted[d],
           ~linked[c] => sending'[c] = sending[c] /\ drained'[c] = drained[c],
           produced'[c] >= produced[c], 1..deleted'[c] \subseteq Stored(c),
           \A l \in Link : ~(OnLine(l) /\ l[1] = c) => up'[l] = up[l] /\ down'[l] = down[l],
           \A l \in Link : OnLine(l) /\ l[1] = c => LinkInv(l)' /\ AnswerInv(l)' /\ MadeInv(l)'
    PROVE  Inv'
<1>1. TypeInv /\ HandlerInv /\ StoredInv
  BY DEF Inv
<1>2. ASSUME NEW l \in Link PROVE LinkInv(l)' /\ FreshInv(l)' /\ AnswerInv(l)' /\ MadeInv(l)'
  <2>1. /\ LinkInv(l) /\ FreshInv(l) /\ AnswerInv(l) /\ MadeInv(l)
        /\ l[1] \in Controller /\ l[2] \in Nat
    BY LinkFacts DEF Inv
  <2>2. (Active(l)' <=> Active(l)) /\ (OnLine(l)' <=> OnLine(l))
    BY DEF Active, OnLine
  <2>3. CASE OnLine(l) /\ l[1] = c
    <3>1. FreshInv(l)'
      BY <2>1, <2>3 DEF FreshInv, OnLine
    <3> QED
      BY <2>3, <3>1
  <2>4. CASE ~(OnLine(l) /\ l[1] = c)
    <3>1. up'[l] = up[l] /\ down'[l] = down[l]
      BY <2>4
    <3>2. Pipe(l)' = Pipe(l)
      BY <3>1 DEF Pipe
    <3>3. LinkInv(l)'
      BY <2>1, <2>2, <2>4, <3>1, <3>2, LinkKept
    <3>4. FreshInv(l)'
      BY <2>1, <2>2, <3>1, FreshKept
    <3>5. AnswerInv(l)'
      BY <1>1, <2>1, <3>1, AnswerKept
    <3>6. produced'[l[1]] \in Nat /\ produced[l[1]] \in Nat
      BY <1>1, <2>1, ProducedType
    <3>7. produced'[l[1]] >= produced[l[1]]
      <4>1. CASE l[1] = c
        BY <4>1
      <4>2. CASE l[1] # c
        BY <2>1, <3>6, <4>2
      <4> QED
        BY <4>1, <4>2
    <3>8. MadeInv(l)'
      BY <1>1, <2>1, <3>2, <3>6, <3>7, MadeKept
    <3> QED
      BY <3>3, <3>4, <3>5, <3>8
  <2> QED
    BY <2>3, <2>4
<1>3. ASSUME NEW d \in Controller PROVE DeviceInv(d)'
  <2>1. DeviceInv(d) /\ Stored(d)' = Stored(d)
    BY DEF Inv, Stored
  <2>2. 1..deleted'[d] \subseteq Stored(d)
    BY <2>1 DEF DeviceInv
  <2>3. ~linked'[d] => sending'[d] = 0 /\ ~drained'[d]
    BY <2>1 DEF DeviceInv
  <2> QED
    BY <2>1, <2>2, <2>3 DEF DeviceInv
<1>4. HandlerInv' /\ StoredInv'
  BY <1>1, HandlerKept
<1> QED
  BY <1>2, <1>3, <1>4 DEF Inv

\* A device that has more to say than its introduction has had an answer, so
\* the server knows who it is.
LEMMA Answered ==
    ASSUME Inv, NEW l \in Link, OnLine(l),
           sending[l[1]] # 0 \/ drained[l[1]] \/ down[l] # <<>>
    PROVE  Active(l) => controller_id_[l] = l[1]
BY DEF Inv, LinkInv, Introduced

LEMMA MadeAppend ==
    ASSUME TypeInv, TypeInv', NEW l \in Link, NEW f \in UpFrame, MadeInv(l),
           buffer_'[l] = buffer_[l], up'[l] = Append(up[l], f),
           produced'[l[1]] >= produced[l[1]], f.last <= produced'[l[1]]
    PROVE  MadeInv(l)'
<1>1. /\ Pipe(l)' = Append(Pipe(l), f) /\ Len(Pipe(l)') = Len(Pipe(l)) + 1 /\ Len(Pipe(l)) \in Nat
      /\ \A i \in 1..Len(Pipe(l)) : Pipe(l)'[i] = Pipe(l)[i]
      /\ Pipe(l)'[Len(Pipe(l)) + 1] = f
  BY PipeAppend
<1>2. produced'[l[1]] \in Nat /\ produced[l[1]] \in Nat
  BY LinkFacts, ProducedType
<1>3. ASSUME NEW i \in 1..Len(Pipe(l)) PROVE Pipe(l)'[i].last <= produced'[l[1]]
  <2>1. Pipe(l)[i].last \in Nat
    <3>1. Pipe(l)[i] \in UpFrame
      BY PipeType, ElementOfSeq
    <3> QED
      BY <3>1, UpFrameType
  <2>2. Pipe(l)'[i] = Pipe(l)[i] /\ Pipe(l)[i].last <= produced[l[1]]
    BY <1>1 DEF MadeInv
  <2> QED
    BY <1>2, <2>1, <2>2
<1>4. \A i \in 1..Len(Pipe(l)) + 1 : i \in 1..Len(Pipe(l)) \/ i = Len(Pipe(l)) + 1
  BY <1>1
<1>5. ASSUME NEW i \in 1..Len(Pipe(l)) + 1 PROVE Pipe(l)'[i].last <= produced'[l[1]]
  BY <1>1, <1>3, <1>4
<1> QED
  BY <1>1, <1>5 DEF MadeInv

\* A new record leaves no gap: the archive is drained, so the ones before it
\* are in the pipe or taken.
LEMMA ProduceInv ==
    ASSUME Inv, TypeInv', NEW c \in Controller, Produce(c)
    PROVE  Inv'
<1>1. TypeInv
  BY DEF Inv
<1>2. UNCHANGED <<open, late, buffer_, controller_id_, io, counterer_, file, stored, down,
                  deleted, sending, drained, linked, used>>
  BY DEF Produce, protocol, counters, backend
<1>3. /\ produced[c] \in Nat /\ produced'[c] = produced[c] + 1 /\ produced[c] + 1 \in Record
      /\ \A d \in Controller : d # c => produced'[d] = produced[d]
  <2>1. produced \in [Controller -> 0..MaxRecord]
    BY <1>1 DEF TypeInv
  <2> QED
    BY <2>1 DEF Produce, Record
<1>4. 1..deleted'[c] \subseteq Stored(c)
  BY <1>2 DEF Inv, DeviceInv
<1>5. CASE linked[c] /\ drained[c]
  <2>1. /\ CurrentLink(c) \in Link
        /\ \A l \in Link : OnLine(l) /\ l[1] = c <=> l = CurrentLink(c)
    BY <1>1, <1>5, CurrentLinkType
  <2>2. up' = [up EXCEPT ![CurrentLink(c)] = Append(@, Current(produced[c] + 1))]
    BY <1>5 DEF Produce
  <2>3. ASSUME NEW l \in Link, OnLine(l), l[1] = c
        PROVE  LinkInv(l)' /\ AnswerInv(l)' /\ MadeInv(l)'
    <3> DEFINE f == Current(produced[c] + 1)
    <3>1. f \in UpFrame /\ f.first = produced[c] + 1 /\ f.last = produced[c] + 1
      BY <1>3, UpFrameFacts
    <3>2. Numbers(f) = {produced[c] + 1}
      BY <1>3, <3>1 DEF Numbers
    <3>3. up'[l] = Append(up[l], f)
      BY <1>1, <2>1, <2>2, <2>3 DEF TypeInv
    <3> HIDE DEF f
    <3>4. LinkInv(l) /\ AnswerInv(l) /\ MadeInv(l) /\ (Active(l)' => Active(l))
      BY <1>2 DEF Inv, Active
    <3>5. Active(l) => controller_id_[l] = l[1]
      BY <1>5, <2>3, Answered
    <3>6. Active(l) => /\ \A n \in 1..produced[c] : n \in Known(l)
                       /\ \A n \in 1..(sending[c] - 1) : n \in Known(l)
      BY <1>5, <2>3, <3>4 DEF LinkInv
    <3>7. 1..(f.first - 1) = 1..produced[c]
      BY <1>3, <3>1
    <3>8. Active(l) => \A n \in 1..produced'[c] : n \in Known(l) \cup Numbers(f)
      <4>1. \A n \in 1..produced'[c] : n \in 1..produced[c] \/ n = produced[c] + 1
        BY <1>3
      <4> QED
        BY <3>2, <3>6, <4>1
    <3>9. LinkInv(l)'
      BY <1>1, <1>2, <2>3, <3>1, <3>3, <3>4, <3>5, <3>6, <3>7, <3>8, LinkAppend
    <3>10. AnswerInv(l)'
      BY <1>1, <1>2, <3>4, AnswerKept
    <3>11. MadeInv(l)'
      BY <1>1, <1>2, <1>3, <2>3, <3>1, <3>3, <3>4, MadeAppend, SMTT(30)
    <3> QED
      BY <3>9, <3>10, <3>11
  <2>4. \A l \in Link : l # CurrentLink(c) => up'[l] = up[l]
    BY <1>1, <2>2 DEF TypeInv
  <2> QED
    BY <1>2, <1>3, <1>4, <2>1, <2>3, <2>4, OwnLinkInv
<1>6. CASE ~(linked[c] /\ drained[c])
  <2>1. up' = up
    BY <1>6 DEF Produce
  <2>2. ASSUME NEW l \in Link, OnLine(l), l[1] = c
        PROVE  LinkInv(l)' /\ AnswerInv(l)' /\ MadeInv(l)'
    <3>1. LinkInv(l) /\ AnswerInv(l) /\ MadeInv(l) /\ (Active(l)' => Active(l))
      BY <1>2 DEF Inv, Active
    <3>2. Pipe(l)' = Pipe(l) /\ ~drained[c]
      BY <1>2, <1>6, <2>1, <2>2 DEF Pipe, OnLine
    <3>3. LinkInv(l)'
      BY <1>2, <2>2, <3>1, <3>2, LinkKept
    <3>4. AnswerInv(l)'
      BY <1>1, <1>2, <3>1, AnswerKept
    <3>5. MadeInv(l)'
      BY <1>1, <1>3, <2>2, <3>1, <3>2, MadeKept
    <3> QED
      BY <3>3, <3>4, <3>5
  <2> QED
    BY <1>2, <1>3, <1>4, <2>1, <2>2, OwnLinkInv
<1> QED
  BY <1>5, <1>6

\* A packet of the archive starts where the upload is, and the empty one ends
\* it when everything is in the pipe or taken.
LEMMA UploadInv ==
    ASSUME Inv, TypeInv', NEW c \in Controller, Upload(c)
    PROVE  Inv'
<1>1. TypeInv /\ linked[c] /\ sending[c] # 0
  BY DEF Inv, Upload
<1>2. UNCHANGED <<open, late, buffer_, controller_id_, io, counterer_, file, stored, down,
                  produced, deleted, linked, used>>
  BY DEF Upload, protocol, counters, backend
<1>3. /\ up \in [Link -> Seq(UpFrame)] /\ sending \in [Controller -> 0..MaxRecord + 1]
      /\ drained \in [Controller -> BOOLEAN] /\ produced \in [Controller -> 0..MaxRecord]
  BY <1>1 DEF TypeInv
<1>4. sending[c] \in Nat /\ produced[c] \in 0..MaxRecord /\ produced[c] \in Nat
  BY <1>3
<1>5. /\ CurrentLink(c) \in Link
      /\ \A l \in Link : OnLine(l) /\ l[1] = c <=> l = CurrentLink(c)
  BY <1>1, CurrentLinkType
<1>6. 1..deleted'[c] \subseteq Stored(c)
  BY <1>2 DEF Inv, DeviceInv
<1>7. ASSUME NEW l \in Link, l = CurrentLink(c)
      PROVE  /\ OnLine(l) /\ l[1] = c /\ LinkInv(l) /\ AnswerInv(l) /\ MadeInv(l)
             /\ Active(l)' => Active(l)
             /\ Active(l) => controller_id_[l] = c /\ \A n \in 1..(sending[c] - 1) : n \in Known(l)
             /\ Active(l) /\ drained[c] => \A n \in 1..produced[c] : n \in Known(l)
             /\ AnswerInv(l)'
  <2>1. OnLine(l) /\ l[1] = c /\ LinkInv(l) /\ AnswerInv(l) /\ MadeInv(l)
    BY <1>5, <1>7 DEF Inv
  <2>2. Active(l)' => Active(l)
    BY <1>2 DEF Active
  <2>3. Active(l) => controller_id_[l] = c
    BY <1>1, <2>1, Answered
  <2>4. AnswerInv(l)'
    BY <1>1, <1>2, <2>1, AnswerKept
  <2> QED
    BY <2>1, <2>2, <2>3, <2>4 DEF LinkInv
<1>8. ASSUME NEW n \in sending[c]..produced[c], n < sending[c] + MaxPacket,
             up' = [up EXCEPT ![CurrentLink(c)] = Append(@, Archive(sending[c], n))],
             sending' = [sending EXCEPT ![c] = n + 1], UNCHANGED drained
      PROVE  Inv'
  <2> DEFINE f == Archive(sending[c], n)
  <2>1. sending[c] \in Record /\ n \in Record /\ sending[c] <= n
    BY <1>1, <1>4 DEF Record
  <2>2. f \in UpFrame /\ f.first = sending[c] /\ f.last = n
    BY <1>8, <2>1, UpFrameFacts
  <2>3. \A m \in sending[c]..n : m \in Numbers(f)
    BY <1>1, <1>4, <2>2 DEF Numbers
  <2>4. up'[CurrentLink(c)] = Append(up[CurrentLink(c)], f) /\ sending'[c] = n + 1
    BY <1>3, <1>5, <1>8
  <2> HIDE DEF f
  <2>5. ASSUME NEW l \in Link, l = CurrentLink(c)
        PROVE  LinkInv(l)' /\ AnswerInv(l)' /\ MadeInv(l)'
    <3>1. Active(l) => \A m \in 1..(sending'[c] - 1) : m \in Known(l) \cup Numbers(f)
      <4>1. \A m \in 1..(sending'[c] - 1) : m \in 1..(sending[c] - 1) \/ m \in sending[c]..n
        BY <1>4, <2>1, <2>4
      <4> QED
        BY <1>7, <2>3, <2>5, <4>1
    <3>2. LinkInv(l)'
      BY <1>1, <1>2, <1>7, <1>8, <2>2, <2>4, <2>5, <3>1, LinkAppend
    <3>3. MadeInv(l)'
      <4>1. f.last <= produced'[c] /\ produced'[c] >= produced[c]
        BY <1>2, <1>4, <2>2
      <4> QED
        BY <1>1, <1>2, <1>7, <2>2, <2>4, <2>5, <4>1, MadeAppend
    <3> QED
      BY <1>7, <2>5, <3>2, <3>3
  <2>6. \A l \in Link : l # CurrentLink(c) => up'[l] = up[l]
    BY <1>3, <1>8
  <2>7. \A d \in Controller : d # c => sending'[d] = sending[d] /\ drained'[d] = drained[d]
    BY <1>3, <1>8
  <2> QED
    BY <1>1, <1>2, <1>4, <1>5, <1>6, <2>5, <2>6, <2>7, OwnLinkInv
<1>9. ASSUME sending[c] > produced[c],
             up' = [up EXCEPT ![CurrentLink(c)] = Append(@, ArchiveEnd)],
             sending' = [sending EXCEPT ![c] = 0], drained' = [drained EXCEPT ![c] = TRUE]
      PROVE  Inv'
  <2>1. ArchiveEnd \in UpFrame /\ ArchiveEnd.first = 0 /\ ArchiveEnd.last = 0
    BY UpFrameFacts
  <2>2. up'[CurrentLink(c)] = Append(up[CurrentLink(c)], ArchiveEnd) /\ sending'[c] = 0
    BY <1>3, <1>5, <1>9
  <2>3. ASSUME NEW l \in Link, l = CurrentLink(c)
        PROVE  LinkInv(l)' /\ AnswerInv(l)' /\ MadeInv(l)'
    <3>1. 1..(sending'[c] - 1) = {} /\ 1..(ArchiveEnd.first - 1) = {}
      BY <2>1, <2>2
    <3>2. Active(l) => \A m \in 1..produced'[c] : m \in Known(l)
      <4>1. \A m \in 1..produced'[c] : m \in 1..(sending[c] - 1)
        BY <1>2, <1>4, <1>9
      <4> QED
        BY <1>7, <2>3, <4>1
    <3>3. LinkInv(l)'
      BY <1>1, <1>2, <1>7, <2>1, <2>2, <2>3, <3>1, <3>2, LinkAppend
    <3>4. MadeInv(l)'
      <4>1. ArchiveEnd.last <= produced'[c] /\ produced'[c] >= produced[c]
        BY <1>2, <1>4, <2>1
      <4> QED
        BY <1>1, <1>2, <1>7, <2>1, <2>2, <2>3, <4>1, MadeAppend
    <3> QED
      BY <1>7, <2>3, <3>3, <3>4
  <2>4. \A l \in Link : l # CurrentLink(c) => up'[l] = up[l]
    BY <1>3, <1>9
  <2>5. \A d \in Controller : d # c => sending'[d] = sending[d] /\ drained'[d] = drained[d]
    BY <1>3, <1>9
  <2> QED
    BY <1>1, <1>2, <1>4, <1>5, <1>6, <2>3, <2>4, <2>5, OwnLinkInv
<1> QED
  BY <1>8, <1>9 DEF Upload

\* The first answer is taken from the ones under way.
LEMMA AnswerTail ==
    ASSUME TypeInv, NEW l \in Link, AnswerInv(l), stored' = stored,
           down[l] # <<>>, down'[l] = Tail(down[l])
    PROVE  /\ AnswerInv(l)' /\ Head(down[l]) \in DownFrame
           /\ Truthful(Head(down[l]), l[1])
<1>1. down[l] \in Seq(DownFrame)
  BY DEF TypeInv
<1>2. /\ Len(down[l]) \in Nat \ {0} /\ Head(down[l]) = down[l][1] /\ Head(down[l]) \in DownFrame
      /\ Len(down'[l]) = Len(down[l]) - 1
      /\ \A i \in 1..Len(down'[l]) : i + 1 \in 1..Len(down[l]) /\ down'[l][i] = down[l][i + 1]
  BY <1>1, HeadTailProperties, EmptySeq
<1>3. \A i \in 1..Len(down[l]) : Truthful(down[l][i], l[1])
  BY DEF AnswerInv, Truthful
<1>4. Stored(l[1])' = Stored(l[1])
  BY DEF Stored
<1>5. ASSUME NEW i \in 1..Len(down'[l]) PROVE Truthful(down'[l][i], l[1])
  <2>1. i + 1 \in 1..Len(down[l]) /\ down'[l][i] = down[l][i + 1]
    BY <1>2
  <2> QED
    BY <1>3, <2>1
<1>6. AnswerInv(l)'
  BY <1>4, <1>5 DEF AnswerInv, Truthful
<1>7. 1 \in 1..Len(down[l])
  BY <1>2
<1> QED
  BY <1>2, <1>3, <1>6, <1>7

\* A device deletes, and skips in an upload, only what the server has taken.
LEMMA ObeyInv ==
    ASSUME Inv, TypeInv', NEW c \in Controller, Obey(c)
    PROVE  Inv'
<1> DEFINE frame == Head(down[CurrentLink(c)])
<1>1. TypeInv /\ linked[c] /\ down[CurrentLink(c)] # <<>>
  BY DEF Inv, Obey
<1>2. UNCHANGED <<open, late, buffer_, controller_id_, io, counterer_, file, stored,
                  produced, linked, used>>
  BY DEF Obey, protocol, counters, backend
<1>3. /\ up \in [Link -> Seq(UpFrame)] /\ down \in [Link -> Seq(DownFrame)]
      /\ sending \in [Controller -> 0..MaxRecord + 1]
      /\ drained \in [Controller -> BOOLEAN] /\ produced \in [Controller -> 0..MaxRecord]
      /\ deleted \in [Controller -> 0..MaxRecord]
  BY <1>1 DEF TypeInv
<1>4. deleted[c] \in Nat /\ produced[c] \in Nat /\ produced'[c] >= produced[c]
  BY <1>2, <1>3
<1>5. /\ CurrentLink(c) \in Link
      /\ \A l \in Link : OnLine(l) /\ l[1] = c <=> l = CurrentLink(c)
  BY <1>1, CurrentLinkType
<1>6. /\ down'[CurrentLink(c)] = Tail(down[CurrentLink(c)])
      /\ \A l \in Link : l # CurrentLink(c) => down'[l] = down[l]
  BY <1>3, <1>5 DEF Obey
<1>7. ASSUME NEW l \in Link, l = CurrentLink(c)
      PROVE  /\ OnLine(l) /\ l[1] = c /\ LinkInv(l) /\ MadeInv(l)
             /\ Active(l)' => Active(l)
             /\ Active(l) => controller_id_[l] = c
             /\ AnswerInv(l)' /\ frame \in DownFrame /\ Truthful(frame, c)
  <2>1. OnLine(l) /\ l[1] = c /\ LinkInv(l) /\ AnswerInv(l) /\ MadeInv(l)
    BY <1>5, <1>7 DEF Inv
  <2>2. Active(l)' => Active(l)
    BY <1>2 DEF Active
  <2>3. Active(l) => controller_id_[l] = c
    BY <1>1, <1>7, <2>1, Answered
  <2>4. AnswerInv(l)' /\ frame \in DownFrame /\ Truthful(frame, c)
    BY <1>1, <1>2, <1>6, <1>7, <2>1, AnswerTail
  <2> QED
    BY <2>1, <2>2, <2>3, <2>4
<1>8. frame \in DownFrame /\ Truthful(frame, c) /\ 1..deleted[c] \subseteq Stored(c)
  BY <1>5, <1>7 DEF Inv, DeviceInv
<1>9. CASE frame.cmd = "request"
  <2> DEFINE next == IF frame.last > deleted[c] THEN frame.last ELSE deleted[c] + 1
  <2>1. /\ sending' = [sending EXCEPT ![c] = next] /\ drained' = [drained EXCEPT ![c] = FALSE]
        /\ UNCHANGED <<up, deleted>>
    BY <1>9 DEF Obey
  <2>2. \A n \in 1..(next - 1) : n \in Stored(c)
    <3>1. CASE frame.last > deleted[c]
      BY <1>8, <1>9, <3>1 DEF Truthful
    <3>2. CASE ~(frame.last > deleted[c])
      <4>1. 1..(next - 1) = 1..deleted[c]
        BY <1>4, <3>2
      <4> QED
        BY <1>8, <4>1
    <3> QED
      BY <3>1, <3>2
  <2>3. next \in 0..MaxRecord + 1
    <3>1. frame.last \in 0..MaxRecord + 1
      BY <1>8, <1>9, DownFrameType
    <3>2. deleted[c] \in 0..MaxRecord
      BY <1>3
    <3> QED
      BY <3>1, <3>2
  <2> HIDE DEF next
  <2>4. sending'[c] = next /\ drained'[c] = FALSE
    BY <1>3, <2>1
  <2>5. ASSUME NEW l \in Link, l = CurrentLink(c) PROVE LinkInv(l)' /\ MadeInv(l)'
    <3>1. Pipe(l)' = Pipe(l) /\ Stored(l[1])' = Stored(l[1])
      BY <1>2, <2>1 DEF Pipe, Stored
    <3>2. MadeInv(l)'
      BY <1>2, <1>7, <2>5, <3>1 DEF MadeInv
    <3>3. NoGap(l) => NoGap(l)'
      BY <3>1 DEF NoGap
    <3>4. \A n \in 1..(sending'[c] - 1) : n \in Known(l)'
      <4>1. \A n \in 1..(sending'[c] - 1) : n \in Record
        BY <2>3, <2>4 DEF Record
      <4> QED
        BY <1>7, <2>2, <2>4, <2>5, <3>1, <4>1 DEF Known
    <3> QED
      BY <1>2, <1>7, <2>4, <2>5, <3>2, <3>3, <3>4 DEF LinkInv
  <2>6. \A d \in Controller : d # c => sending'[d] = sending[d] /\ drained'[d] = drained[d]
    BY <1>3, <2>1
  <2> QED
    BY <1>1, <1>2, <1>4, <1>5, <1>6, <1>7, <1>8, <2>1, <2>5, <2>6, OwnLinkInv, ZenonT(60)
<1>10. CASE frame.cmd = "delete"
  <2> DEFINE last == IF frame.last > deleted[c] THEN frame.last ELSE deleted[c]
  <2>1. /\ deleted' = [deleted EXCEPT ![c] = last]
        /\ up' = [up EXCEPT ![CurrentLink(c)] = Append(@, Confirm)]
        /\ UNCHANGED <<sending, drained>>
    BY <1>10 DEF Obey
  <2>2. 1..last \subseteq Stored(c)
    BY <1>8, <1>10 DEF Truthful
  <2> HIDE DEF last
  <2>3. deleted'[c] = last /\ \A d \in Controller : d # c => deleted'[d] = deleted[d]
    BY <1>3, <2>1
  <2>4. /\ up'[CurrentLink(c)] = Append(up[CurrentLink(c)], Confirm)
        /\ \A l \in Link : l # CurrentLink(c) => up'[l] = up[l]
    BY <1>3, <1>5, <2>1
  <2>5. Confirm \in UpFrame /\ Confirm.first = 0 /\ Confirm.last = 0
    BY UpFrameFacts
  <2>6. ASSUME NEW l \in Link, l = CurrentLink(c) PROVE LinkInv(l)' /\ MadeInv(l)'
    <3>1. 1..(Confirm.first - 1) = {}
      BY <2>5
    <3>2. Active(l) /\ OnLine(l) => /\ \A n \in 1..(sending[c] - 1) : n \in Known(l)
                                    /\ drained[c] => \A n \in 1..produced[c] : n \in Known(l)
      BY <1>7, <2>6 DEF LinkInv
    <3>3. LinkInv(l)'
      BY <1>1, <1>2, <1>7, <2>1, <2>4, <2>5, <2>6, <3>1, <3>2, LinkAppend
    <3>4. MadeInv(l)'
      <4>1. Confirm.last <= produced'[c]
        BY <1>2, <1>4, <2>5
      <4> QED
        BY <1>1, <1>2, <1>4, <1>7, <2>4, <2>5, <2>6, <4>1, MadeAppend
    <3> QED
      BY <3>3, <3>4
  <2> QED
    BY <1>1, <1>2, <1>4, <1>5, <1>6, <1>7, <2>1, <2>2, <2>3, <2>4, <2>6, OwnLinkInv
<1>11. CASE frame.cmd = "garbage"
  <2>1. UNCHANGED <<up, sending, drained, deleted>>
    BY <1>11 DEF Obey
  <2>2. ASSUME NEW l \in Link, l = CurrentLink(c) PROVE LinkInv(l)' /\ MadeInv(l)'
    <3>1. Pipe(l)' = Pipe(l)
      BY <1>2, <2>1 DEF Pipe
    <3>2. ASSUME Active(l)' PROVE LinkInv(l)'
      BY <1>2, <1>7, <2>1, <2>2, <3>1, <3>2, LinkKept
    <3>3. ASSUME ~Active(l)' PROVE LinkInv(l)'
      BY <3>3 DEF LinkInv
    <3>4. MadeInv(l)'
      BY <1>2, <1>7, <2>2, <3>1 DEF MadeInv
    <3> QED
      BY <3>2, <3>3, <3>4
  <2> QED
    BY <1>1, <1>2, <1>4, <1>5, <1>6, <1>7, <1>8, <2>1, <2>2, OwnLinkInv
<1> QED
  BY <1>9, <1>10, <1>11 DEF Obey

-----------------------------------------------------------------------------
(* The theorems.                                                           *)

LEMMA InitInv == Init => Inv
<1> SUFFICES ASSUME Init PROVE Inv
  OBVIOUS
<1>1. TypeInv
  BY InitTypeInv
<1>2. /\ io.pc = "idle" /\ stored = {}
      /\ \A l \in Link : /\ ~open[l] /\ ~late[l] /\ buffer_[l] = <<>> /\ up[l] = <<>>
                         /\ down[l] = <<>>
      /\ \A c \in Controller : /\ sending[c] = 0 /\ ~drained[c] /\ deleted[c] = 0
                               /\ counterer_[c] = 0 /\ file[c] = 0
  BY LinkFacts DEF Init, Zero
<1>3. ASSUME NEW l \in Link PROVE LinkInv(l) /\ FreshInv(l) /\ AnswerInv(l) /\ MadeInv(l)
  <2>1. ~Active(l)
    BY <1>2 DEF Active
  <2>2. Pipe(l) = <<>>
    BY <1>2 DEF Pipe
  <2>3. 1..Len(down[l]) = {} /\ 1..Len(Pipe(l)) = {}
    BY <1>2, <2>2
  <2> QED
    BY <1>2, <2>1, <2>3 DEF LinkInv, FreshInv, AnswerInv, MadeInv
<1>4. ASSUME NEW c \in Controller PROVE DeviceInv(c)
  <2>1. 1..0 = {}
    OBVIOUS
  <2> QED
    BY <1>2, <2>1 DEF DeviceInv
<1> QED
  BY <1>1, <1>2, <1>3, <1>4 DEF Inv, HandlerInv, StoredInv

LEMMA NextInv == Inv /\ [Next]_vars => Inv'
<1> SUFFICES ASSUME Inv, [Next]_vars PROVE Inv'
  OBVIOUS
<1>1. TypeInv'
  BY NextTypeInv DEF Inv
<1>2. CASE Server
  <2>1. CASE \E l \in Link : Receive(l) \/ PeerClosed(l)
    BY <1>1, <2>1, ReceiveInv, PeerClosedInv
  <2>2. CASE \/ ProcessControllerIdent \/ ProcessDeleteConfirmation \/ ProcessArchiveEnd
             \/ RecordSaved
    BY <1>1, <2>2, AnswersInv
  <2> QED
    BY <1>1, <1>2, <2>1, <2>2, ReceiveDoneInv, SetLastCounterInv, StoreRecordInv
       DEF Server, Handle
<1>3. ASSUME NEW c \in Controller, Device(c) PROVE Inv'
  <2>1. CASE LinkBreaks(c) \/ NoticesClose(c) \/ Hangup(c) \/ DeviceTimeout(c)
    BY <1>1, <2>1, LeaveInv DEF LinkBreaks, NoticesClose, Hangup, DeviceTimeout
  <2> QED
    BY <1>1, <1>3, <2>1, ConnectInv, UploadInv, ObeyInv, ProduceInv DEF Device, Talk
<1>4. CASE UNCHANGED vars
  <2>1. \A l \in Link : Active(l)' => Active(l)
    BY <1>4 DEF vars, Active
  <2> QED
    BY <1>1, <1>4, <2>1, QuietInv DEF vars
<1> QED
  BY <1>1, <1>2, <1>3, <1>4, StoreRefusesInv, AnswersInv, CrashInv DEF Next

\* The pipes of the connections have no gaps, and answers, counters and
\* deletions never go beyond what add_message has taken.
THEOREM InvHolds == Spec => []Inv
BY InitInv, NextInv, PTL DEF Spec

\* The variables keep their types: each buffer and each link carries frames of
\* the protocol, the handler never runs past buffer_, no counter leaves the
\* records, and nothing is stored without a controller to store it for.
THEOREM TypeCorrect == Spec => []TypeOK
<1>1. Inv => TypeOK
  BY DEF Inv, TypeInv, StoredInv, TypeOK
<1> QED
  BY <1>1, InvHolds, PTL

\* No device deletes a record that add_message has not taken, whatever
\* crashed, was refused, garbled or sent again.
THEOREM DeletedAreStored == Spec => []DeletedIsStored
<1>1. Inv => DeletedIsStored
  BY DEF Inv, DeviceInv, DeletedIsStored
<1> QED
  BY <1>1, InvHolds, PTL

\* Neither counterer_ nor counters.dat runs ahead of the records taken.
THEOREM CountersAreStored == Spec => []CounterIsStored
<1>1. Inv => CounterIsStored
  BY DEF Inv, DeviceInv, CounterIsStored
<1> QED
  BY <1>1, InvHolds, PTL
=============================================================================
