-------------------------- MODULE SessionOrderProofs --------------------------
(***************************************************************************)
(* As long as nothing fails, the protocol takes the records of a device in *)
(* their order and none twice: a theorem of OmnicommSession for every      *)
(* number of devices, records and connections.                             *)
(*                                                                         *)
(* Without faults a device has one connection with anything in it, the one *)
(* it holds.  That connection begins with one exchange: introduction,      *)
(* delete and confirmation if the server has records, one request.  The    *)
(* request carries the counter, nothing is taken while it is under way,    *)
(* and what is uploaded from there on only grows.                          *)
(***************************************************************************)
EXTENDS SessionProofs

USE ControllerAssumption, BoundsAssumption

\* The handler is reading this connection.
Reading(l) == io.pc # "idle" /\ io.link = l

\* The frames of the pipe that are handled, and the places of the others.
Done(l) == IF Reading(l) THEN io.pos ELSE 0
Left(l) == (Done(l) + 1)..Len(Pipe(l))

\* One frame is left, or one answer is under way.
Only(l, cmd) == Len(Pipe(l)) = Done(l) + 1 /\ Pipe(l)[Done(l) + 1].cmd = cmd
Told(l, cmd) == Len(down[l]) = 1 /\ down[l][1].cmd = cmd

\* Only the connection a device holds has anything in it.
HeldInv(l) ==
    /\ ~Reading(l) => buffer_[l] = <<>>
    /\ OnLine(l) => open[l]
    /\ ~OnLine(l) => ~Reading(l) /\ up[l] = <<>> /\ down[l] = <<>>

\* The exchange with which a connection begins.
Starting(c) == sending[c] = 0 /\ ~drained[c]

StartInv(l) ==
    OnLine(l) /\ Starting(l[1]) =>
        \/ Only(l, "ident") /\ down[l] = <<>>
        \/ /\ Left(l) = {} /\ Told(l, "delete")
           /\ protocol_state_[l] = "wait_initial_delete_confirm"
        \/ /\ Only(l, "confirm") /\ down[l] = <<>>
           /\ protocol_state_[l] = "wait_initial_delete_confirm"
        \/ /\ Left(l) = {} /\ Told(l, "request")
           /\ protocol_state_[l] = "process_archive"
           /\ down[l][1].last = IF counterer_[l[1]] = 0 THEN 0 ELSE counterer_[l[1]] + 1

\* After it there are no requests.
StartedInv(l) ==
    OnLine(l) /\ ~Starting(l[1]) =>
        /\ protocol_state_[l] # "wait_initial_delete_confirm"
        /\ \A i \in Left(l) : Pipe(l)[i].cmd # "ident"
        /\ \A i \in 1..Len(down[l]) : down[l][i].cmd # "request"

\* The records that are still to come are later than the counter and come in
\* their order.
AheadInv(l) ==
    /\ \A i \in Left(l) :
           \/ Pipe(l)[i].last = 0 \/ counterer_[l[1]] < Pipe(l)[i].first
           \/ Reading(l) /\ io.pc = "saving" /\ i = io.pos + 1
    /\ \A i, j \in Left(l) :
           i < j /\ Pipe(l)[j].last # 0 => Pipe(l)[i].last < Pipe(l)[j].first
    /\ OnLine(l) /\ sending[l[1]] # 0 =>
           /\ counterer_[l[1]] < sending[l[1]] /\ ~drained[l[1]]
           /\ \A i \in Left(l) : Pipe(l)[i].last < sending[l[1]]

\* The counter is the last record taken, but for those of the frame the
\* handler is at.
ExactInv(c) ==
    \A n \in Stored(c) :
        \/ n <= counterer_[c]
        \/ /\ io.pc = "frame" /\ io.link[1] = c /\ io.pos < Len(buffer_[io.link])
           /\ Frame.last # 0 /\ n < Frame.first + io.added

\* What was taken from a device it has made.
TakenIsMade == \A c \in Controller : \A n \in Stored(c) : n <= produced[c]

Calm == /\ \A l \in Link : HeldInv(l) /\ StartInv(l) /\ StartedInv(l) /\ AheadInv(l)
        /\ \A c \in Controller : ExactInv(c)
        /\ again = {}

CalmInv == faults = 0 => Calm

-----------------------------------------------------------------------------
(* What keeps the invariant of a connection.                               *)

CalmLink(l) == HeldInv(l) /\ StartInv(l) /\ StartedInv(l) /\ AheadInv(l)

LEMMA CalmKept ==
    ASSUME NEW l \in Link, CalmLink(l),
           buffer_'[l] = buffer_[l], up'[l] = up[l], down'[l] = down[l],
           protocol_state_'[l] = protocol_state_[l], counterer_'[l[1]] = counterer_[l[1]],
           Reading(l)' <=> Reading(l),
           Reading(l) => io'.pos = io.pos /\ (io.pc = "saving" => io'.pc = "saving"),
           OnLine(l)' <=> OnLine(l), OnLine(l) => open'[l],
           OnLine(l) => sending'[l[1]] = sending[l[1]] /\ drained'[l[1]] = drained[l[1]]
    PROVE  CalmLink(l)'
<1>1. Pipe(l)' = Pipe(l)
  BY DEF Pipe
<1>2. Done(l)' = Done(l)
  BY DEF Done
<1>3. Left(l)' = Left(l)
  BY <1>1, <1>2 DEF Left
<1>4. OnLine(l) => (Starting(l[1])' <=> Starting(l[1]))
  BY DEF Starting
<1>5. HeldInv(l)'
  BY DEF CalmLink, HeldInv
<1>6. StartInv(l)'
  BY <1>1, <1>2, <1>3, <1>4 DEF CalmLink, StartInv, Only, Told
<1>7. StartedInv(l)'
  BY <1>1, <1>3, <1>4 DEF CalmLink, StartedInv
<1>8. AheadInv(l)'
  BY <1>1, <1>3 DEF CalmLink, AheadInv
<1> QED
  BY <1>5, <1>6, <1>7, <1>8 DEF CalmLink

\* A connection that is not held is empty, and that is all there is to say.
LEMMA CalmOffline ==
    ASSUME NEW l \in Link, ~OnLine(l)', ~Reading(l)', buffer_'[l] = <<>>, up'[l] = <<>>,
           down'[l] = <<>>
    PROVE  CalmLink(l)'
<1>1. Pipe(l)' = <<>> /\ Done(l)' = 0
  BY DEF Pipe, Done
<1>2. Left(l)' = {}
  BY <1>1 DEF Left
<1> QED
  BY <1>2 DEF CalmLink, HeldInv, StartInv, StartedInv, AheadInv

\* A device has one connection with anything in it.
LEMMA OtherOffline ==
    ASSUME Inv, NEW k \in Link, OnLine(k)
    PROVE  \A l \in Link : l # k /\ l[1] = k[1] => ~OnLine(l)
BY LinkFacts DEF OnLine

\* The frame the handler is at.
LEMMA AtFrame ==
    ASSUME Inv, Calm, NEW k \in Link, io.link = k, io.pc # "idle",
           io.pos < Len(buffer_[k])
    PROVE  /\ OnLine(k) /\ Reading(k) /\ Done(k) = io.pos /\ io.pos \in Nat
           /\ Len(Pipe(k)) \in Nat /\ io.pos + 1 <= Len(Pipe(k))
           /\ io.pos + 1 \in Left(k) /\ Pipe(k)[io.pos + 1] = Frame /\ Frame \in UpFrame
<1>1. TypeInv /\ HeldInv(k)
  BY DEF Inv, Calm
<1>2. Reading(k) /\ Done(k) = io.pos /\ OnLine(k)
  BY <1>1 DEF Reading, Done, HeldInv
<1>3. Frame \in UpFrame /\ io.pos \in Nat /\ io.pos + 1 \in 1..Len(buffer_[k])
  BY <1>1, FrameType
<1>4. /\ Len(buffer_[k]) \in Nat /\ Len(up[k]) \in Nat
      /\ Len(Pipe(k)) = Len(buffer_[k]) + Len(up[k])
      /\ \A i \in 1..Len(buffer_[k]) : Pipe(k)[i] = buffer_[k][i]
  BY <1>1, PipeType
<1>5. Pipe(k)[io.pos + 1] = Frame
  BY <1>3, <1>4, Zenon DEF Frame
<1>6. Len(Pipe(k)) \in Nat /\ io.pos + 1 <= Len(Pipe(k))
  <2>1. io.pos \in Nat /\ io.pos + 1 <= Len(buffer_[k]) /\ Len(buffer_[k]) \in Nat
    BY <1>3, <1>4
  <2>2. Len(up[k]) \in Nat /\ Len(Pipe(k)) = Len(buffer_[k]) + Len(up[k])
    BY <1>4
  <2> DEFINE p == io.pos
             b == Len(buffer_[k])
             u == Len(up[k])
  <2>3. b + u \in Nat /\ p + 1 <= b + u
    <3>1. p \in Nat /\ b \in Nat /\ u \in Nat /\ p + 1 <= b
      BY <2>1, <2>2
    <3> HIDE DEF p, b, u
    <3> QED
      BY <3>1
  <2> QED
    BY <2>2, <2>3, Zenon
<1>7. io.pos + 1 \in Left(k)
  BY <1>2, <1>3, <1>6 DEF Left
<1> QED
  BY <1>2, <1>3, <1>5, <1>6, <1>7

\* A connection has not begun to upload when it is at its introduction or at
\* the confirmation that the server waits for; then nothing else is left.
LEMMA AtStart ==
    ASSUME Inv, Calm, NEW k \in Link, io.link = k, io.pc # "idle",
           io.pos < Len(buffer_[k])
    PROVE  /\ Starting(k[1]) => /\ Len(Pipe(k)) = io.pos + 1 /\ down[k] = <<>>
                                /\ \/ Frame.cmd = "ident"
                                   \/ /\ Frame.cmd = "confirm"
                                      /\ protocol_state_[k] = "wait_initial_delete_confirm"
           /\ ~Starting(k[1]) => /\ Frame.cmd # "ident"
                                 /\ protocol_state_[k] # "wait_initial_delete_confirm"
<1>1. /\ OnLine(k) /\ Done(k) = io.pos /\ io.pos + 1 \in Left(k) /\ Pipe(k)[io.pos + 1] = Frame
  BY AtFrame
<1>2. StartInv(k) /\ StartedInv(k) /\ Left(k) # {}
  BY <1>1 DEF Calm
<1> QED
  BY <1>1, <1>2 DEF StartInv, StartedInv, Only

\* Without faults an answer arrives.
LEMMA Arrives ==
    ASSUME Inv, Calm, NEW l \in Link, OnLine(l), NEW f \in DownFrame, Send(l, f),
           faults = 0, faults' = 0
    PROVE  /\ down'[l] = Append(down[l], f)
           /\ \A k \in Link : k # l => down'[k] = down[k]
           /\ down[l] = <<>> => Len(down'[l]) = 1 /\ down'[l][1] = f
           /\ Len(down[l]) \in Nat /\ Len(down'[l]) = Len(down[l]) + 1
           /\ \A i \in 1..Len(down[l]) : down'[l][i] = down[l][i]
           /\ down'[l][Len(down[l]) + 1] = f
<1>1. open[l]
  BY DEF Calm, HeldInv
<1>2. down \in [Link -> Seq(DownFrame)]
  BY DEF Inv, TypeInv
<1>3. down' = [down EXCEPT ![l] = Append(@, f)]
  BY <1>1 DEF Send, Deliver, FaultHappens
<1>4. down'[l] = Append(down[l], f) /\ \A k \in Link : k # l => down'[k] = down[k]
  BY <1>2, <1>3
<1>5. /\ Len(down[l]) \in Nat /\ Len(down'[l]) = Len(down[l]) + 1
      /\ \A i \in 1..Len(down[l]) : down'[l][i] = down[l][i]
      /\ down'[l][Len(down[l]) + 1] = f
  BY <1>2, <1>4, AppendProperties
<1>6. down[l] = <<>> => Len(down[l]) = 0
  OBVIOUS
<1> QED
  BY <1>4, <1>5, <1>6

\* The handler is done with a frame.
LEMMA Advance ==
    ASSUME Inv, Calm, NEW k \in Link, io.link = k, io.pc # "idle", io.pos < Len(buffer_[k]),
           NextFrame, UNCHANGED <<open, buffer_, counterer_, up, sending, drained, linked, used>>,
           \A l \in Link : l # k => /\ protocol_state_'[l] = protocol_state_[l]
                                    /\ down'[l] = down[l]
    PROVE  /\ \A l \in Link : l # k => CalmLink(l)'
           /\ HeldInv(k)' /\ AheadInv(k)'
           /\ Pipe(k)' = Pipe(k) /\ Done(k)' = io.pos + 1 /\ OnLine(k)'
           /\ Left(k)' = Left(k) \ {io.pos + 1}
           /\ Starting(k[1])' <=> Starting(k[1])
           /\ io'.pc = "frame" /\ io'.link = k /\ io'.pos = io.pos + 1 /\ io'.added = 0
<1>1. TypeInv /\ CalmLink(k)
  BY DEF Inv, Calm, CalmLink
<1>2. io'.pc = "frame" /\ io'.link = k /\ io'.pos = io.pos + 1 /\ io'.added = 0
  BY <1>1 DEF NextFrame, TypeInv
<1>3. /\ OnLine(k) /\ Reading(k) /\ Done(k) = io.pos /\ io.pos \in Nat
      /\ Len(Pipe(k)) \in Nat /\ io.pos + 1 \in Left(k)
  BY AtFrame
<1>4. ASSUME NEW l \in Link, l # k PROVE CalmLink(l)'
  <2>1. CalmLink(l)
    BY DEF Calm, CalmLink
  <2>2. ~Reading(l) /\ ~Reading(l)' /\ (OnLine(l)' <=> OnLine(l))
    BY <1>2, <1>4 DEF Reading, OnLine
  <2>3. OnLine(l) => open'[l]
    BY <2>1 DEF CalmLink, HeldInv
  <2> QED
    BY <1>4, <2>1, <2>2, <2>3, CalmKept
<1>5. /\ Pipe(k)' = Pipe(k) /\ Done(k)' = io.pos + 1 /\ OnLine(k)' /\ Reading(k)'
      /\ Starting(k[1])' <=> Starting(k[1])
  BY <1>2, <1>3 DEF Pipe, Done, Reading, OnLine, Starting
<1>6. Left(k)' = Left(k) \ {io.pos + 1}
  BY <1>3, <1>5 DEF Left
<1>7. HeldInv(k)'
  BY <1>1, <1>3, <1>5 DEF CalmLink, HeldInv
<1>8. AheadInv(k)'
  BY <1>1, <1>3, <1>5, <1>6 DEF CalmLink, AheadInv, OnLine
<1> QED
  BY <1>2, <1>4, <1>5, <1>6, <1>7, <1>8

\* Where the handler is done with a frame that has no records to take, or
\* whose records are counted, the counter is exact.
LEMMA AdvanceExact ==
    ASSUME Inv, Calm, NEW k \in Link, io.link = k, io.pos < Len(buffer_[k]),
           Frame.last = 0 \/ io.pc = "saving",
           UNCHANGED <<counterer_, stored>>
    PROVE  \A c \in Controller : ExactInv(c)'
<1>1. \A c \in Controller : ExactInv(c) /\ Stored(c)' = Stored(c)
  BY DEF Calm, Stored
<1>2. \A c \in Controller : \A n \in Stored(c)' : n <= counterer_'[c]
  BY <1>1 DEF ExactInv
<1> QED
  BY <1>2 DEF ExactInv

-----------------------------------------------------------------------------
(* Steps of the server.                                                    *)

LEMMA IdentCalm ==
    ASSUME Inv, Calm, faults = 0, faults' = 0, ProcessControllerIdent
    PROVE  Calm'
<1>1. PICK k \in Link : io.link = k
  BY DEF Inv, TypeInv
<1>2. TypeInv /\ k[1] \in Controller /\ Calm
  BY LinkFacts DEF Inv
<1>3. io.pc # "idle" /\ io.pos < Len(buffer_[k]) /\ Frame.cmd = "ident" /\ NextFrame
  BY <1>1 DEF ProcessControllerIdent, Busy, Frame
<1>4. UNCHANGED <<open, buffer_, counterer_, stored, again, up, sending, drained, linked, used>>
  BY DEF ProcessControllerIdent, counters, backend, device
<1>5. /\ Starting(k[1]) /\ Len(Pipe(k)) = io.pos + 1 /\ down[k] = <<>>
      /\ OnLine(k) /\ io.pos \in Nat /\ Frame \in UpFrame
  BY <1>1, <1>2, <1>3, AtStart, AtFrame
<1> DEFINE last == get_last_counter(k[1])
           f == IF last = 0 THEN Request(0) ELSE Delete(last)
<1>6. f \in DownFrame /\ f.cmd = (IF last = 0 THEN "request" ELSE "delete")
  <2>1. CASE last = 0
    BY <2>1, DownFrameFacts
  <2>2. CASE last # 0
    <3>1. Delete(last) \in DownFrame /\ Delete(last).cmd = "delete"
      BY <1>2, <2>2, CounterFrames DEF Delete
    <3> QED
      BY <2>2, <3>1
  <2> QED
    BY <2>1, <2>2
<1>7. last = 0 => f.last = 0
  BY DownFrameFacts
<1>8. /\ Send(k, f)
      /\ protocol_state_' = [protocol_state_ EXCEPT ![k] = IF last = 0 THEN "process_archive"
                                                   ELSE "wait_initial_delete_confirm"]
  BY <1>1 DEF ProcessControllerIdent, SendRequest, SendDelete
<1>9. last = counterer_[k[1]]
  BY DEF get_last_counter
<1> HIDE DEF f, last
<1>10. /\ Len(down'[k]) = 1 /\ down'[k][1] = f /\ \A l \in Link : l # k => down'[l] = down[l]
  BY <1>2, <1>5, <1>6, <1>8, Arrives
<1>11. /\ protocol_state_'[k] = (IF last = 0 THEN "process_archive"
                                 ELSE "wait_initial_delete_confirm")
       /\ \A l \in Link : l # k => protocol_state_'[l] = protocol_state_[l]
  BY <1>2, <1>8 DEF TypeInv
<1>12. /\ \A l \in Link : l # k => CalmLink(l)'
       /\ HeldInv(k)' /\ AheadInv(k)'
       /\ Pipe(k)' = Pipe(k) /\ Done(k)' = io.pos + 1 /\ Starting(k[1])'
  BY <1>1, <1>2, <1>3, <1>4, <1>5, <1>10, <1>11, Advance
<1>13. Left(k)' = {}
  BY <1>5, <1>12 DEF Left
<1>14. StartInv(k)' /\ StartedInv(k)'
  BY <1>4, <1>6, <1>7, <1>9, <1>10, <1>11, <1>12, <1>13 DEF StartInv, StartedInv, Told
<1>15. \A c \in Controller : ExactInv(c)'
  <2>1. Frame.last = 0
    BY <1>3, <1>5, UpFrameType
  <2> QED
    BY <1>1, <1>2, <1>3, <1>4, <2>1, AdvanceExact
<1> QED
  BY <1>4, <1>12, <1>14, <1>15 DEF Calm, CalmLink

\* A frame of an upload, and the confirmations during one: a delete may be
\* sent, and no request.
LEMMA UploadFrameCalm ==
    ASSUME Inv, Calm, faults = 0, faults' = 0, NEW k \in Link, io.link = k, io.pc # "idle",
           io.pos < Len(buffer_[k]), NextFrame, ~Starting(k[1]),
           UNCHANGED <<open, buffer_, counterer_, stored, again, up, sending, drained, linked, used>>,
           UNCHANGED <<down, faults>> \/ SendDelete(k, get_last_counter(k[1])),
           \/ protocol_state_' = protocol_state_
           \/ protocol_state_' = [protocol_state_ EXCEPT ![k] = "wait_final_delete_confirm"],
           Frame.last = 0 \/ io.pc = "saving"
    PROVE  Calm'
<1>1. TypeInv /\ k[1] \in Controller /\ StartedInv(k) /\ OnLine(k)
  BY LinkFacts, AtFrame DEF Inv, Calm
<1>2. /\ protocol_state_'[k] # "wait_initial_delete_confirm"
      /\ \A l \in Link : l # k => protocol_state_'[l] = protocol_state_[l]
  BY <1>1 DEF TypeInv, StartedInv
<1>3. /\ \A l \in Link : l # k => down'[l] = down[l]
      /\ \A i \in 1..Len(down'[k]) : down'[k][i].cmd # "request"
  <2> DEFINE last == get_last_counter(k[1])
  <2>1. CASE UNCHANGED down
    BY <1>1, <2>1 DEF StartedInv
  <2>2. CASE last # 0 /\ Send(k, Delete(last))
    <3>1. Delete(last) \in DownFrame /\ Delete(last).cmd = "delete"
      BY <1>1, <2>2, CounterFrames DEF Delete
    <3>2. /\ Len(down[k]) \in Nat /\ Len(down'[k]) = Len(down[k]) + 1
          /\ \A i \in 1..Len(down[k]) : down'[k][i] = down[k][i]
          /\ down'[k][Len(down[k]) + 1] = Delete(last)
          /\ \A l \in Link : l # k => down'[l] = down[l]
      BY <1>1, <2>2, <3>1, Arrives
    <3>3. \A i \in 1..Len(down'[k]) : i \in 1..Len(down[k]) \/ i = Len(down[k]) + 1
      BY <3>2
    <3> HIDE DEF last
    <3> QED
      BY <1>1, <3>1, <3>2, <3>3 DEF StartedInv
  <2> QED
    BY <2>1, <2>2 DEF SendDelete
<1>4. /\ \A l \in Link : l # k => CalmLink(l)'
      /\ HeldInv(k)' /\ AheadInv(k)'
      /\ Pipe(k)' = Pipe(k) /\ ~Starting(k[1])' /\ Left(k)' \subseteq Left(k)
  BY <1>2, <1>3, Advance
<1>5. StartInv(k)' /\ StartedInv(k)'
  BY <1>1, <1>2, <1>3, <1>4 DEF StartInv, StartedInv
<1>6. \A c \in Controller : ExactInv(c)'
  BY AdvanceExact
<1> QED
  BY <1>4, <1>5, <1>6 DEF Calm, CalmLink

LEMMA ConfirmationCalm ==
    ASSUME Inv, Calm, faults = 0, faults' = 0, ProcessDeleteConfirmation
    PROVE  Calm'
<1>1. PICK k \in Link : io.link = k
  BY DEF Inv, TypeInv
<1>2. TypeInv /\ k[1] \in Controller /\ Calm
  BY LinkFacts DEF Inv
<1>3. io.pc # "idle" /\ io.pos < Len(buffer_[k]) /\ Frame.cmd = "confirm" /\ NextFrame
  BY <1>1 DEF ProcessDeleteConfirmation, Busy, Frame
<1>4. UNCHANGED <<open, buffer_, counterer_, stored, again, up, sending, drained, linked, used>>
  BY DEF ProcessDeleteConfirmation, counters, backend, device
<1>5. OnLine(k) /\ io.pos \in Nat /\ Frame \in UpFrame /\ Frame.last = 0
  BY <1>1, <1>2, <1>3, AtFrame, UpFrameType
<1>6. CASE ~Starting(k[1])
  <2>1. protocol_state_[k] # "wait_initial_delete_confirm"
    BY <1>1, <1>2, <1>3, <1>6, AtStart
  <2>2. UNCHANGED <<down, faults, protocol_state_>>
    BY <1>1, <2>1 DEF ProcessDeleteConfirmation
  <2> QED
    BY <1>1, <1>2, <1>3, <1>4, <1>5, <1>6, <2>2, UploadFrameCalm
<1>7. CASE Starting(k[1])
  <2>1. /\ Len(Pipe(k)) = io.pos + 1 /\ down[k] = <<>>
        /\ protocol_state_[k] = "wait_initial_delete_confirm"
    BY <1>1, <1>2, <1>3, <1>7, AtStart
  <2>2. controller_id_[k] = k[1]
    BY <1>1, <1>3, Identified
  <2> DEFINE last == get_last_counter(k[1])
             f == Request(IF last = 0 THEN 0 ELSE last + 1)
  <2>3. /\ Send(k, f) /\ protocol_state_' = [protocol_state_ EXCEPT ![k] = "process_archive"]
    BY <1>1, <2>1, <2>2 DEF ProcessDeleteConfirmation, SendRequest
  <2>4. f \in DownFrame
    BY <1>2, CounterFrames
  <2>5. f.cmd = "request" /\ f.last = IF last = 0 THEN 0 ELSE last + 1
    BY DEF Request
  <2>6. last = counterer_[k[1]]
    BY DEF get_last_counter
  <2> HIDE DEF f, last
  <2>7. /\ Len(down'[k]) = 1 /\ down'[k][1] = f /\ \A l \in Link : l # k => down'[l] = down[l]
    BY <1>2, <1>5, <2>1, <2>3, <2>4, Arrives
  <2>8. /\ protocol_state_'[k] = "process_archive"
        /\ \A l \in Link : l # k => protocol_state_'[l] = protocol_state_[l]
    BY <1>2, <2>3 DEF TypeInv
  <2>9. /\ \A l \in Link : l # k => CalmLink(l)'
        /\ HeldInv(k)' /\ AheadInv(k)'
        /\ Pipe(k)' = Pipe(k) /\ Done(k)' = io.pos + 1 /\ Starting(k[1])'
    BY <1>1, <1>2, <1>3, <1>4, <1>7, <2>7, <2>8, Advance
  <2>10. Left(k)' = {}
    BY <1>5, <2>1, <2>9 DEF Left
  <2>11. StartInv(k)' /\ StartedInv(k)'
    BY <1>4, <2>5, <2>6, <2>7, <2>8, <2>9, <2>10 DEF StartInv, StartedInv, Told
  <2>12. \A c \in Controller : ExactInv(c)'
    BY <1>1, <1>2, <1>3, <1>4, <1>5, AdvanceExact
  <2> QED
    BY <1>4, <2>9, <2>11, <2>12 DEF Calm, CalmLink
<1> QED
  BY <1>6, <1>7

LEMMA ArchiveEndCalm ==
    ASSUME Inv, Calm, faults = 0, faults' = 0, ProcessArchiveEnd
    PROVE  Calm'
<1>1. PICK k \in Link : io.link = k
  BY DEF Inv, TypeInv
<1>2. /\ io.pc # "idle" /\ io.pos < Len(buffer_[k]) /\ Frame.cmd = "archive" /\ Frame.last = 0
      /\ NextFrame
  BY <1>1 DEF ProcessArchiveEnd, Busy, Frame
<1>3. UNCHANGED <<open, buffer_, counterer_, stored, again, up, sending, drained, linked, used>>
  BY DEF ProcessArchiveEnd, counters, backend, device
<1>4. ~Starting(k[1]) /\ controller_id_[k] = k[1]
  BY <1>1, <1>2, AtStart, Identified
<1>5. /\ SendDelete(k, get_last_counter(k[1]))
      /\ protocol_state_' = [protocol_state_ EXCEPT ![k] = "wait_final_delete_confirm"]
  BY <1>1, <1>4 DEF ProcessArchiveEnd
<1> QED
  BY <1>1, <1>2, <1>3, <1>4, <1>5, UploadFrameCalm

LEMMA RecordSavedCalm ==
    ASSUME Inv, Calm, faults = 0, faults' = 0, RecordSaved
    PROVE  Calm'
<1>1. PICK k \in Link : io.link = k
  BY DEF Inv, TypeInv
<1>2. io.pc = "saving" /\ io.pos < Len(buffer_[k]) /\ Frame.last # 0 /\ NextFrame
  BY <1>1 DEF RecordSaved, Inv, TypeInv
<1>3. UNCHANGED <<open, buffer_, counterer_, stored, again, up, sending, drained, linked, used>>
  BY DEF RecordSaved, backend, device
<1>4. Frame.cmd # "ident" /\ Frame.cmd # "confirm"
  BY <1>1, <1>2, AtFrame, UpFrameType
<1>5. ~Starting(k[1]) /\ controller_id_[k] = k[1]
  BY <1>1, <1>2, <1>4, AtStart, Identified
<1>6. /\ UNCHANGED <<down, faults>> \/ SendDelete(k, get_last_counter(k[1]))
      /\ \/ protocol_state_' = protocol_state_
         \/ protocol_state_' = [protocol_state_ EXCEPT ![k] = "wait_final_delete_confirm"]
  BY <1>1, <1>5 DEF RecordSaved
<1> QED
  BY <1>1, <1>2, <1>3, <1>5, <1>6, UploadFrameCalm

\* The record add_message is given, in a step that stores it.
LEMMA GivenRecord ==
    ASSUME Inv, StoreRecord
    PROVE  \E c \in Controller, n \in Record :
               /\ controller_id_[io.link] = c /\ Frame.first + io.added = n
               /\ n <= produced[c]
               /\ \A d : Stored(d)' = IF d = c THEN Stored(d) \cup {n} ELSE Stored(d)
<1>1. TypeInv /\ io.link \in Link /\ io.link[1] \in Controller /\ MadeInv(io.link)
  BY LinkFacts DEF Inv, TypeInv
<1>2. /\ io.pc = "frame" /\ io.pos < Len(buffer_[io.link]) /\ Frame.last # 0
      /\ Frame.cmd # "ident" /\ io.added < FrameLength
  BY DEF StoreRecord, DataFrame, Busy, Frame
<1>3. controller_id_[io.link] = io.link[1]
  BY <1>2, Identified
<1>4. /\ Frame \in UpFrame /\ io.pos + 1 \in 1..Len(buffer_[io.link]) /\ io.added \in Nat
  <2>1. io.added \in 0..MaxPacket
    BY <1>1 DEF TypeInv
  <2> QED
    BY <1>1, <1>2, <2>1, FrameType
<1>5. /\ Frame.first \in Nat /\ Frame.last \in Nat /\ Frame.first >= 1 /\ Frame.last <= MaxRecord
  BY <1>2, <1>4, UpFrameType DEF Record
<1>6. Frame.first + io.added \in Record /\ Frame.first + io.added <= Frame.last
  <2>1. io.added < Frame.last - Frame.first + 1
    BY <1>2 DEF FrameLength
  <2>2. /\ Frame.first + io.added \in Nat /\ Frame.first + io.added >= 1
        /\ Frame.first + io.added <= Frame.last
    BY <1>4, <1>5, <2>1
  <2>3. Frame.first + io.added <= MaxRecord
    BY <1>5, <2>2
  <2> QED
    BY <2>2, <2>3 DEF Record
<1>7. Frame.last <= produced[io.link[1]] /\ produced[io.link[1]] \in Nat
  <2>1. Pipe(io.link)[io.pos + 1] = Frame /\ io.pos + 1 \in 1..Len(Pipe(io.link))
    BY <1>1, <1>4, PipeType DEF Frame
  <2>2. produced \in [Controller -> 0..MaxRecord]
    BY <1>1 DEF TypeInv
  <2> QED
    BY <1>1, <2>1, <2>2 DEF MadeInv
<1>8. Frame.first + io.added <= produced[io.link[1]]
  BY <1>4, <1>5, <1>6, <1>7
<1>9. \A d : Stored(d)' = IF d = io.link[1] THEN Stored(d) \cup {Frame.first + io.added}
                                            ELSE Stored(d)
  <2> DEFINE record == [id |-> io.link[1], number |-> Frame.first + io.added,
                        label |-> (Frame.last - FrameLength) + io.added]
  <2>1. stored' = stored \cup {record}
    BY <1>3 DEF StoreRecord
  <2>2. record.id = io.link[1] /\ record.number = Frame.first + io.added
    OBVIOUS
  <2> HIDE DEF record
  <2>3. ASSUME NEW d PROVE Stored(d)' = IF d = io.link[1] THEN Stored(d) \cup {record.number}
                                                          ELSE Stored(d)
    <3>1. CASE d = io.link[1]
      BY <2>1, <2>2, <3>1 DEF Stored
    <3>2. CASE d # io.link[1]
      BY <2>1, <2>2, <3>2 DEF Stored
    <3> QED
      BY <3>1, <3>2
  <2> QED
    BY <2>2, <2>3
<1> QED
  BY <1>1, <1>3, <1>6, <1>8, <1>9


\* It is later than the records taken before.
LEMMA NewRecord ==
    ASSUME Inv, Calm, NEW k \in Link, io.link = k, io.pc = "frame",
           io.pos < Len(buffer_[k]), Frame.last # 0
    PROVE  /\ \A n \in Stored(k[1]) : n < Frame.first + io.added
           /\ counterer_[k[1]] < Frame.first
<1>1. TypeInv /\ k[1] \in Controller /\ AheadInv(k) /\ ExactInv(k[1])
  BY LinkFacts DEF Inv, Calm
<1>2. io.pos + 1 \in Left(k) /\ Pipe(k)[io.pos + 1] = Frame /\ Frame \in UpFrame
  BY AtFrame
<1>3. counterer_[k[1]] < Frame.first
  BY <1>1, <1>2 DEF AheadInv
<1>4. counterer_[k[1]] \in Nat /\ Frame.first \in Nat /\ io.added \in Nat
  <2>1. counterer_ \in [Controller \cup {NoController} -> 0..MaxRecord] /\ io.added \in 0..MaxPacket
    BY <1>1 DEF TypeInv
  <2> QED
    BY <1>1, <1>2, <2>1, UpFrameType
<1>5. \A n \in Stored(k[1]) : n \in Nat
  <2>1. \A r \in stored : r.number \in Record
    BY <1>1 DEF TypeInv
  <2> QED
    BY <2>1 DEF Stored, Record
<1>6. ASSUME NEW n \in Stored(k[1]) PROVE n < Frame.first + io.added
  <2>1. n <= counterer_[k[1]] \/ n < Frame.first + io.added
    BY <1>1 DEF ExactInv
  <2>2. n \in Nat
    BY <1>5
  <2> QED
    BY <1>3, <1>4, <2>1, <2>2
<1> QED
  BY <1>3, <1>6

LEMMA StoreRecordCalm ==
    ASSUME Inv, Calm, StoreRecord
    PROVE  Calm'
<1>1. PICK k \in Link : io.link = k
  BY DEF Inv, TypeInv
<1>2. /\ io.pc = "frame" /\ io.pos < Len(buffer_[k]) /\ Frame.last # 0
      /\ Frame.cmd # "ident" /\ TypeInv
  BY <1>1 DEF StoreRecord, DataFrame, Busy, Frame, Inv
<1>3. UNCHANGED <<open, buffer_, protocol_state_, counterer_, up, down, sending, drained,
                  linked, used>>
  BY DEF StoreRecord, protocol, counters, device
<1>4. /\ io'.pc = "frame" /\ io'.link = k /\ io'.pos = io.pos /\ io'.added = io.added + 1
      /\ io.added \in Nat
  BY <1>1, <1>2 DEF StoreRecord, TypeInv
<1>5. ASSUME NEW l \in Link PROVE CalmLink(l)'
  <2>1. CalmLink(l) /\ (OnLine(l) => open'[l])
    BY <1>3 DEF Calm, CalmLink, HeldInv
  <2>2. (Reading(l)' <=> Reading(l)) /\ (OnLine(l)' <=> OnLine(l))
    BY <1>1, <1>2, <1>3, <1>4 DEF Reading, OnLine
  <2> QED
    BY <1>2, <1>3, <1>4, <2>1, <2>2, CalmKept
<1>6. PICK c \in Controller, n \in Record :
          /\ controller_id_[k] = c /\ Frame.first + io.added = n
          /\ \A d : Stored(d)' = IF d = c THEN Stored(d) \cup {n} ELSE Stored(d)
  BY <1>1, GivenRecord
<1>7. c = k[1]
  BY <1>1, <1>2, <1>6, Identified
<1>8. Frame' = Frame
  BY <1>1, <1>3, <1>4 DEF Frame
<1>9. Frame.first \in Nat
  BY <1>1, <1>2, AtFrame, UpFrameType
<1>10. ASSUME NEW d \in Controller PROVE ExactInv(d)'
  <2>1. ExactInv(d)
    BY DEF Calm
  <2>2. CASE d # c
    <3>1. Stored(d)' = Stored(d) /\ io.link[1] # d
      BY <1>1, <1>6, <1>7, <2>2
    <3> QED
      BY <1>3, <2>1, <3>1 DEF ExactInv
  <2>3. CASE d = c
    <3>1. \A m \in Stored(d)' : m < Frame.first + (io.added + 1)
      <4>1. \A m \in Stored(d) : m < Frame.first + io.added
        BY <1>1, <1>2, <1>7, <2>3, NewRecord
      <4>2. \A m \in Stored(d) : m \in Nat
        <5>1. \A r \in stored : r.number \in Record
          BY <1>2 DEF TypeInv
        <5> QED
          BY <5>1 DEF Stored, Record
      <4>3. \A m \in Stored(d) : m < Frame.first + (io.added + 1)
        BY <1>4, <1>9, <4>1, <4>2
      <4>4. n < Frame.first + (io.added + 1)
        BY <1>4, <1>6, <1>9
      <4> QED
        BY <1>6, <2>3, <4>3, <4>4
    <3> QED
      BY <1>1, <1>2, <1>3, <1>4, <1>7, <1>8, <2>3, <3>1 DEF ExactInv
  <2> QED
    BY <2>2, <2>3
<1>11. again' = {}
  <2> DEFINE record == [id |-> controller_id_[k], number |-> Frame.first + io.added,
                        label |-> (Frame.last - FrameLength) + io.added]
  <2>1. again' = again \cup ({record} \cap stored)
    BY <1>1 DEF StoreRecord
  <2>2. record.id = k[1] /\ record.number = n
    BY <1>6, <1>7
  <2> HIDE DEF record
  <2>3. ASSUME record \in stored PROVE FALSE
    <3>1. n \in Stored(k[1])
      BY <2>2, <2>3 DEF Stored
    <3>2. n < n
      BY <1>1, <1>2, <1>6, <3>1, NewRecord
    <3> QED
      BY <3>2 DEF Record
  <2> QED
    BY <2>1, <2>3 DEF Calm
<1> QED
  BY <1>5, <1>10, <1>11 DEF Calm, CalmLink

LEMMA SetLastCounterCalm ==
    ASSUME Inv, Calm, SetLastCounter
    PROVE  Calm'
<1>1. PICK k \in Link : io.link = k
  BY DEF Inv, TypeInv
<1>2. /\ io.pc = "frame" /\ io.pos < Len(buffer_[k]) /\ Frame.last # 0 /\ io.added = FrameLength
      /\ Frame.cmd # "ident" /\ Frame.cmd # "confirm"
      /\ TypeInv /\ k[1] \in Controller
  BY <1>1, LinkFacts DEF SetLastCounter, DataFrame, Busy, Frame, Inv
<1>3. UNCHANGED <<open, buffer_, protocol_state_, stored, again, up, down, sending, drained,
                  linked, used>>
  BY DEF SetLastCounter, protocol, backend, device
<1>4. /\ io'.pc = "saving" /\ io'.link = k /\ io'.pos = io.pos
  BY <1>1, <1>2 DEF SetLastCounter, TypeInv
<1>5. /\ counterer_'[k[1]] = Frame.last
      /\ \A c \in Controller : c # k[1] => counterer_'[c] = counterer_[c]
  <2>1. controller_id_[k] = k[1]
    BY <1>1, <1>2, Identified
  <2>2. counterer_ \in [Controller \cup {NoController} -> 0..MaxRecord]
    BY <1>2 DEF TypeInv
  <2> QED
    BY <1>1, <1>2, <2>1, <2>2 DEF SetLastCounter
<1>6. /\ OnLine(k) /\ Reading(k) /\ Done(k) = io.pos /\ io.pos \in Nat
      /\ Len(Pipe(k)) \in Nat /\ io.pos + 1 \in Left(k) /\ Pipe(k)[io.pos + 1] = Frame
      /\ Frame \in UpFrame
  BY <1>1, <1>2, AtFrame
<1>7. ~Starting(k[1])
  BY <1>1, <1>2, AtStart
<1>8. ASSUME NEW l \in Link, l # k PROVE CalmLink(l)'
  <2>1. CalmLink(l) /\ (OnLine(l) => open'[l]) /\ l[1] \in Controller
    BY <1>3, LinkFacts DEF Calm, CalmLink, HeldInv
  <2>2. ~Reading(l) /\ ~Reading(l)' /\ (OnLine(l)' <=> OnLine(l))
    BY <1>1, <1>3, <1>4, <1>8 DEF Reading, OnLine
  <2>3. CASE l[1] # k[1]
    BY <1>3, <1>5, <2>1, <2>2, <2>3, CalmKept
  <2>4. CASE l[1] = k[1]
    <3>1. ~OnLine(l)
      BY <1>6, <1>8, <2>4, OtherOffline
    <3> QED
      BY <1>3, <2>1, <2>2, <3>1, CalmOffline DEF CalmLink, HeldInv
  <2> QED
    BY <2>3, <2>4
<1>9. CalmLink(k)'
  <2>1. CalmLink(k)
    BY DEF Calm, CalmLink
  <2>2. /\ Pipe(k)' = Pipe(k) /\ Reading(k)' /\ Left(k)' = Left(k)
        /\ OnLine(k)' /\ ~Starting(k[1])'
    BY <1>3, <1>4, <1>6, <1>7 DEF Pipe, Reading, Left, Done, OnLine, Starting
  <2>3. HeldInv(k)' /\ StartInv(k)' /\ StartedInv(k)'
    BY <1>3, <1>6, <1>7, <2>1, <2>2 DEF CalmLink, HeldInv, StartInv, StartedInv
  <2>4. \A i \in Left(k) : i = io.pos + 1 \/ io.pos + 1 < i
    BY <1>6 DEF Left
  <2>5. AheadInv(k)'
    BY <1>3, <1>4, <1>5, <1>6, <2>1, <2>2, <2>4 DEF CalmLink, AheadInv
  <2> QED
    BY <2>3, <2>5 DEF CalmLink
<1>10. ASSUME NEW d \in Controller PROVE ExactInv(d)'
  <2>1. ExactInv(d) /\ Stored(d)' = Stored(d)
    BY <1>3 DEF Calm, Stored
  <2>2. CASE d # k[1]
    BY <1>1, <1>5, <2>1, <2>2 DEF ExactInv
  <2>3. CASE d = k[1]
    <3>1. \A n \in Stored(d) : n < Frame.first + FrameLength
      BY <1>1, <1>2, <2>3, NewRecord
    <3>2. Frame.first \in Nat /\ Frame.last \in Nat
      BY <1>6, UpFrameType
    <3>3. \A r \in stored : r.number \in Record
      BY <1>2 DEF TypeInv
    <3>4. \A n \in Stored(d) : n \in Nat
      BY <3>3 DEF Stored, Record
    <3>5. Frame.first + FrameLength = Frame.last + 1
      BY <3>2 DEF FrameLength
    <3>6. \A n \in Stored(d) : n <= Frame.last
      BY <3>1, <3>2, <3>4, <3>5
    <3> QED
      BY <1>5, <2>1, <2>3, <3>6 DEF ExactInv
  <2> QED
    BY <2>2, <2>3
<1> QED
  BY <1>3, <1>8, <1>9, <1>10 DEF Calm, CalmLink

LEMMA ReceiveCalm ==
    ASSUME Inv, Calm, NEW k \in Link, Receive(k)
    PROVE  Calm'
<1>1. TypeInv /\ CalmLink(k)
  BY DEF Inv, Calm, CalmLink
<1>2. UNCHANGED <<open, protocol_state_, counterer_, stored, again, down, sending, drained,
                  linked, used>>
  BY DEF Receive, counters, backend, device
<1>3. io.pc = "idle" /\ io'.pc = "frame" /\ io'.link = k /\ io'.pos = 0
  BY DEF Receive
<1>4. /\ \A l \in Link : Pipe(l)' = Pipe(l)
      /\ \A l \in Link : l # k => buffer_'[l] = buffer_[l] /\ up'[l] = up[l]
  BY <1>1, PipeReceive DEF Receive, TypeInv
<1>5. OnLine(k)
  <2>1. up[k] # <<>>
    BY DEF Receive
  <2> QED
    BY <1>1, <2>1 DEF CalmLink, HeldInv
<1>6. ASSUME NEW l \in Link, l # k PROVE CalmLink(l)'
  <2>1. CalmLink(l) /\ (OnLine(l) => open'[l])
    BY <1>2 DEF Calm, CalmLink, HeldInv
  <2>2. ~Reading(l) /\ ~Reading(l)' /\ (OnLine(l)' <=> OnLine(l))
    BY <1>2, <1>3, <1>6 DEF Reading, OnLine
  <2> QED
    BY <1>2, <1>4, <1>6, <2>1, <2>2, CalmKept
<1>7. CalmLink(k)'
  <2>1. /\ Pipe(k)' = Pipe(k) /\ Reading(k)' /\ ~Reading(k) /\ Done(k) = 0 /\ Done(k)' = 0
        /\ OnLine(k)' /\ (Starting(k[1])' <=> Starting(k[1]))
    BY <1>2, <1>3, <1>4, <1>5 DEF Reading, Done, OnLine, Starting
  <2>2. Left(k)' = Left(k)
    BY <2>1 DEF Left
  <2>3. HeldInv(k)'
    BY <1>1, <1>2, <1>5, <2>1 DEF CalmLink, HeldInv
  <2>4. StartInv(k)'
    BY <1>1, <1>2, <1>5, <2>1, <2>2 DEF CalmLink, StartInv, Only, Told
  <2>5. StartedInv(k)'
    BY <1>1, <1>2, <1>5, <2>1, <2>2 DEF CalmLink, StartedInv
  <2>6. AheadInv(k)'
    BY <1>1, <1>2, <1>5, <2>1, <2>2 DEF CalmLink, AheadInv
  <2> QED
    BY <2>3, <2>4, <2>5, <2>6 DEF CalmLink
<1>8. ASSUME NEW c \in Controller PROVE ExactInv(c)'
  BY <1>2, <1>3 DEF Calm, ExactInv, Stored
<1> QED
  BY <1>2, <1>6, <1>7, <1>8 DEF Calm, CalmLink

LEMMA ReceiveDoneCalm ==
    ASSUME Inv, Calm, ReceiveDone
    PROVE  Calm'
<1>1. PICK k \in Link : io.link = k
  BY DEF Inv, TypeInv
<1>2. TypeInv /\ CalmLink(k)
  BY DEF Inv, Calm, CalmLink
<1>3. UNCHANGED <<open, protocol_state_, counterer_, stored, again, up, down, sending, drained,
                  linked, used>>
  BY DEF ReceiveDone, counters, backend, device
<1>4. /\ io.pc = "frame" /\ io.pos = Len(buffer_[k]) /\ io'.pc = "idle"
      /\ buffer_' = [buffer_ EXCEPT ![k] = <<>>]
  BY <1>1, LinkFacts DEF ReceiveDone
<1>5. buffer_'[k] = <<>> /\ \A l \in Link : l # k => buffer_'[l] = buffer_[l]
  BY <1>2, <1>4 DEF TypeInv
<1>6. Reading(k) /\ OnLine(k) /\ \A l \in Link : ~Reading(l)'
  BY <1>1, <1>2, <1>4 DEF Reading, CalmLink, HeldInv
<1>7. ASSUME NEW l \in Link, l # k PROVE CalmLink(l)'
  <2>1. CalmLink(l) /\ (OnLine(l) => open'[l])
    BY <1>3 DEF Calm, CalmLink, HeldInv
  <2>2. ~Reading(l) /\ (OnLine(l)' <=> OnLine(l))
    BY <1>1, <1>3, <1>7 DEF Reading, OnLine
  <2> QED
    BY <1>3, <1>5, <1>6, <1>7, <2>1, <2>2, CalmKept
<1>8. CalmLink(k)'
  <2> DEFINE b == Len(buffer_[k])
             u == Len(up[k])
  <2>1. /\ b \in Nat /\ u \in Nat /\ Len(Pipe(k)) = b + u
        /\ \A i \in 1..u : Pipe(k)[b + i] = up[k][i]
    BY <1>2, PipeType
  <2>2. Pipe(k)' = up[k]
    BY <1>2, <1>3, <1>5, PipeType, ConcatEmptySeq DEF Pipe
  <2>3. Done(k) = b /\ Done(k)' = 0
    BY <1>4, <1>6 DEF Done
  <2>4. Left(k) = (b + 1)..(b + u) /\ Left(k)' = 1..u
    BY <2>1, <2>2, <2>3 DEF Left
  <2>5. OnLine(k)' /\ (Starting(k[1])' <=> Starting(k[1]))
    BY <1>3, <1>6 DEF OnLine, Starting
  <2> HIDE DEF b, u
  <2>6. ASSUME NEW i \in 1..u PROVE b + i \in Left(k) /\ Pipe(k)[b + i] = Pipe(k)'[i]
    BY <2>1, <2>2, <2>4
  <2>7. HeldInv(k)'
    BY <1>2, <1>3, <1>5, <1>6, <2>5 DEF CalmLink, HeldInv
  <2>8. StartInv(k)'
    <3>1. ASSUME NEW cmd, Only(k, cmd) PROVE Only(k, cmd)'
      <4>1. Len(Pipe(k)) = b + 1 /\ Pipe(k)[b + 1].cmd = cmd
        BY <2>3, <3>1 DEF Only
      <4>2. u = 1
        BY <2>1, <4>1
      <4>3. Pipe(k)[b + 1] = Pipe(k)'[1] /\ Len(up[k]) = 0 + 1
        BY <2>6, <4>2 DEF u
      <4> QED
        BY <2>2, <2>3, <4>1, <4>3 DEF Only
    <3>2. Left(k) = {} => Left(k)' = {}
      <4>1. \A i \in 1..u : b + i \in Left(k)
        BY <2>6
      <4> QED
        BY <2>4, <4>1
    <3>3. Only(k, "ident") => Only(k, "ident")'
      BY <3>1
    <3>4. Only(k, "confirm") => Only(k, "confirm")'
      BY <3>1
    <3> QED
      BY <1>2, <1>3, <1>6, <2>5, <3>2, <3>3, <3>4 DEF CalmLink, StartInv, Told
  <2>9. StartedInv(k)'
    <3>1. ~Starting(k[1]) => \A i \in 1..u : Pipe(k)'[i].cmd # "ident"
      BY <1>2, <1>6, <2>6 DEF CalmLink, StartedInv
    <3> QED
      BY <1>2, <1>3, <1>6, <2>4, <2>5, <3>1 DEF CalmLink, StartedInv
  <2>10. AheadInv(k)'
    <3>1. \A i \in 1..u : Pipe(k)'[i].last = 0 \/ counterer_'[k[1]] < Pipe(k)'[i].first
      <4>1. ASSUME NEW i \in 1..u
            PROVE  Pipe(k)[b + i].last = 0 \/ counterer_[k[1]] < Pipe(k)[b + i].first
        BY <1>2, <1>4, <2>6 DEF CalmLink, AheadInv
      <4> QED
        BY <1>3, <2>6, <4>1
    <3>2. ASSUME NEW i \in 1..u, NEW j \in 1..u, i < j, Pipe(k)'[j].last # 0
          PROVE  Pipe(k)'[i].last < Pipe(k)'[j].first
      <4>1. b + i < b + j
        BY <2>1, <3>2
      <4>2. b + i \in Left(k) /\ b + j \in Left(k) /\ Pipe(k)[b + j].last # 0
        BY <2>6, <3>2
      <4>3. Pipe(k)[b + i].last < Pipe(k)[b + j].first
        BY <1>2, <4>1, <4>2 DEF CalmLink, AheadInv
      <4> QED
        BY <2>6, <4>3
    <3>3. sending[k[1]] # 0 => /\ counterer_[k[1]] < sending[k[1]] /\ ~drained[k[1]]
                               /\ \A i \in 1..u : Pipe(k)'[i].last < sending[k[1]]
      <4>1. sending[k[1]] # 0 => /\ counterer_[k[1]] < sending[k[1]] /\ ~drained[k[1]]
                                 /\ \A i \in Left(k) : Pipe(k)[i].last < sending[k[1]]
        BY <1>2, <1>6 DEF CalmLink, AheadInv
      <4> QED
        BY <2>6, <4>1
    <3> QED
      BY <1>3, <2>4, <3>1, <3>2, <3>3 DEF AheadInv
  <2> QED
    BY <2>7, <2>8, <2>9, <2>10 DEF CalmLink
<1>9. ASSUME NEW c \in Controller PROVE ExactInv(c)'
  <2>1. Len(buffer_[k]) \in Nat
    BY <1>2, PipeType
  <2>2. ~(io.pos < Len(buffer_[io.link]))
    BY <1>1, <1>4, <2>1
  <2> QED
    BY <1>3, <2>2 DEF Calm, ExactInv, Stored
<1> QED
  BY <1>3, <1>7, <1>8, <1>9 DEF Calm, CalmLink

LEMMA PeerClosedCalm ==
    ASSUME Inv, Calm, NEW k \in Link, PeerClosed(k)
    PROVE  Calm'
<1>1. UNCHANGED <<buffer_, protocol_state_, io, counterer_, stored, again, up, down, sending,
                  drained, linked, used>>
  BY DEF PeerClosed, counters, backend, device
<1>2. ~OnLine(k) /\ open' = [open EXCEPT ![k] = FALSE] /\ open \in [Link -> BOOLEAN]
  BY DEF PeerClosed, Stop, Inv, TypeInv
<1>3. ASSUME NEW l \in Link PROVE CalmLink(l)'
  <2>1. CalmLink(l)
    BY DEF Calm, CalmLink
  <2>2. (Reading(l)' <=> Reading(l)) /\ (OnLine(l)' <=> OnLine(l))
    BY <1>1 DEF Reading, OnLine
  <2>3. OnLine(l) => open'[l]
    BY <1>2, <2>1 DEF CalmLink, HeldInv
  <2> QED
    BY <1>1, <2>1, <2>2, <2>3, CalmKept
<1>4. ASSUME NEW c \in Controller PROVE ExactInv(c)'
  BY <1>1 DEF Calm, ExactInv, Stored, Frame
<1> QED
  BY <1>1, <1>3, <1>4 DEF Calm, CalmLink

-----------------------------------------------------------------------------
(* The steps of the devices.                                               *)

\* The connection a device makes is empty, but for the introduction.
LEMMA ConnectCalm ==
    ASSUME Inv, Calm, NEW c \in Controller, Connect(c)
    PROVE  Calm'
<1> DEFINE k == <<c, used[c] + 1>>
<1>1. TypeInv
  BY DEF Inv
<1>2. UNCHANGED <<buffer_, protocol_state_, io, counterer_, stored, again, down, sending, drained>>
  BY DEF Connect, counters, backend
<1>3. k \in Link /\ k[1] = c /\ k[2] = used[c] + 1 /\ used[c] \in Nat
  <2>1. used \in [Controller -> 0..MaxConn] /\ used[c] < MaxConn
    BY <1>1 DEF Connect, TypeInv
  <2>2. used[c] \in Nat /\ used[c] + 1 \in 1..MaxConn
    BY <2>1
  <2> QED
    BY <2>2, LinkFacts
<1>4. /\ used' = [used EXCEPT ![c] = @ + 1] /\ linked' = [linked EXCEPT ![c] = TRUE]
      /\ open' = [open EXCEPT ![k] = TRUE] /\ up' = [up EXCEPT ![k] = <<Ident>>]
      /\ ~linked[c]
  BY DEF Connect
<1>5. /\ open \in [Link -> BOOLEAN] /\ up \in [Link -> Seq(UpFrame)]
      /\ used \in [Controller -> 0..MaxConn] /\ linked \in [Controller -> BOOLEAN]
  BY <1>1 DEF TypeInv
<1>6. /\ open'[k] = TRUE /\ up'[k] = <<Ident>> /\ used'[c] = used[c] + 1 /\ linked'[c] = TRUE
      /\ \A d \in Controller : d # c => used'[d] = used[d] /\ linked'[d] = linked[d]
      /\ \A l \in Link : l # k => open'[l] = open[l] /\ up'[l] = up[l]
  BY <1>3, <1>4, <1>5
<1> HIDE DEF k
<1>7. ASSUME NEW l \in Link, l # k PROVE CalmLink(l)'
  <2>1. CalmLink(l)
    BY DEF Calm, CalmLink
  <2>2. l[1] \in Controller /\ l = <<l[1], l[2]>> /\ k = <<k[1], k[2]>>
    BY <1>3, LinkFacts
  <2>3. l[1] = c => ~OnLine(l) /\ ~OnLine(l)'
    BY <1>3, <1>4, <1>6, <1>7, <2>2 DEF OnLine
  <2>4. (OnLine(l)' <=> OnLine(l)) /\ (OnLine(l) => open'[l])
    BY <1>6, <1>7, <2>1, <2>2, <2>3 DEF OnLine, CalmLink, HeldInv
  <2>5. Reading(l)' <=> Reading(l)
    BY <1>2 DEF Reading
  <2> QED
    BY <1>2, <1>6, <1>7, <2>1, <2>4, <2>5, CalmKept
<1>8. ASSUME NEW l \in Link, l = k PROVE CalmLink(l)'
  <2>1. /\ l[1] = c /\ l[2] = used[c] + 1 /\ up'[l] = <<Ident>> /\ open'[l] /\ OnLine(l)'
        /\ l[2] > used[l[1]]
    BY <1>3, <1>6, <1>8 DEF OnLine
  <2>2. ~Reading(l) /\ buffer_[l] = <<>> /\ down[l] = <<>>
    BY <2>1 DEF Inv, FreshInv, Active, Reading
  <2>3. Pipe(l)' = <<Ident>> /\ Done(l)' = 0 /\ ~Reading(l)'
    <3>1. <<Ident>> \in Seq(UpFrame)
      BY UpFrameFacts
    <3> QED
      BY <1>2, <2>1, <2>2, <3>1, ConcatEmptySeq DEF Pipe, Done, Reading
  <2>4. Left(l)' = {1} /\ Pipe(l)'[1].cmd = "ident" /\ Pipe(l)'[1].last = 0 /\ Len(Pipe(l)') = 1
    BY <2>3, UpFrameFacts DEF Left
  <2>5. sending'[c] = 0 /\ ~drained'[c]
    BY <1>2, <1>4 DEF Inv, DeviceInv
  <2>6. Only(l, "ident")' /\ down'[l] = <<>> /\ Starting(l[1])'
    BY <1>2, <2>1, <2>2, <2>3, <2>4, <2>5 DEF Only, Starting
  <2>7. HeldInv(l)' /\ StartInv(l)' /\ StartedInv(l)'
    BY <1>2, <2>1, <2>2, <2>3, <2>6 DEF HeldInv, StartInv, StartedInv
  <2>8. AheadInv(l)'
    BY <2>1, <2>4, <2>5 DEF AheadInv
  <2> QED
    BY <2>7, <2>8 DEF CalmLink
<1>9. ASSUME NEW d \in Controller PROVE ExactInv(d)'
  BY <1>2 DEF Calm, ExactInv, Stored, Frame
<1> QED
  BY <1>2, <1>7, <1>8, <1>9 DEF Calm, CalmLink

\* A connection that a device leaves when nothing fails is empty.
LEMMA LeaveCalm ==
    ASSUME Inv, Calm, NEW c \in Controller, Leave(c), Quiet(c) \/ NoticesClose(c)
    PROVE  Calm'
<1>1. TypeInv /\ linked[c]
  BY DEF Inv, Leave
<1>2. UNCHANGED <<open, buffer_, protocol_state_, io, counterer_, stored, again, up, used>>
  BY DEF Leave, protocol, counters, backend
<1>3. /\ linked' = [linked EXCEPT ![c] = FALSE] /\ sending' = [sending EXCEPT ![c] = 0]
      /\ drained' = [drained EXCEPT ![c] = FALSE]
      /\ down' = [down EXCEPT ![CurrentLink(c)] = <<>>]
  BY DEF Leave
<1>4. /\ linked \in [Controller -> BOOLEAN] /\ sending \in [Controller -> 0..MaxRecord + 1]
      /\ drained \in [Controller -> BOOLEAN] /\ down \in [Link -> Seq(DownFrame)]
  BY <1>1 DEF TypeInv
<1>5. /\ CurrentLink(c) \in Link
      /\ \A l \in Link : OnLine(l) /\ l[1] = c <=> l = CurrentLink(c)
  BY <1>1, CurrentLinkType
<1>6. Quiet(c)
  <2>1. open[CurrentLink(c)]
    BY <1>5 DEF Calm, HeldInv
  <2> QED
    BY <2>1 DEF NoticesClose
<1>7. ASSUME NEW l \in Link, l # CurrentLink(c) PROVE CalmLink(l)'
  <2>1. CalmLink(l) /\ l[1] \in Controller
    BY LinkFacts DEF Calm, CalmLink
  <2>2. (OnLine(l)' <=> OnLine(l)) /\ (Reading(l)' <=> Reading(l)) /\ (OnLine(l) => l[1] # c)
    BY <1>2, <1>3, <1>4, <1>5, <1>7, <2>1 DEF OnLine, Reading
  <2>3. OnLine(l) => /\ sending'[l[1]] = sending[l[1]] /\ drained'[l[1]] = drained[l[1]]
                     /\ open'[l]
    BY <1>2, <1>3, <1>4, <2>1, <2>2 DEF CalmLink, HeldInv
  <2>4. down'[l] = down[l]
    BY <1>3, <1>4, <1>7
  <2> QED
    BY <1>2, <2>1, <2>2, <2>3, <2>4, CalmKept
<1>8. ASSUME NEW l \in Link, l = CurrentLink(c) PROVE CalmLink(l)'
  <2>1. up[l] = <<>> /\ io.pc = "idle" /\ l[1] = c /\ HeldInv(l)
    BY <1>5, <1>6, <1>8 DEF Quiet, Calm
  <2>2. ~Reading(l) /\ ~Reading(l)' /\ ~OnLine(l)' /\ down'[l] = <<>>
    BY <1>2, <1>3, <1>4, <1>8, <2>1 DEF Reading, OnLine
  <2>3. buffer_'[l] = <<>> /\ up'[l] = <<>>
    BY <1>2, <2>1, <2>2 DEF HeldInv
  <2> QED
    BY <2>2, <2>3, CalmOffline
<1>9. ASSUME NEW d \in Controller PROVE ExactInv(d)'
  BY <1>2 DEF Calm, ExactInv, Stored, Frame
<1> QED
  BY <1>2, <1>7, <1>8, <1>9 DEF Calm, CalmLink

\* The other steps of a device concern the connection it holds.
LEMMA OwnLinkCalm ==
    ASSUME Inv, Calm, NEW c \in Controller, linked[c],
           UNCHANGED <<open, buffer_, protocol_state_, io, counterer_, stored, again, linked, used>>,
           \A d \in Controller : d # c => sending'[d] = sending[d] /\ drained'[d] = drained[d],
           \A l \in Link : l # CurrentLink(c) => up'[l] = up[l] /\ down'[l] = down[l],
           \A l \in Link : l = CurrentLink(c) => StartInv(l)' /\ StartedInv(l)' /\ AheadInv(l)'
    PROVE  Calm'
<1>1. TypeInv
  BY DEF Inv
<1>2. \A l \in Link : OnLine(l) /\ l[1] = c <=> l = CurrentLink(c)
  BY <1>1, CurrentLinkType
<1>3. ASSUME NEW l \in Link PROVE CalmLink(l)'
  <2>1. CalmLink(l) /\ l[1] \in Controller
    BY LinkFacts DEF Calm, CalmLink
  <2>2. (OnLine(l)' <=> OnLine(l)) /\ (Reading(l)' <=> Reading(l))
    BY DEF OnLine, Reading
  <2>3. CASE l # CurrentLink(c)
    <3>1. OnLine(l) => /\ sending'[l[1]] = sending[l[1]] /\ drained'[l[1]] = drained[l[1]]
                       /\ open'[l]
      BY <1>2, <2>1, <2>3 DEF CalmLink, HeldInv
    <3> QED
      BY <2>1, <2>2, <2>3, <3>1, CalmKept
  <2>4. CASE l = CurrentLink(c)
    <3>1. HeldInv(l)'
      BY <1>2, <2>1, <2>2, <2>4 DEF CalmLink, HeldInv
    <3> QED
      BY <2>4, <3>1 DEF CalmLink
  <2> QED
    BY <2>3, <2>4
<1>4. ASSUME NEW d \in Controller PROVE ExactInv(d)'
  BY DEF Calm, ExactInv, Stored, Frame
<1> QED
  BY <1>3, <1>4 DEF Calm, CalmLink

\* What is handled of a pipe is in it.
LEMMA DoneType ==
    ASSUME TypeInv, NEW l \in Link
    PROVE  /\ Done(l) \in Nat /\ Len(Pipe(l)) \in Nat /\ Done(l) <= Len(Pipe(l))
           /\ \A i \in Left(l) : /\ i \in 1..Len(Pipe(l)) /\ Pipe(l)[i] \in UpFrame
                                 /\ Pipe(l)[i].last \in Nat /\ Pipe(l)[i].first \in Nat
<1>1. Done(l) \in Nat /\ Done(l) <= Len(buffer_[l])
  <2>1. Len(buffer_[l]) \in Nat
    BY PipeType
  <2> QED
    BY <2>1 DEF TypeInv, Done, Reading
<1>2. /\ Pipe(l) \in Seq(UpFrame) /\ Len(buffer_[l]) \in Nat /\ Len(up[l]) \in Nat
      /\ Len(Pipe(l)) = Len(buffer_[l]) + Len(up[l])
  BY PipeType
<1>3. Len(Pipe(l)) \in Nat /\ Done(l) <= Len(Pipe(l))
  <2> DEFINE b == Len(buffer_[l])
             u == Len(up[l])
             d == Done(l)
             p == Len(Pipe(l))
  <2>1. d \in Nat /\ d <= b /\ b \in Nat /\ u \in Nat /\ p = b + u
    BY <1>1, <1>2
  <2> HIDE DEF b, u, d, p
  <2>2. p \in Nat /\ d <= p
    BY <2>1
  <2> QED
    BY <2>2 DEF d, p
<1>4. ASSUME NEW i \in Left(l)
      PROVE  /\ i \in 1..Len(Pipe(l)) /\ Pipe(l)[i] \in UpFrame
             /\ Pipe(l)[i].last \in Nat /\ Pipe(l)[i].first \in Nat
  <2>1. i \in 1..Len(Pipe(l))
    BY <1>1, <1>3 DEF Left
  <2>2. Pipe(l)[i] \in UpFrame
    BY <1>2, <2>1, ElementOfSeq
  <2> QED
    BY <2>1, <2>2, UpFrameType
<1> QED
  BY <1>1, <1>3, <1>4

\* A device sends a frame, with data that are later than what is under way or
\* without data, and goes on from a record that is later yet.
LEMMA Sent ==
    ASSUME Inv, Calm, NEW l \in Link, NEW f \in UpFrame, OnLine(l),
           UNCHANGED <<buffer_, io, counterer_, linked, used>>, up'[l] = Append(up[l], f),
           f.last # 0 => /\ counterer_[l[1]] < f.first
                         /\ \A i \in Left(l) : Pipe(l)[i].last < f.first,
           sending'[l[1]] # 0 => /\ counterer_[l[1]] < sending'[l[1]] /\ ~drained'[l[1]]
                                 /\ \A i \in Left(l) : Pipe(l)[i].last < sending'[l[1]]
                                 /\ f.last < sending'[l[1]]
    PROVE  /\ AheadInv(l)' /\ OnLine(l)' /\ Done(l)' = Done(l)
           /\ Len(Pipe(l)') = Len(Pipe(l)) + 1 /\ Pipe(l)'[Len(Pipe(l)) + 1] = f
           /\ Left(l)' = Left(l) \cup {Len(Pipe(l)) + 1}
           /\ \A i \in Left(l) : Pipe(l)'[i] = Pipe(l)[i]
<1>1. TypeInv /\ CalmLink(l)
  BY DEF Inv, Calm, CalmLink
<1>2. /\ Pipe(l)' = Append(Pipe(l), f) /\ Len(Pipe(l)') = Len(Pipe(l)) + 1 /\ Len(Pipe(l)) \in Nat
      /\ \A i \in 1..Len(Pipe(l)) : Pipe(l)'[i] = Pipe(l)[i]
      /\ Pipe(l)'[Len(Pipe(l)) + 1] = f
  BY <1>1, PipeAppend
<1>3. /\ Done(l) \in Nat /\ Done(l) <= Len(Pipe(l))
      /\ \A i \in Left(l) : i \in 1..Len(Pipe(l)) /\ Pipe(l)[i].last \in Nat
  BY <1>1, DoneType
<1>4. Done(l)' = Done(l) /\ OnLine(l)' /\ (Reading(l)' <=> Reading(l))
  BY DEF Done, Reading, OnLine
<1>5. /\ Left(l)' = Left(l) \cup {Len(Pipe(l)) + 1}
      /\ \A i \in Left(l) : i < Len(Pipe(l)) + 1 /\ ~(Len(Pipe(l)) + 1 < i) /\ i \in Nat
      /\ ~(Len(Pipe(l)) + 1 < Len(Pipe(l)) + 1)
  BY <1>2, <1>3, <1>4 DEF Left
<1>6. \A i \in Left(l) : Pipe(l)'[i] = Pipe(l)[i]
  BY <1>2, <1>3
<1>7. AheadInv(l)'
  <2> DEFINE n == Len(Pipe(l)) + 1
  <2>1. /\ \A i \in Left(l) : i < n /\ ~(n < i)
        /\ ~(n < n) /\ Left(l)' = Left(l) \cup {n} /\ Pipe(l)'[n] = f
    BY <1>2, <1>5
  <2> HIDE DEF n
  <2>2. \A i \in Left(l) \cup {n} :
            \/ Pipe(l)'[i].last = 0 \/ counterer_[l[1]] < Pipe(l)'[i].first
            \/ Reading(l) /\ io.pc = "saving" /\ i = io.pos + 1
    BY <1>1, <1>6, <2>1 DEF CalmLink, AheadInv
  <2>3. ASSUME NEW i \in Left(l) \cup {n}, NEW j \in Left(l) \cup {n}, i < j, Pipe(l)'[j].last # 0
        PROVE  Pipe(l)'[i].last < Pipe(l)'[j].first
    BY <1>1, <1>6, <2>1, <2>3 DEF CalmLink, AheadInv
  <2>4. sending'[l[1]] # 0 => \A i \in Left(l) \cup {n} : Pipe(l)'[i].last < sending'[l[1]]
    BY <1>6, <2>1
  <2> QED
    BY <1>4, <2>1, <2>2, <2>3, <2>4 DEF AheadInv
<1> QED
  BY <1>2, <1>4, <1>5, <1>6, <1>7

\* A device that is not starting sends.
LEMMA SentCalm ==
    ASSUME Inv, Calm, NEW c \in Controller, linked[c], NEW f \in UpFrame, f.cmd # "ident",
           ~Starting(c), ~Starting(c)',
           UNCHANGED <<open, buffer_, protocol_state_, io, counterer_, stored, again, down,
                       linked, used>>,
           up' = [up EXCEPT ![CurrentLink(c)] = Append(@, f)],
           \A d \in Controller : d # c => sending'[d] = sending[d] /\ drained'[d] = drained[d],
           \A l \in Link : l = CurrentLink(c) =>
               /\ f.last # 0 => /\ counterer_[c] < f.first
                                /\ \A i \in Left(l) : Pipe(l)[i].last < f.first
               /\ sending'[c] # 0 => /\ counterer_[c] < sending'[c] /\ ~drained'[c]
                                     /\ \A i \in Left(l) : Pipe(l)[i].last < sending'[c]
                                     /\ f.last < sending'[c]
    PROVE  Calm'
<1>1. TypeInv /\ up \in [Link -> Seq(UpFrame)]
  BY DEF Inv, TypeInv
<1>2. CurrentLink(c) \in Link /\ CurrentLink(c)[1] = c /\ OnLine(CurrentLink(c))
  BY <1>1, CurrentLinkType
<1>3. \A l \in Link : l # CurrentLink(c) => up'[l] = up[l]
  BY <1>1
<1>4. ASSUME NEW l \in Link, l = CurrentLink(c) PROVE StartInv(l)' /\ StartedInv(l)' /\ AheadInv(l)'
  <2>1. OnLine(l) /\ l[1] = c /\ up'[l] = Append(up[l], f)
    BY <1>1, <1>2, <1>4
  <2>2. /\ AheadInv(l)' /\ OnLine(l)' /\ Pipe(l)'[Len(Pipe(l)) + 1] = f
        /\ Left(l)' = Left(l) \cup {Len(Pipe(l)) + 1}
        /\ \A i \in Left(l) : Pipe(l)'[i] = Pipe(l)[i]
    BY <1>4, <2>1, Sent
  <2>3. ~Starting(l[1]) /\ ~Starting(l[1])'
    BY <2>1
  <2>4. /\ protocol_state_[l] # "wait_initial_delete_confirm"
        /\ \A i \in Left(l) : Pipe(l)[i].cmd # "ident"
        /\ \A i \in 1..Len(down[l]) : down[l][i].cmd # "request"
    BY <2>1, <2>3 DEF Calm, StartedInv
  <2>5. StartedInv(l)'
    BY <2>2, <2>4 DEF StartedInv
  <2> QED
    BY <2>2, <2>3, <2>5 DEF StartInv
<1> QED
  BY <1>3, <1>4, OwnLinkCalm

\* A record is sent as it is made when the archive is drained: it is later
\* than all that are taken and under way.
LEMMA ProduceCalm ==
    ASSUME Inv, Calm, TakenIsMade, NEW c \in Controller, Produce(c)
    PROVE  Calm'
<1>1. TypeInv
  BY DEF Inv
<1>2. UNCHANGED <<open, buffer_, protocol_state_, io, counterer_, stored, again, down, sending,
                  drained, linked, used>>
  BY DEF Produce, protocol, counters, backend
<1>3. CASE linked[c] /\ drained[c]
  <2> DEFINE f == Current(produced[c] + 1)
  <2>1. produced[c] \in Nat /\ produced[c] + 1 \in Record
    <3>1. produced \in [Controller -> 0..MaxRecord]
      BY <1>1 DEF TypeInv
    <3> QED
      BY <3>1 DEF Produce, Record
  <2>2. f \in UpFrame /\ f.first = produced[c] + 1 /\ f.last = produced[c] + 1 /\ f.cmd = "current"
    BY <2>1, UpFrameFacts DEF Current
  <2>3. up' = [up EXCEPT ![CurrentLink(c)] = Append(@, f)]
    BY <1>3 DEF Produce
  <2> HIDE DEF f
  <2>4. CurrentLink(c) \in Link /\ CurrentLink(c)[1] = c /\ OnLine(CurrentLink(c))
    BY <1>1, <1>3, CurrentLinkType
  <2>5. sending[c] = 0 /\ ~Starting(c) /\ ~Starting(c)'
    BY <1>2, <1>3, <2>4 DEF Calm, AheadInv, Starting
  <2>6. counterer_[c] \in Nat /\ counterer_[c] < produced[c] + 1
    <3>1. counterer_[c] \in Nat
      BY <1>1 DEF TypeInv
    <3>2. counterer_[c] # 0 => counterer_[c] \in Stored(c)
      BY <3>1 DEF Inv, DeviceInv
    <3> QED
      BY <2>1, <3>1, <3>2 DEF TakenIsMade
  <2>7. ASSUME NEW l \in Link, l = CurrentLink(c), NEW i \in Left(l)
        PROVE  Pipe(l)[i].last < produced[c] + 1
    <3>1. i \in 1..Len(Pipe(l)) /\ Pipe(l)[i].last \in Nat
      BY <1>1, DoneType
    <3>2. Pipe(l)[i].last <= produced[c]
      BY <2>4, <2>7, <3>1 DEF Inv, MadeInv
    <3> QED
      BY <2>1, <3>1, <3>2
  <2> QED
    BY <1>2, <1>3, <2>2, <2>3, <2>5, <2>6, <2>7, SentCalm
<1>4. CASE ~(linked[c] /\ drained[c])
  <2>1. up' = up
    BY <1>4 DEF Produce
  <2>2. ASSUME NEW l \in Link PROVE CalmLink(l)'
    <3>1. CalmLink(l) /\ (OnLine(l) => open'[l])
      BY <1>2 DEF Calm, CalmLink, HeldInv
    <3>2. (OnLine(l)' <=> OnLine(l)) /\ (Reading(l)' <=> Reading(l))
      BY <1>2 DEF OnLine, Reading
    <3> QED
      BY <1>2, <2>1, <3>1, <3>2, CalmKept
  <2>3. ASSUME NEW d \in Controller PROVE ExactInv(d)'
    BY <1>2 DEF Calm, ExactInv, Stored, Frame
  <2> QED
    BY <1>2, <2>2, <2>3 DEF Calm, CalmLink
<1> QED
  BY <1>3, <1>4

\* A packet of the archive starts where the upload is, and the upload goes on
\* after it.
LEMMA UploadCalm ==
    ASSUME Inv, Calm, NEW c \in Controller, Upload(c)
    PROVE  Calm'
<1>1. TypeInv /\ linked[c] /\ sending[c] # 0
  BY DEF Inv, Upload
<1>2. UNCHANGED <<open, buffer_, protocol_state_, io, counterer_, stored, again, down,
                  produced, linked, used>>
  BY DEF Upload, protocol, counters, backend
<1>3. /\ sending \in [Controller -> 0..MaxRecord + 1] /\ drained \in [Controller -> BOOLEAN]
      /\ produced \in [Controller -> 0..MaxRecord]
      /\ counterer_ \in [Controller \cup {NoController} -> 0..MaxRecord]
  BY <1>1 DEF TypeInv
<1>4. /\ sending[c] \in Nat /\ produced[c] \in 0..MaxRecord /\ produced[c] \in Nat
      /\ counterer_[c] \in Nat
  BY <1>3
<1>5. CurrentLink(c) \in Link /\ CurrentLink(c)[1] = c /\ OnLine(CurrentLink(c))
  BY <1>1, CurrentLinkType
<1>6. ASSUME NEW l \in Link, l = CurrentLink(c)
      PROVE  /\ counterer_[c] < sending[c] /\ ~drained[c]
             /\ \A i \in Left(l) : Pipe(l)[i].last < sending[c] /\ Pipe(l)[i].last \in Nat
  <2>1. AheadInv(l) /\ OnLine(l) /\ l[1] = c
    BY <1>5, <1>6 DEF Calm
  <2>2. \A i \in Left(l) : Pipe(l)[i].last \in Nat
    BY <1>1, DoneType
  <2> QED
    BY <1>1, <2>1, <2>2 DEF AheadInv
<1>7. ~Starting(c) /\ counterer_[c] < sending[c] /\ ~drained[c]
  BY <1>1, <1>5, <1>6 DEF Starting
<1>8. ASSUME NEW n \in sending[c]..produced[c], n < sending[c] + MaxPacket,
             up' = [up EXCEPT ![CurrentLink(c)] = Append(@, Archive(sending[c], n))],
             sending' = [sending EXCEPT ![c] = n + 1], UNCHANGED drained
      PROVE  Calm'
  <2> DEFINE f == Archive(sending[c], n)
  <2>1. sending[c] \in Record /\ n \in Record /\ sending[c] <= n /\ n \in Nat
    BY <1>1, <1>4 DEF Record
  <2>2. f \in UpFrame /\ f.first = sending[c] /\ f.last = n /\ f.cmd = "archive"
    BY <1>8, <2>1, UpFrameFacts DEF Archive
  <2>3. /\ sending'[c] = n + 1 /\ n + 1 # 0
        /\ \A d \in Controller : d # c => sending'[d] = sending[d] /\ drained'[d] = drained[d]
    BY <1>3, <1>8, <2>1
  <2>4. up' = [up EXCEPT ![CurrentLink(c)] = Append(@, f)]
    BY <1>8
  <2> HIDE DEF f
  <2>5. ~Starting(c)'
    BY <2>3 DEF Starting
  <2>6. counterer_[c] < n + 1 /\ n < n + 1
    BY <1>4, <1>7, <2>1
  <2>7. ASSUME NEW l \in Link, l = CurrentLink(c), NEW i \in Left(l)
        PROVE  Pipe(l)[i].last < sending[c] /\ Pipe(l)[i].last < n + 1
    <3>1. Pipe(l)[i].last < sending[c] /\ Pipe(l)[i].last \in Nat
      BY <1>6, <2>7
    <3> QED
      BY <1>4, <2>1, <3>1
  <2>8. \A l \in Link : l = CurrentLink(c) =>
            /\ f.last # 0 => /\ counterer_[c] < f.first
                             /\ \A i \in Left(l) : Pipe(l)[i].last < f.first
            /\ sending'[c] # 0 => /\ counterer_[c] < sending'[c] /\ ~drained'[c]
                                  /\ \A i \in Left(l) : Pipe(l)[i].last < sending'[c]
                                  /\ f.last < sending'[c]
    BY <1>7, <1>8, <2>2, <2>3, <2>6, <2>7
  <2> QED
    BY <1>1, <1>2, <1>7, <2>2, <2>3, <2>4, <2>5, <2>8, SentCalm
<1>9. ASSUME up' = [up EXCEPT ![CurrentLink(c)] = Append(@, ArchiveEnd)],
             sending' = [sending EXCEPT ![c] = 0], drained' = [drained EXCEPT ![c] = TRUE]
      PROVE  Calm'
  <2>1. ArchiveEnd \in UpFrame /\ ArchiveEnd.last = 0 /\ ArchiveEnd.cmd = "archive"
    BY UpFrameFacts DEF ArchiveEnd, Archive
  <2>2. /\ sending'[c] = 0 /\ drained'[c]
        /\ \A d \in Controller : d # c => sending'[d] = sending[d] /\ drained'[d] = drained[d]
    BY <1>3, <1>9
  <2>3. ~Starting(c)'
    BY <2>2 DEF Starting
  <2> QED
    BY <1>1, <1>2, <1>7, <1>9, <2>1, <2>2, <2>3, SentCalm
<1> QED
  BY <1>8, <1>9 DEF Upload

\* A device starts to upload once, where the counter ended, with nothing left
\* in its connection; and it confirms what it deletes.
LEMMA ObeyCalm ==
    ASSUME Inv, Calm, NEW c \in Controller, Obey(c)
    PROVE  Calm'
<1> DEFINE frame == Head(down[CurrentLink(c)])
<1>1. TypeInv /\ linked[c] /\ down[CurrentLink(c)] # <<>>
  BY DEF Inv, Obey
<1>2. UNCHANGED <<open, buffer_, protocol_state_, io, counterer_, stored, again, linked, used>>
  BY DEF Obey, protocol, counters, backend
<1>3. /\ up \in [Link -> Seq(UpFrame)] /\ down \in [Link -> Seq(DownFrame)]
      /\ sending \in [Controller -> 0..MaxRecord + 1] /\ drained \in [Controller -> BOOLEAN]
      /\ deleted \in [Controller -> 0..MaxRecord]
      /\ counterer_ \in [Controller \cup {NoController} -> 0..MaxRecord]
  BY <1>1 DEF TypeInv
<1>4. deleted[c] \in Nat /\ counterer_[c] \in Nat
  BY <1>3
<1>5. CurrentLink(c) \in Link /\ CurrentLink(c)[1] = c /\ OnLine(CurrentLink(c))
  BY <1>1, CurrentLinkType
<1>6. /\ down'[CurrentLink(c)] = Tail(down[CurrentLink(c)])
      /\ \A l \in Link : l # CurrentLink(c) => down'[l] = down[l]
  BY <1>3, <1>5 DEF Obey
<1>7. ASSUME NEW l \in Link, l = CurrentLink(c)
      PROVE  /\ OnLine(l) /\ OnLine(l)' /\ l[1] = c
             /\ StartInv(l) /\ StartedInv(l) /\ AheadInv(l)
             /\ Done(l)' = Done(l) /\ (Reading(l)' <=> Reading(l))
             /\ Done(l) \in Nat /\ Len(Pipe(l)) \in Nat /\ Done(l) <= Len(Pipe(l))
             /\ Len(down[l]) \in Nat \ {0} /\ down[l][1] = frame
             /\ Len(down'[l]) = Len(down[l]) - 1
             /\ \A i \in 1..Len(down'[l]) : i + 1 \in 1..Len(down[l]) /\ down'[l][i] = down[l][i + 1]
             /\ Len(down[l]) = 1 => down'[l] = <<>>
  <2>1. OnLine(l) /\ l[1] = c /\ StartInv(l) /\ StartedInv(l) /\ AheadInv(l)
    BY <1>5, <1>7 DEF Calm
  <2>2. OnLine(l)' /\ Done(l)' = Done(l) /\ (Reading(l)' <=> Reading(l))
    BY <1>2, <2>1 DEF OnLine, Done, Reading
  <2>3. Done(l) \in Nat /\ Len(Pipe(l)) \in Nat /\ Done(l) <= Len(Pipe(l))
    BY <1>1, DoneType
  <2>4. down[l] \in Seq(DownFrame) /\ down[l] # <<>> /\ down'[l] = Tail(down[l])
    BY <1>1, <1>3, <1>6, <1>7
  <2>5. /\ Len(down[l]) \in Nat \ {0} /\ down[l][1] = frame
        /\ Len(down'[l]) = Len(down[l]) - 1
        /\ \A i \in 1..Len(down'[l]) : i + 1 \in 1..Len(down[l]) /\ down'[l][i] = down[l][i + 1]
    BY <1>7, <2>4, HeadTailProperties, EmptySeq
  <2>6. Len(down[l]) = 1 => down'[l] = <<>>
    <3>1. down'[l] \in Seq(DownFrame)
      BY <2>4, HeadTailProperties
    <3> QED
      BY <2>5, <3>1, EmptySeq
  <2> QED
    BY <2>1, <2>2, <2>3, <2>5, <2>6
<1>8. \A l \in Link : l = CurrentLink(c) /\ Starting(c) =>
          /\ Left(l) = {} /\ Len(down[l]) = 1 /\ frame.cmd \in {"delete", "request"}
          /\ frame.cmd = "delete" => protocol_state_[l] = "wait_initial_delete_confirm"
          /\ frame.cmd = "request" =>
                 /\ protocol_state_[l] = "process_archive"
                 /\ frame.last = IF counterer_[c] = 0 THEN 0 ELSE counterer_[c] + 1
  BY <1>1, <1>7 DEF StartInv, Told
<1>9. ASSUME NEW l \in Link, l = CurrentLink(c), ~Starting(c)
      PROVE  /\ frame.cmd # "request"
             /\ protocol_state_[l] # "wait_initial_delete_confirm"
             /\ \A i \in Left(l) : Pipe(l)[i].cmd # "ident"
             /\ \A i \in 1..Len(down'[l]) : down'[l][i].cmd # "request"
  <2>1. /\ protocol_state_[l] # "wait_initial_delete_confirm"
        /\ \A i \in Left(l) : Pipe(l)[i].cmd # "ident"
        /\ \A i \in 1..Len(down[l]) : down[l][i].cmd # "request"
    BY <1>7, <1>9 DEF StartedInv
  <2>2. 1 \in 1..Len(down[l]) /\ down[l][1] = frame
    BY <1>7, <1>9
  <2>3. frame.cmd # "request"
    BY <2>1, <2>2
  <2>4. \A i \in 1..Len(down'[l]) : i + 1 \in 1..Len(down[l]) /\ down'[l][i] = down[l][i + 1]
    BY <1>7, <1>9
  <2>5. \A i \in 1..Len(down'[l]) : down'[l][i].cmd # "request"
    BY <2>1, <2>4
  <2> QED
    BY <2>1, <2>3, <2>5
<1>10. CASE frame.cmd = "request"
  <2> DEFINE next == IF frame.last > deleted[c] THEN frame.last ELSE deleted[c] + 1
  <2>1. /\ sending' = [sending EXCEPT ![c] = next] /\ drained' = [drained EXCEPT ![c] = FALSE]
        /\ UNCHANGED up
    BY <1>10 DEF Obey
  <2>2. Starting(c)
    BY <1>5, <1>9, <1>10
  <2>3. next \in Nat /\ counterer_[c] < next
    <3>1. frame.last = IF counterer_[c] = 0 THEN 0 ELSE counterer_[c] + 1
      BY <1>5, <1>8, <1>10, <2>2
    <3> HIDE DEF frame
    <3> QED
      BY <1>4, <3>1
  <2> HIDE DEF next
  <2>4. /\ sending'[c] = next /\ ~drained'[c]
        /\ \A d \in Controller : d # c => sending'[d] = sending[d] /\ drained'[d] = drained[d]
    BY <1>3, <2>1
  <2>5. sending'[c] # 0 /\ counterer_[c] < sending'[c] /\ ~Starting(c)'
    BY <1>4, <2>3, <2>4 DEF Starting
  <2>6. ASSUME NEW l \in Link, l = CurrentLink(c)
        PROVE  StartInv(l)' /\ StartedInv(l)' /\ AheadInv(l)'
    <3>1. Left(l) = {} /\ down'[l] = <<>> /\ protocol_state_[l] = "process_archive"
      BY <1>7, <1>8, <1>10, <2>2, <2>6
    <3>2. Pipe(l)' = Pipe(l)
      BY <1>2, <2>1 DEF Pipe
    <3>3. Left(l)' = {} /\ l[1] = c
      BY <1>7, <2>6, <3>1, <3>2 DEF Left
    <3>4. StartedInv(l)' /\ StartInv(l)'
      BY <1>2, <2>5, <3>1, <3>3 DEF StartedInv, StartInv
    <3>5. AheadInv(l)'
      BY <1>2, <2>4, <2>5, <3>3 DEF AheadInv
    <3> QED
      BY <3>4, <3>5
  <2> QED
    BY <1>1, <1>2, <1>6, <2>1, <2>4, <2>6, OwnLinkCalm
<1>11. CASE frame.cmd = "delete"
  <2>1. up' = [up EXCEPT ![CurrentLink(c)] = Append(@, Confirm)] /\ UNCHANGED <<sending, drained>>
    BY <1>11 DEF Obey
  <2>2. /\ up'[CurrentLink(c)] = Append(up[CurrentLink(c)], Confirm)
        /\ \A l \in Link : l # CurrentLink(c) => up'[l] = up[l]
    BY <1>3, <1>5, <2>1
  <2>3. Confirm \in UpFrame /\ Confirm.last = 0 /\ Confirm.cmd = "confirm"
    BY UpFrameFacts DEF Confirm
  <2>4. Starting(c)' <=> Starting(c)
    BY <2>1 DEF Starting
  <2>5. ASSUME NEW l \in Link, l = CurrentLink(c)
        PROVE  StartInv(l)' /\ StartedInv(l)' /\ AheadInv(l)'
    <3>1. OnLine(l) /\ l[1] = c /\ up'[l] = Append(up[l], Confirm)
      BY <1>7, <2>2, <2>5
    <3>2. sending'[c] # 0 => /\ counterer_[c] < sending'[c] /\ ~drained'[c]
                             /\ \A i \in Left(l) : Pipe(l)[i].last < sending'[c]
                             /\ Confirm.last < sending'[c]
      <4>1. sending[c] \in Nat /\ (sending[c] # 0 => 0 < sending[c])
        BY <1>3
      <4> QED
        BY <1>7, <2>1, <2>3, <2>5, <4>1 DEF AheadInv
    <3>3. /\ AheadInv(l)' /\ OnLine(l)' /\ Done(l)' = Done(l)
          /\ Len(Pipe(l)') = Len(Pipe(l)) + 1 /\ Pipe(l)'[Len(Pipe(l)) + 1] = Confirm
          /\ Left(l)' = Left(l) \cup {Len(Pipe(l)) + 1}
          /\ \A i \in Left(l) : Pipe(l)'[i] = Pipe(l)[i]
      BY <1>2, <2>3, <3>1, <3>2, Sent
    <3>4. Starting(c) => StartInv(l)'
      <4> SUFFICES ASSUME Starting(c) PROVE StartInv(l)'
        OBVIOUS
      <4>1. /\ Left(l) = {} /\ down'[l] = <<>>
            /\ protocol_state_[l] = "wait_initial_delete_confirm"
        BY <1>7, <1>8, <1>11, <2>5
      <4>2. Done(l) = Len(Pipe(l))
        BY <1>7, <2>5, <4>1, SMTT(30) DEF Left
      <4>3. Only(l, "confirm")'
        BY <2>3, <3>3, <4>2 DEF Only
      <4> QED
        BY <1>2, <4>1, <4>3 DEF StartInv
    <3>5. ~Starting(c) => StartedInv(l)'
      BY <1>2, <1>9, <2>3, <2>5, <3>3 DEF StartedInv
    <3>6. Starting(l[1])' <=> Starting(c)
      BY <2>4, <3>1
    <3> QED
      BY <3>3, <3>4, <3>5, <3>6 DEF StartInv, StartedInv
  <2> QED
    BY <1>1, <1>2, <1>6, <2>1, <2>2, <2>5, OwnLinkCalm
<1>12. CASE frame.cmd = "garbage"
  <2>1. UNCHANGED <<up, sending, drained>> /\ ~Starting(c)
    BY <1>5, <1>8, <1>12 DEF Obey
  <2>2. ASSUME NEW l \in Link, l = CurrentLink(c)
        PROVE  StartInv(l)' /\ StartedInv(l)' /\ AheadInv(l)'
    <3>1. Pipe(l)' = Pipe(l) /\ l[1] = c
      BY <1>2, <1>7, <2>1, <2>2 DEF Pipe
    <3>2. Left(l)' = Left(l)
      BY <1>7, <2>2, <3>1 DEF Left
    <3>3. ~Starting(l[1])'
      BY <2>1, <3>1 DEF Starting
    <3>4. StartedInv(l)' /\ StartInv(l)'
      BY <1>2, <1>9, <2>1, <2>2, <3>1, <3>2, <3>3 DEF StartedInv, StartInv
    <3>5. AheadInv(l)'
      BY <1>2, <1>7, <2>1, <2>2, <3>1, <3>2 DEF AheadInv
    <3> QED
      BY <3>4, <3>5
  <2> QED
    BY <1>1, <1>2, <1>6, <2>1, <2>2, OwnLinkCalm
<1> QED
  BY <1>10, <1>11, <1>12 DEF Obey

-----------------------------------------------------------------------------
(* Records and faults.                                                     *)

\* What a step of the protocol that stores nothing may do to the records of
\* the devices.
LEMMA SessionSteps ==
    ASSUME TypeInv, Handle \/ StoreRefuses \/ SaveFails \/ \E c \in Controller : Device(c)
    PROVE  /\ stored' = stored /\ faults' \in {faults, faults + 1}
           /\ \/ UNCHANGED <<produced, deleted>>
              \/ \E c \in Controller : Produce(c)
              \/ \E c \in Controller : Obey(c)
<1> USE DEF backend, device
<1>1. ASSUME NEW l, NEW frame, Send(l, frame) PROVE faults' \in {faults, faults + 1}
  BY <1>1 DEF Send, Deliver, FaultHappens
<1>2. CASE Handle
  <2>1. CASE ProcessControllerIdent
    BY <1>1, <2>1 DEF ProcessControllerIdent, SendRequest, SendDelete
  <2>2. CASE ProcessDeleteConfirmation
    BY <1>1, <2>2 DEF ProcessDeleteConfirmation, SendRequest
  <2>3. CASE ProcessArchiveEnd
    BY <1>1, <2>3 DEF ProcessArchiveEnd, SendDelete
  <2>4. CASE RecordSaved
    BY <1>1, <2>4 DEF RecordSaved, SendDelete
  <2>5. CASE SetLastCounter \/ ReceiveDone
    BY <2>5 DEF SetLastCounter, ReceiveDone
  <2>6. CASE \E l \in Link : Receive(l) \/ PeerClosed(l)
    BY <2>6 DEF Receive, PeerClosed
  <2> QED
    BY <1>2, <2>1, <2>2, <2>3, <2>4, <2>5, <2>6 DEF Handle
<1>3. CASE StoreRefuses \/ SaveFails
  BY <1>3 DEF StoreRefuses, SaveFails, FaultHappens
<1>4. ASSUME NEW c \in Controller, Device(c)
      PROVE  /\ stored' = stored /\ faults' \in {faults, faults + 1}
             /\ UNCHANGED <<produced, deleted>> \/ Produce(c) \/ Obey(c)
  <2>1. CASE LinkBreaks(c) \/ NoticesClose(c) \/ Hangup(c) \/ DeviceTimeout(c)
    BY <2>1 DEF LinkBreaks, NoticesClose, Hangup, DeviceTimeout, Leave, FaultHappens
  <2>2. CASE Connect(c) \/ Upload(c)
    BY <2>2 DEF Connect, Upload
  <2>3. CASE Produce(c) \/ Obey(c)
    BY <2>3 DEF Produce, Obey
  <2> QED
    BY <1>4, <2>1, <2>2, <2>3 DEF Device, Talk
<1> QED
  BY <1>2, <1>3, <1>4

\* A device only makes records and gives up records that were taken.
LEMMA DeviceRecords ==
    ASSUME Inv, NEW c \in Controller, Produce(c) \/ Obey(c)
    PROVE  /\ \A d \in Controller : /\ d # c => produced'[d] = produced[d] /\ deleted'[d] = deleted[d]
                                    /\ produced[d] \in Nat /\ deleted[d] \in Nat
                                    /\ produced'[d] \in Nat /\ deleted'[d] \in Nat
           /\ produced'[c] >= produced[c] /\ deleted'[c] >= deleted[c]
<1>1. TypeInv /\ TypeInv'
  BY NextTypeInv DEF Inv, Next, Device, Talk
<1>2. /\ produced \in [Controller -> 0..MaxRecord] /\ deleted \in [Controller -> 0..MaxRecord]
      /\ produced' \in [Controller -> 0..MaxRecord] /\ deleted' \in [Controller -> 0..MaxRecord]
  BY <1>1 DEF TypeInv
<1>3. \A d \in Controller : /\ produced[d] \in Nat /\ deleted[d] \in Nat
                            /\ produced'[d] \in Nat /\ deleted'[d] \in Nat
  BY <1>2
<1>4. CASE Produce(c)
  BY <1>2, <1>3, <1>4 DEF Produce
<1>5. CASE Obey(c)
  <2> DEFINE frame == Head(down[CurrentLink(c)])
  <2>1. produced' = produced
    BY <1>5 DEF Obey
  <2>2. CASE UNCHANGED deleted
    BY <1>3, <2>1, <2>2
  <2>3. CASE /\ frame.cmd = "delete"
             /\ deleted' = [deleted EXCEPT ![c] = IF frame.last > @ THEN frame.last ELSE @]
    <3>1. /\ deleted'[c] = IF frame.last > deleted[c] THEN frame.last ELSE deleted[c]
          /\ \A d \in Controller : d # c => deleted'[d] = deleted[d]
      BY <1>2, <2>3
    <3> HIDE DEF frame
    <3> QED
      BY <1>3, <2>1, <3>1
  <2> QED
    BY <1>5, <2>2, <2>3 DEF Obey
<1> QED
  BY <1>3, <1>4, <1>5

LEMMA TakenIsMadeKept == Inv /\ TakenIsMade /\ [Next]_vars => TakenIsMade'
<1> SUFFICES ASSUME Inv, TakenIsMade, [Next]_vars PROVE TakenIsMade'
  OBVIOUS
<1>1. TypeInv /\ TypeInv'
  BY NextTypeInv DEF Inv
<1>2. \A c \in Controller : /\ produced[c] \in Nat /\ produced'[c] \in Nat
                            /\ \A n \in Stored(c) : n \in Nat
  <2>1. \A c \in Controller : produced[c] \in Nat /\ produced'[c] \in Nat
    BY <1>1, ProducedType
  <2>2. \A r \in stored : r.number \in Record
    BY <1>1 DEF TypeInv
  <2> QED
    BY <2>1, <2>2 DEF Stored, Record
<1>3. CASE Handle \/ StoreRefuses \/ SaveFails \/ \E c \in Controller : Device(c)
  <2>1. \A c : Stored(c)' = Stored(c)
    BY <1>1, <1>3, SessionSteps DEF Stored
  <2>2. \A c \in Controller : produced'[c] >= produced[c]
    BY <1>1, <1>2, <1>3, SessionSteps, DeviceRecords
  <2> QED
    BY <1>2, <2>1, <2>2 DEF TakenIsMade
<1>4. CASE StoreRecord
  <2>1. produced' = produced
    BY <1>4 DEF StoreRecord, device
  <2> QED
    BY <1>4, <2>1, GivenRecord DEF TakenIsMade
<1>5. CASE Crash \/ UNCHANGED vars
  BY <1>5 DEF Crash, backend, device, vars, TakenIsMade, Stored
<1> QED
  BY <1>3, <1>4, <1>5 DEF Next, Server

-----------------------------------------------------------------------------
(* The invariant and the theorem.                                          *)

LEMMA InitCalm == Init => CalmInv /\ TakenIsMade
<1> SUFFICES ASSUME Init PROVE Calm /\ TakenIsMade
  BY DEF CalmInv
<1>1. /\ io.pc = "idle" /\ stored = {} /\ again = {}
      /\ \A c \in Controller : linked[c] = FALSE
      /\ \A l \in Link : buffer_[l] = <<>> /\ up[l] = <<>> /\ down[l] = <<>>
  BY LinkFacts DEF Init
<1>2. \A c : Stored(c) = {}
  BY <1>1 DEF Stored
<1>3. ASSUME NEW l \in Link PROVE CalmLink(l)
  <2>1. ~OnLine(l) /\ ~Reading(l) /\ Pipe(l) = <<>>
    BY <1>1, LinkFacts DEF OnLine, Reading, Pipe
  <2>2. Left(l) = {}
    BY <2>1 DEF Left, Done
  <2> QED
    BY <1>1, <2>1, <2>2 DEF CalmLink, HeldInv, StartInv, StartedInv, AheadInv
<1> QED
  BY <1>1, <1>2, <1>3 DEF Calm, CalmLink, ExactInv, TakenIsMade

\* A fault is never forgotten.
LEMMA FaultsGrow ==
    ASSUME Inv, [Next]_vars, faults' = 0
    PROVE  faults = 0 /\ ~StoreRefuses /\ ~SaveFails /\ ~Crash /\ \A c \in Controller : ~LinkBreaks(c)
<1>1. TypeInv /\ faults \in Nat
  <2>1. TypeInv /\ faults \in 0..MaxFault
    BY DEF Inv, TypeInv
  <2> QED
    BY <2>1
<1>2. ~FaultHappens
  BY <1>1 DEF FaultHappens
<1>3. faults' \in {faults, faults + 1}
  <2>1. CASE Handle \/ StoreRefuses \/ SaveFails \/ \E c \in Controller : Device(c)
    BY <1>1, <2>1, SessionSteps
  <2>2. CASE StoreRecord \/ Crash \/ UNCHANGED vars
    BY <1>2, <2>2 DEF StoreRecord, Crash, vars
  <2> QED
    BY <2>1, <2>2 DEF Next, Server
<1> QED
  BY <1>1, <1>2, <1>3 DEF StoreRefuses, SaveFails, Crash, LinkBreaks

LEMMA NextCalm == Inv /\ TakenIsMade /\ CalmInv /\ [Next]_vars => CalmInv'
<1> SUFFICES ASSUME Inv, TakenIsMade, CalmInv, [Next]_vars, faults' = 0 PROVE Calm'
  BY DEF CalmInv
<1>1. faults = 0 /\ Calm /\ ~StoreRefuses /\ ~SaveFails /\ ~Crash /\ \A c \in Controller : ~LinkBreaks(c)
  BY FaultsGrow DEF CalmInv
<1>2. CASE Server
  <2>1. CASE \E l \in Link : Receive(l) \/ PeerClosed(l)
    BY <1>1, <2>1, ReceiveCalm, PeerClosedCalm
  <2>2. CASE ReceiveDone \/ StoreRecord \/ SetLastCounter
    BY <1>1, <2>2, ReceiveDoneCalm, StoreRecordCalm, SetLastCounterCalm
  <2> QED
    BY <1>1, <1>2, <2>1, <2>2, IdentCalm, ConfirmationCalm, ArchiveEndCalm, RecordSavedCalm
       DEF Server, Handle
<1>3. ASSUME NEW c \in Controller, Device(c) PROVE Calm'
  <2>1. CASE NoticesClose(c) \/ Hangup(c) \/ DeviceTimeout(c)
    BY <1>1, <2>1, LeaveCalm DEF NoticesClose, Hangup, DeviceTimeout, Silent
  <2> QED
    BY <1>1, <1>3, <2>1, ConnectCalm, UploadCalm, ObeyCalm, ProduceCalm DEF Device, Talk
<1>4. CASE UNCHANGED vars
  <2>1. ASSUME NEW l \in Link PROVE CalmLink(l)'
    <3>1. CalmLink(l) /\ (OnLine(l) => open[l])
      BY <1>1 DEF Calm, CalmLink, HeldInv
    <3>2. (OnLine(l)' <=> OnLine(l)) /\ (Reading(l)' <=> Reading(l))
      BY <1>4 DEF vars, OnLine, Reading
    <3> QED
      BY <1>4, <3>1, <3>2, CalmKept DEF vars
  <2>2. ASSUME NEW c \in Controller PROVE ExactInv(c)'
    BY <1>1, <1>4 DEF vars, Calm, ExactInv, Stored, Frame
  <2> QED
    BY <1>1, <1>4, <2>1, <2>2 DEF vars, Calm, CalmLink
<1> QED
  BY <1>1, <1>2, <1>3, <1>4 DEF Next

\* As long as nothing fails, add_message takes no record twice: a device that
\* comes back is asked for what follows the counter, and what it sends from
\* there on only grows.
THEOREM TakenOnce == Spec => []OnceWithoutFault
<1> DEFINE OrderInv == Inv /\ TakenIsMade /\ CalmInv
<1>1. Init => OrderInv
  BY InitInv, InitCalm
<1>2. OrderInv /\ [Next]_vars => OrderInv'
  BY NextInv, TakenIsMadeKept, NextCalm
<1>3. OrderInv => OnceWithoutFault
  BY DEF CalmInv, Calm, OnceWithoutFault
<1> QED
  BY <1>1, <1>2, <1>3, PTL DEF Spec
=============================================================================
