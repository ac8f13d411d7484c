--------------------------- MODULE OmnicommSession ---------------------------
(***************************************************************************)
(* The Omnicomm archive protocol: src/omnicomm/protocol.cpp, with the      *)
(* counters it shares between connections and saves in counters.dat, and   *)
(* the parts of src/client.cpp that deliver bytes to it and close it.      *)
(*                                                                         *)
(* A controller (a vehicle's device, external) numbers its records 1, 2,   *)
(* ... and keeps each one until the server tells it to delete all records  *)
(* up to some number.  The server remembers, for each controller, the      *)
(* number of the last record it took.  Over one connection the device      *)
(* introduces itself; the server deletes what it already has, requests the *)
(* archive from there, deletes what came, and then takes current data.     *)
(*                                                                         *)
(* Frames are complete and well formed here: how they are cut out of the   *)
(* byte stream is another module's business.  The io thread runs one       *)
(* handler at a time; a handler is cut into steps only where a crash of    *)
(* the process between them makes a difference.                            *)
(***************************************************************************)
EXTENDS Naturals, Sequences, FiniteSets

CONSTANTS Controller,     \* the devices
          NoController,   \* controller_id_ 0, nobody introduced yet
          MaxRecord,      \* bound: records a device produces
          MaxPacket,      \* bound: records in one archive packet
          MaxInFlight,    \* bound: frames under way from a device
          MaxConn,        \* bound: connections a device makes
          MaxFault        \* bound: crashes, refusals, garbled answers, failed saves, broken links

ASSUME ControllerAssumption == Controller # {} /\ NoController \notin Controller
ASSUME BoundsAssumption == /\ MaxRecord \in Nat /\ MaxPacket \in Nat \ {0}
                           /\ MaxInFlight \in Nat /\ MaxConn \in Nat \ {0}
                           /\ MaxFault \in Nat

Record == 1..MaxRecord
Link == Controller \X (1..MaxConn)

ProtocolState == {"wait_initial", "wait_initial_delete_confirm", "process_archive",
                  "wait_final_delete_confirm"}

VARIABLES
    \* one transport_protocol_t and one client_t per connection
    open,             \* the server's end of the socket is open
    late,             \* a read completed before the socket was closed
    buffer_,          \* received frames not erased from buffer_
    controller_id_,
    protocol_state_,
    \* the io thread
    io,               \* the handler it runs: [pc, link, pos, added]
    \* shared by all connections
    counterer_,       \* last record number, by controller; 0 when absent
    file,             \* what counters.dat holds
    stored,           \* history: what add_message took: [id, number, label]
    again,            \* history: records add_message took more than once
    \* the network
    up, down,         \* frames to the server and to the device
    \* the devices
    produced,         \* records made so far
    deleted,          \* records up to this one are deleted
    sending,          \* next record to upload, 0 when no upload is under way
    drained,          \* the upload ended on this connection
    linked,           \* the device holds a connection
    used,             \* connections made so far, the last is the current one
    faults            \* faults that happened so far

protocol == <<open, late, buffer_, controller_id_, protocol_state_>>
counters == <<counterer_, file>>
backend == <<stored, again>>
device == <<produced, deleted, sending, drained, linked, used>>
vars == <<open, late, buffer_, controller_id_, protocol_state_, io, counterer_, file,
          stored, again, up, down, produced, deleted, sending, drained, linked, used, faults>>

Idle == [pc |-> "idle", link |-> CHOOSE l \in Link : TRUE, pos |-> 0, added |-> 0]

\* Frames from a device.  An archive frame without data has last = 0.
Ident == [cmd |-> "ident", first |-> 0, last |-> 0]
Confirm == [cmd |-> "confirm", first |-> 0, last |-> 0]
Archive(m, n) == [cmd |-> "archive", first |-> m, last |-> n]
ArchiveEnd == Archive(0, 0)
Current(n) == [cmd |-> "current", first |-> n, last |-> n]

\* Frames to a device.
Request(n) == [cmd |-> "request", last |-> n]
Delete(n) == [cmd |-> "delete", last |-> n]
Garbage == [cmd |-> "garbage", last |-> 0]

OnLine(l) == linked[l[1]] /\ used[l[1]] = l[2]
CurrentLink(c) == <<c, used[c]>>

\* Bound: connections are kept for the faults to come, so that the device can
\* still connect after the last one.  A device that spends them while nothing
\* fails, in ending connections in good order, sees no fault at all.
FaultHappens == /\ faults < MaxFault
                /\ faults = 0 => \A c \in Controller : used[c] + MaxFault <= MaxConn
                /\ faults' = faults + 1

Zero == [c \in Controller \cup {NoController} |-> 0]

Init ==
    /\ open = [l \in Link |-> FALSE]
    /\ late = [l \in Link |-> FALSE]
    /\ buffer_ = [l \in Link |-> <<>>]
    /\ controller_id_ = [l \in Link |-> NoController]
    /\ protocol_state_ = [l \in Link |-> "wait_initial"]
    /\ io = Idle
    /\ counterer_ = Zero /\ file = Zero
    /\ stored = {} /\ again = {}
    /\ up = [l \in Link |-> <<>>] /\ down = [l \in Link |-> <<>>]
    /\ produced = [c \in Controller |-> 0] /\ deleted = [c \in Controller |-> 0]
    /\ sending = [c \in Controller |-> 0] /\ drained = [c \in Controller |-> FALSE]
    /\ linked = [c \in Controller |-> FALSE] /\ used = [c \in Controller |-> 0]
    /\ faults = 0

-----------------------------------------------------------------------------
(* Answers of the server.                                                  *)

\* Nothing is sent on a closed socket, and nobody reads what is sent on a
\* connection the device left.
Deliver(l, frame) ==
    down' = IF open[l] /\ OnLine(l) THEN [down EXCEPT ![l] = Append(@, frame)] ELSE down

\* async_send: the frame goes out, or it goes out later than the handler and
\* then from a buffer that no longer exists.
Send(l, frame) ==
    \/ Deliver(l, frame) /\ UNCHANGED faults
    \/ /\ open[l] /\ OnLine(l) /\ FaultHappens
       /\ down' = [down EXCEPT ![l] = Append(@, Garbage)]

get_last_counter(id) == counterer_[id]

\* Delete what was taken; nothing to delete when the counter is 0.
SendDelete(l, last) ==
    IF last # 0 THEN Send(l, Delete(last)) ELSE UNCHANGED <<down, faults>>

\* The same with nothing that goes wrong on the way.
DeliverDelete(l, last) == IF last # 0 THEN Deliver(l, Delete(last)) ELSE UNCHANGED down

\* Request what follows, or everything when the counter is 0.
SendRequest(l, last) == Send(l, Request(IF last = 0 THEN 0 ELSE last + 1))

-----------------------------------------------------------------------------
(* One read: handle_read, recive_impl and process_message.                 *)

\* A completed read hands over some of the frames that have arrived.
Receive(l) ==
    /\ io.pc = "idle"
    /\ open[l] \/ late[l]
    /\ \E k \in 1..Len(up[l]) :
          /\ buffer_' = [buffer_ EXCEPT ![l] = @ \o SubSeq(up[l], 1, k)]
          /\ up' = [up EXCEPT ![l] = SubSeq(@, k + 1, Len(@))]
    /\ late' = [late EXCEPT ![l] = FALSE]
    /\ io' = [pc |-> "frame", link |-> l, pos |-> 0, added |-> 0]
    /\ UNCHANGED <<open, controller_id_, protocol_state_, counters, backend, down, device, faults>>

\* The frame recive_impl looks at, and the step to the next one.
Busy(cmd) == /\ io.pc = "frame"
             /\ io.pos < Len(buffer_[io.link])
             /\ buffer_[io.link][io.pos + 1].cmd = cmd
Frame == buffer_[io.link][io.pos + 1]
NextFrame == io' = [io EXCEPT !.pc = "frame", !.pos = @ + 1, !.added = 0]

\* The loop ends: the processed frames are erased.
ReceiveDone ==
    /\ io.pc = "frame"
    /\ io.pos = Len(buffer_[io.link])
    /\ buffer_' = [buffer_ EXCEPT ![io.link] = <<>>]
    /\ io' = Idle
    /\ UNCHANGED <<open, late, controller_id_, protocol_state_, counters, backend,
                   up, down, device, faults>>

\* Mutant: the counter is not looked at.
IdentWithoutCounter ==
    /\ Busy("ident")
    /\ controller_id_' = [controller_id_ EXCEPT ![io.link] = io.link[1]]
    /\ SendRequest(io.link, 0)
    /\ protocol_state_' = [protocol_state_ EXCEPT ![io.link] = "process_archive"]
    /\ NextFrame
    /\ UNCHANGED <<open, late, buffer_, counters, backend, up, device>>

\* Mutant: the identity is kept where all connections share it.
SharedControllerId ==
    /\ Busy("ident")
    /\ LET l == io.link
           id == l[1]
           last == get_last_counter(id)
       IN  /\ controller_id_' = [k \in Link |-> id]
           /\ IF last = 0
              THEN /\ SendRequest(l, last)
                   /\ protocol_state_' = [protocol_state_ EXCEPT ![l] = "process_archive"]
              ELSE /\ SendDelete(l, last)
                   /\ protocol_state_' =
                          [protocol_state_ EXCEPT ![l] = "wait_initial_delete_confirm"]
    /\ NextFrame
    /\ UNCHANGED <<open, late, buffer_, counters, backend, up, device>>

ProcessControllerIdent ==
    /\ Busy("ident")
    /\ LET l == io.link
           id == l[1]
           last == get_last_counter(id)
       IN  /\ controller_id_' = [controller_id_ EXCEPT ![l] = id]
           /\ IF last = 0
              THEN /\ SendRequest(l, last)
                   /\ protocol_state_' = [protocol_state_ EXCEPT ![l] = "process_archive"]
              ELSE /\ SendDelete(l, last)
                   /\ protocol_state_' =
                          [protocol_state_ EXCEPT ![l] = "wait_initial_delete_confirm"]
    /\ NextFrame
    /\ UNCHANGED <<open, late, buffer_, counters, backend, up, device>>

\* Mutant: any confirmation is taken for the initial one.
ConfirmationWithoutState ==
    /\ Busy("confirm")
    /\ SendRequest(io.link, get_last_counter(controller_id_[io.link]))
    /\ protocol_state_' = [protocol_state_ EXCEPT ![io.link] = "process_archive"]
    /\ NextFrame
    /\ UNCHANGED <<open, late, buffer_, controller_id_, counters, backend, up, device>>

ProcessDeleteConfirmation ==
    /\ Busy("confirm")
    /\ LET l == io.link
       IN  IF protocol_state_[l] = "wait_initial_delete_confirm"
           THEN /\ SendRequest(l, get_last_counter(controller_id_[l]))
                /\ protocol_state_' = [protocol_state_ EXCEPT ![l] = "process_archive"]
           ELSE UNCHANGED <<down, faults, protocol_state_>>
    /\ NextFrame
    /\ UNCHANGED <<open, late, buffer_, controller_id_, counters, backend, up, device>>

\* Mutant: the end of the archive is not acknowledged.
ArchiveEndWithoutDelete ==
    /\ Busy("archive")
    /\ Frame.last = 0
    /\ protocol_state_' = [protocol_state_ EXCEPT ![io.link] = "wait_final_delete_confirm"]
    /\ NextFrame
    /\ UNCHANGED <<open, late, buffer_, controller_id_, counters, backend, up, down, device, faults>>

\* An archive packet without data: the download is complete.
ProcessArchiveEnd ==
    /\ Busy("archive")
    /\ Frame.last = 0
    /\ SendDelete(io.link, get_last_counter(controller_id_[io.link]))
    /\ protocol_state_' = [protocol_state_ EXCEPT ![io.link] = "wait_final_delete_confirm"]
    /\ NextFrame
    /\ UNCHANGED <<open, late, buffer_, controller_id_, counters, backend, up, device>>

\* process_info_messages, shared by archive and current data: the records go
\* to the backend one by one.
DataFrame == (Busy("archive") \/ Busy("current")) /\ Frame.last # 0
FrameLength == Frame.last - Frame.first + 1

\* Mutant: the loop runs to i <= len.
StoreRecordOffByOne ==
    /\ DataFrame
    /\ io.added <= FrameLength
    /\ LET record == [id |-> controller_id_[io.link],
                      number |-> Frame.first + io.added,
                      label |-> (Frame.last - FrameLength) + io.added]
       IN  /\ stored' = stored \cup {record}
           /\ again' = again \cup ({record} \cap stored)
    /\ io' = [io EXCEPT !.added = @ + 1]
    /\ UNCHANGED <<protocol, counters, up, down, device, faults>>

StoreRecord ==
    /\ DataFrame
    /\ io.added < FrameLength
    /\ LET record == [id |-> controller_id_[io.link],
                      number |-> Frame.first + io.added,
                      label |-> (Frame.last - FrameLength) + io.added]
       IN  /\ stored' = stored \cup {record}
           /\ again' = again \cup ({record} \cap stored)
    /\ io' = [io EXCEPT !.added = @ + 1]
    /\ UNCHANGED <<protocol, counters, up, down, device, faults>>

\* client_t::stop(): the read of this connection may have completed already.
Stop(l) ==
    /\ open' = [open EXCEPT ![l] = FALSE]
    /\ late' \in {[late EXCEPT ![l] = FALSE],
                  [late EXCEPT ![l] = open[l] /\ up[l] # <<>>]}

\* Mutant: the refusal is caught where it is thrown and the loop goes on.
RefusalIgnored ==
    /\ DataFrame
    /\ io.added < FrameLength
    /\ FaultHappens
    /\ io' = [io EXCEPT !.added = @ + 1]
    /\ UNCHANGED <<protocol, counters, backend, up, down, device>>

\* Mutant: the exception is logged and the client goes on.
RefusalWithoutStop ==
    /\ DataFrame
    /\ io.added < FrameLength
    /\ FaultHappens
    /\ io' = Idle
    /\ UNCHANGED <<protocol, counters, backend, up, down, device>>

\* add_message throws overflow_error: process_message stops the client and
\* the exception leaves recive_impl before it erases anything.
StoreRefuses ==
    /\ DataFrame
    /\ io.added < FrameLength
    /\ FaultHappens
    /\ Stop(io.link)
    /\ io' = Idle
    /\ UNCHANGED <<buffer_, controller_id_, protocol_state_, counters, backend, up, down, device>>

\* Mutant: the counter is set before the records are handed over.
SetLastCounterFirst ==
    /\ DataFrame
    /\ io.added = 0
    /\ counterer_' = [counterer_ EXCEPT ![controller_id_[io.link]] = Frame.last]
    /\ io' = [io EXCEPT !.pc = "saving"]
    /\ UNCHANGED <<protocol, file, backend, up, down, device, faults>>

\* Mutant: one number is kept for all controllers.
SetSharedCounter ==
    /\ DataFrame
    /\ io.added = FrameLength
    /\ counterer_' = [id \in DOMAIN counterer_ |-> Frame.last]
    /\ io' = [io EXCEPT !.pc = "saving"]
    /\ UNCHANGED <<protocol, file, backend, up, down, device, faults>>

\* set_last_counter: the map changes and counters.dat is opened, which
\* truncates it, for writing.
SetLastCounter ==
    /\ DataFrame
    /\ io.added = FrameLength
    /\ counterer_' = [counterer_ EXCEPT ![controller_id_[io.link]] = Frame.last]
    /\ io' = [io EXCEPT !.pc = "saving"]
    /\ UNCHANGED <<protocol, file, backend, up, down, device, faults>>

save_counters == file' = counterer_
load_counters == counterer_' = file'

\* The map is written.  Archive data wait for the next packet; current data
\* are deleted from the device at once.
RecordSaved ==
    /\ io.pc = "saving"
    /\ save_counters
    /\ NextFrame
    /\ IF Frame.cmd = "current"
       THEN /\ SendDelete(io.link, get_last_counter(controller_id_[io.link]))
            /\ protocol_state_' = [protocol_state_ EXCEPT ![io.link] = "wait_final_delete_confirm"]
       ELSE UNCHANGED <<down, faults, protocol_state_>>
    /\ UNCHANGED <<open, late, buffer_, controller_id_, counterer_, backend, up, device>>

\* What a file that is not written to its end is read as: some entries are
\* missing or cut short.
PartOfCounters ==
    {f \in [DOMAIN file -> 0..MaxRecord] : \A c \in DOMAIN f : f[c] <= counterer_[c]}

\* The file cannot be opened and stays as it is, or the archive throws half-way:
\* save_counters logs it at most, and the device is answered all the same.
SaveFails ==
    /\ io.pc = "saving"
    /\ FaultHappens
    /\ file' \in {file} \cup PartOfCounters
    /\ NextFrame
    /\ IF Frame.cmd = "current"
       THEN /\ DeliverDelete(io.link, get_last_counter(controller_id_[io.link]))
            /\ protocol_state_' = [protocol_state_ EXCEPT ![io.link] = "wait_final_delete_confirm"]
       ELSE UNCHANGED <<down, protocol_state_>>
    /\ UNCHANGED <<open, late, buffer_, controller_id_, counterer_, backend, up, device>>

\* The peer is gone: the read fails and the client stops itself.
PeerClosed(l) ==
    /\ io.pc = "idle"
    /\ open[l] /\ ~OnLine(l) /\ up[l] = <<>>
    /\ Stop(l)
    /\ UNCHANGED <<buffer_, controller_id_, protocol_state_, io, counters, backend, up, down,
                   device, faults>>

\* The process dies and is started again.  A file that was being written is
\* read as far as it goes.
Crash ==
    /\ FaultHappens
    /\ open' = [l \in Link |-> FALSE]
    /\ late' = [l \in Link |-> FALSE]
    /\ buffer_' = [l \in Link |-> <<>>]
    /\ controller_id_' = [l \in Link |-> NoController]
    /\ protocol_state_' = [l \in Link |-> "wait_initial"]
    /\ io' = Idle
    /\ up' = [l \in Link |-> <<>>]
    /\ IF io.pc = "saving"
       THEN file' \in PartOfCounters
       ELSE UNCHANGED file
    /\ load_counters
    /\ UNCHANGED <<backend, down, device>>

-----------------------------------------------------------------------------
(* The device.                                                             *)

\* It connects and introduces itself; the server accepts and starts a client
\* with a fresh protocol object.
Connect(c) ==
    /\ ~linked[c] /\ used[c] < MaxConn
    /\ used' = [used EXCEPT ![c] = @ + 1]
    /\ linked' = [linked EXCEPT ![c] = TRUE]
    /\ LET l == <<c, used[c] + 1>>
       IN  /\ open' = [open EXCEPT ![l] = TRUE]
           /\ up' = [up EXCEPT ![l] = <<Ident>>]
    /\ UNCHANGED <<late, buffer_, controller_id_, protocol_state_, io, counters, backend, down,
                   produced, deleted, sending, drained, faults>>

\* It leaves the connection, or learns that there is none.  What it sent may
\* still reach the server.
Leave(c) ==
    /\ linked[c]
    /\ linked' = [linked EXCEPT ![c] = FALSE]
    /\ sending' = [sending EXCEPT ![c] = 0]
    /\ drained' = [drained EXCEPT ![c] = FALSE]
    /\ down' = [down EXCEPT ![CurrentLink(c)] = <<>>]
    /\ UNCHANGED <<protocol, io, counters, backend, up, produced, deleted, used>>

LinkBreaks(c) == FaultHappens /\ Leave(c)

NoticesClose(c) ==
    /\ linked[c] /\ ~open[CurrentLink(c)] /\ down[CurrentLink(c)] = <<>>
    /\ Leave(c) /\ UNCHANGED faults

\* Nothing is under way on its connection.
Quiet(c) == LET l == CurrentLink(c)
            IN  linked[c] /\ up[l] = <<>> /\ down[l] = <<>> /\ io.pc = "idle"

\* It has nothing to say and hears nothing.
Silent(c) == Quiet(c) /\ sending[c] = 0

\* Bound: without a fault all connections but the last one may be ended; after
\* the first fault one is kept for each that may follow.
ConnectionLeft(c) == used[c] + (IF faults = 0 THEN 0 ELSE MaxFault - faults) < MaxConn

\* It ends the connection in good order: nothing is under way, but the upload
\* may be half done.
Hangup(c) ==
    /\ Quiet(c)
    /\ ConnectionLeft(c)
    /\ Leave(c) /\ UNCHANGED faults

\* It waits for a request that does not come, and has a timeout of its own.
DeviceTimeout(c) ==
    /\ Silent(c) /\ ~drained[c]
    /\ Leave(c) /\ UNCHANGED faults

\* A new record: sent as current data once the archive is drained, kept in
\* the archive otherwise.
Produce(c) ==
    /\ produced[c] < MaxRecord
    /\ produced' = [produced EXCEPT ![c] = @ + 1]
    /\ IF linked[c] /\ drained[c]
       THEN /\ Len(up[CurrentLink(c)]) < MaxInFlight
            /\ up' = [up EXCEPT ![CurrentLink(c)] = Append(@, Current(produced[c] + 1))]
       ELSE UNCHANGED up
    /\ UNCHANGED <<protocol, io, counters, backend, down, deleted, sending, drained, linked, used,
                   faults>>

\* A packet of the archive, or the empty one that ends the upload.
Upload(c) ==
    /\ linked[c] /\ sending[c] # 0
    /\ Len(up[CurrentLink(c)]) < MaxInFlight
    /\ \/ \E n \in sending[c]..produced[c] :
             /\ n < sending[c] + MaxPacket
             /\ up' = [up EXCEPT ![CurrentLink(c)] = Append(@, Archive(sending[c], n))]
             /\ sending' = [sending EXCEPT ![c] = n + 1]
             /\ UNCHANGED drained
       \/ /\ sending[c] > produced[c]
          /\ up' = [up EXCEPT ![CurrentLink(c)] = Append(@, ArchiveEnd)]
          /\ sending' = [sending EXCEPT ![c] = 0]
          /\ drained' = [drained EXCEPT ![c] = TRUE]
    /\ UNCHANGED <<protocol, io, counters, backend, down, produced, deleted, linked, used, faults>>

\* It obeys a request or a delete; a garbled frame fails its checksum.
Obey(c) ==
    LET l == CurrentLink(c)
    IN  /\ linked[c] /\ down[l] # <<>>
        /\ down' = [down EXCEPT ![l] = Tail(@)]
        /\ LET frame == Head(down[l])
           IN  \/ /\ frame.cmd = "request"
                  /\ sending' = [sending EXCEPT ![c] =
                                     IF frame.last > deleted[c] THEN frame.last ELSE deleted[c] + 1]
                  /\ drained' = [drained EXCEPT ![c] = FALSE]
                  /\ UNCHANGED <<up, deleted>>
               \/ /\ frame.cmd = "delete"
                  /\ deleted' = [deleted EXCEPT ![c] = IF frame.last > @ THEN frame.last ELSE @]
                  /\ up' = [up EXCEPT ![l] = Append(@, Confirm)]
                  /\ UNCHANGED <<sending, drained>>
               \/ /\ frame.cmd = "garbage"
                  /\ UNCHANGED <<up, sending, drained, deleted>>
        /\ UNCHANGED <<protocol, io, counters, backend, produced, linked, used, faults>>

-----------------------------------------------------------------------------
Handle == \/ \E l \in Link : Receive(l) \/ PeerClosed(l)
          \/ ReceiveDone
          \/ ProcessControllerIdent \/ ProcessDeleteConfirmation \/ ProcessArchiveEnd
          \/ SetLastCounter \/ RecordSaved

Server == Handle \/ StoreRecord

Talk(c) == Connect(c) \/ NoticesClose(c) \/ Upload(c) \/ Obey(c)

Device(c) == Talk(c) \/ LinkBreaks(c) \/ Hangup(c) \/ DeviceTimeout(c) \/ Produce(c)

Next == Server \/ StoreRefuses \/ SaveFails \/ Crash \/ \E c \in Controller : Device(c)

Spec == Init /\ [][Next]_vars

\* The io thread runs its handlers, TCP delivers, and a device keeps talking:
\* it reconnects, uploads what was requested and gives up a dead connection.
\* Faults and new records are never forced.
Fairness == /\ WF_vars(Server)
            /\ \A c \in Controller : WF_vars(Talk(c)) /\ WF_vars(DeviceTimeout(c))

LiveSpec == Spec /\ Fairness

-----------------------------------------------------------------------------
\* The first and the last record of a packet.
Packet == {p \in Record \X Record : p[1] <= p[2] /\ p[2] < p[1] + MaxPacket}

UpFrame == {Ident, Confirm, ArchiveEnd} \cup {Archive(p[1], p[2]) : p \in Packet}
               \cup {Current(n) : n \in Record}
DownFrame == {Garbage} \cup {Request(n) : n \in 0..MaxRecord + 1} \cup {Delete(n) : n \in Record}

TypeOK ==
    /\ open \in [Link -> BOOLEAN] /\ late \in [Link -> BOOLEAN]
    /\ buffer_ \in [Link -> Seq(UpFrame)]
    /\ controller_id_ \in [Link -> Controller \cup {NoController}]
    /\ protocol_state_ \in [Link -> ProtocolState]
    /\ io \in [pc : {"idle", "frame", "saving"}, link : Link, pos : Nat, added : 0..MaxPacket]
    /\ io.pos <= Len(buffer_[io.link])
    /\ counterer_ \in [Controller \cup {NoController} -> 0..MaxRecord]
    /\ file \in [Controller \cup {NoController} -> 0..MaxRecord]
    /\ stored \in SUBSET [id : Controller, number : Record, label : 0..MaxRecord]
    /\ again \subseteq stored
    /\ up \in [Link -> Seq(UpFrame)] /\ down \in [Link -> Seq(DownFrame)]
    /\ produced \in [Controller -> 0..MaxRecord] /\ deleted \in [Controller -> 0..MaxRecord]
    /\ sending \in [Controller -> 0..MaxRecord + 1]
    /\ drained \in [Controller -> BOOLEAN] /\ linked \in [Controller -> BOOLEAN]
    /\ used \in [Controller -> 0..MaxConn]
    /\ faults \in 0..MaxFault

Stored(c) == {r.number : r \in {s \in stored : s.id = c}}

\* A device deletes a record only after the server took it, whatever crashed,
\* was refused, garbled or re-sent in between: set_last_counter follows the
\* add_message calls of the packet, delete_data carries the counter (lines
\* 386-387, 404-407 and 445-454 of protocol.cpp).
DeletedIsStored == \A c \in Controller : 1..deleted[c] \subseteq Stored(c)

\* Neither the shared counter nor what counters.dat would restore after a
\* crash runs ahead of the records taken: a counter that does makes the next
\* ident delete records nobody has.  That holds for a file left old or cut
\* short by a save that failed as well (save_counters, lines 98-113).
CounterIsStored ==
    \A c \in Controller : /\ 1..counterer_[c] \subseteq Stored(c)
                          /\ 1..file[c] \subseteq Stored(c)

\* No record is taken twice as long as nothing fails and a connection ends only
\* with nothing under way.  It may end in the middle of an upload, with records
\* taken that the device still has: the next one deletes them first, and
\* requests the rest after the confirmation (process_controller_ident, lines
\* 330-357, and process_delete_confirmation, lines 306-324).
OnceWithoutFault == faults = 0 => again = {}

\* The device gets its memory back: each record is deleted in the end.
\* A delete that was garbled is not repeated before the next record or the
\* next connection, so nothing is promised after a fault.
EveryRecordDeleted ==
    \A c \in Controller, n \in Record :
        n <= produced[c] ~> (n <= deleted[c] \/ faults # 0)

\* What transport_messages.hpp line 123 says of last_mes_number: it is the
\* number of the last message of the packet, so a record is stored under its
\* own number.
LabelIsNumber == \A r \in stored : r.label = r.number

\* What communicator.conf lines 30-32 say of recive_timeout: an idle
\* connection is closed by the server after a while.
Idling(c) == linked[c] /\ open[CurrentLink(c)] /\ Silent(c)
IdleIsClosed == \A c \in Controller : Idling(c) ~> ~Idling(c)
=============================================================================
