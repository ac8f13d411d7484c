# Communicator: a TLA+ development

`communicator` is a server for vehicle-tracking devices ("controllers", protocol
Omnicomm). Devices connect over TCP and upload the records of their archive;
the server hands each record to a storage backend, which writes it to a database
table, and tells the device which records it may delete. The question behind
everything here is the one the users of such a server have: **can a record be
deleted on the device and not be in the table?**

The modules are written from the code under `src/`; the header of each module
names the files it stands for, and `PROJECT.json` ("map") gives the lines of
every definition.

## The parts of the system

One *io thread* runs everything that handles connections (`server_t::run` calls
`io_service::run` once; the setting `num_workers` is stored and never used), one
*worker thread* belongs to the backend.

| part | state | operations | speaks to |
|---|---|---|---|
| Server (`server.cpp`) | acceptor, set of clients, timer of 5 s, signal set | accept, drop closed clients on the timer, stop on a signal, start and stop the backend | creates clients; owns the backend |
| Client (`client.cpp`, `protocol_base.cpp`) | socket, 8 KiB read buffer, the protocol object | start, read completion, send, stop | calls `recive` of the protocol; the protocol calls back `send`, `stop`, `get_backend` |
| Framing (half of `omnicomm/protocol.cpp`, `transport_messages.hpp`, `crc16` of `utils.cpp`) | `buffer_`, `state_` | destuff, find frames, verify, erase; stuff and send | calls the message handlers |
| Archive protocol (the other half of `protocol.cpp`) | `controller_id_`, `protocol_state_`; shared by all connections: the map of counters and `counters.dat` | ident, archive data, current data, delete confirmation; load and save the counters | `add_message` of the backend, request and delete to the device |
| Information messages (`omnicomm/info_package.cpp`) | none | split the payload of a data frame into messages, parse (protobuf), render as text | |
| Backend base (`backends/base.cpp`) | queue with a capacity, worker thread | `add_message`, `start`, `stop`, destructor, `work_proc` | virtual calls into the Oracle backend |
| Oracle backend (`backends/oracle.cpp`) | connection, open transaction | open (and probe) the connection, insert, commit | the database |
| Process (`main_linux.cpp`, `settings.cpp`, `daemon.cpp`, `backends/factory.cpp`) | options, daemon mode | read the settings, become a daemon, build the server, run, take it down | builds the server, which builds the backend |
| Records (`message.proto`, generated `message.pb.*`) | fields, has-bits, unknown items | parse, serialize, measure, merge | the protobuf library; used by the information messages |
| RabbitMQ, MongoDB backends | | a stub, and code that does not match the present base class | |
| The device, the network, the database | external | modelled from how the code uses them | |

### Where it is hard

* **Acknowledged before durable.** A record counts as taken when it is in the
  queue in memory; the device may delete it before the commit.
* **Three parties at the queue**: io thread, worker, and the owner that
  interrupts and joins the worker, with `boost::thread` interruption points in
  two places that treat the interruption differently.
* **A failure in the middle**: of a batch (inserts executed, the rest dropped,
  the transaction left open), of a packet (some records queued, then the queue
  is full), of a commit (its answer lost).
* **Crash between two steps**: `counters.dat` is truncated and rewritten in
  place after each packet.
* **Late completions**: the next read is started before the data of this one
  are handled, so a read can complete although the connection is closed
  meanwhile, on a buffer that an exception left unerased.
* **Retries**: the device reconnects and sends what it was not told to delete;
  old half-open connections of one device overlap with new ones.
* **Cuts of the byte stream**, also inside an escape sequence, and of protobuf
  records inside a packet: what cannot be read is logged and the rest is used.
* **Handlers and object lifetime**: completion handlers hold the bare address of
  their client, which the clean-up timer may destroy.
* **A start that fails half-way**: once the worker thread runs, an exception of
  the constructor destroys the backend under it.

### What makes each part correct

* Backend: no accepted message disappears without a logged error; order kept, no
  doubles; no call through a connection that a failure dropped; the memory is not
  freed under the worker; messages are settled; `stop` returns.
* Protocol: a device deletes only what was taken, through every fault; the
  counter, in memory and in the file, never runs ahead; no record is taken twice
  without a fault; every record arrives and is deleted in the end.
* Framing: the protocol sees each frame whole, once, in order and at once.
* Client and server: no operation outlives its client, each connection is read by
  exactly one operation, idle connections are closed, closed ones are dropped,
  the accept loop goes on, a signal ends the process.
* Process: the loop runs only when everything it needs was built; a failed start
  takes down what there is.
* Records: what a device wrote is what is read; what is cut is noticed.
* Information messages: a packet is acknowledged only if every message in it
  was handed on; lengths never wrap.

## The modules

| module | stands for | |
|---|---|---|
| `Ledger` | what the whole server owes | made, kept, held, table, dropped, incidents; no protocol, no queue |
| `LedgerProofs` | | the theorem about `Ledger` |
| `Communicator` | devices, protocol and store together | extends `OmnicommSession`, instantiates `AbstractStore`, implements `Ledger` |
| `CommunicatorProofs` | | theorems about `Communicator`, from those of the protocol |
| `AbstractStore` | what the backend promises | accepted, durable, lost, errors; no queue, thread or transaction |
| `StoreBackend` | `backends/base.cpp`, `backends/oracle.cpp` | implements `AbstractStore` |
| `StoreBackendProofs` | | theorems about `StoreBackend` |
| `OmnicommSession` | the archive protocol, counters, crash and restart, the delivering part of `client.cpp`; devices and network | works on whole frames |
| `SessionProofs`, `SessionOrderProofs` | | theorems about `OmnicommSession`: with any faults, and without |
| `Framing`, `MCFraming` | destuffing, the loop of `recive_impl`, sending, `handle_read` | works on bytes; `Crc` is a parameter |
| `FramingProofs` | | theorems about `Framing`, and what a fold over bytes computes |
| `Crc16` | `crc16` and its table | `MCFraming` has the bit by bit definition it is compared with |
| `RecReg`, `MCRecReg` | `message.pb.h`, `message.pb.cc` | pure operators; `MCRecReg` reads records item by item |
| `InfoPackage`, `MCInfoPackage` | `parse_info_package`, `check_length`, the `extract` functions | extends `RecReg`; one packet at a time |
| `InfoPackageProofs` | | theorems about `InfoPackage`, and the contract of `RecReg`'s parser they rest on |
| `Startup` | `main_linux.cpp`, `settings.cpp`, `daemon.cpp`, `factory.cpp`, constructor and destructor of `server_t` | the process and the worker thread |
| `Server`, `MCServer` | `server.cpp`, `client.cpp` | extends `Startup` with the io loop |
| `ServerProofs` | | theorems about `Server` and `Startup` |

From the whole to the parts: `Communicator` implements `Ledger` on top of `AbstractStore`,
and `StoreBackend` implements `AbstractStore`, so `Communicator` need not know of the queue,
the worker's loop and the transaction.

### StoreBackend

State: `messages_` (the queue), the worker's `batch`, `saved` (how far its loop
has come) and `wpc` (which statement is next), `interrupted` (a request of
`interrupt()` not delivered yet), `owner` (what `server_t` has done), and of the
database `connected`, `txn` (inserts not committed), `rows`. A message is the
number of the call that delivered it. Every action between two points where the
mutex, an interruption point or the database intervenes is one step: `SwapQueue`
is the critical section of `work_proc`, `SaveMessage` one turn of the loop,
`InterruptionPoint` and `InterruptSwallowed` the two outcomes of
`interruption_point()`, and so on. Each database call has a failing action with
each state it may leave: a failed insert keeps or loses the transaction, a failed
commit may have been done. `TerminateConnection` lets the database commit or
roll back an open transaction, since OCCI does either, depending on how the
session ends.

The owner goes two ways. If the constructor of `server_t` comes to its end (`Serve`),
`~server_t` stops the backend (`StopInterrupt`, `StopJoin`) and destroys it with no worker
left (`Destroy`). If it throws after `start()` (`ConstructorThrows`: the address is in use, for
example), nobody has called `stop()`: `~oracle_t` destroys the connection under the running worker
(owner `"stripped"`), then `~base_impl_t` interrupts (`DestroyBase`, `"dismantled"`), joins, and
only then is the memory freed (`DestroyJoin`). In `"stripped"` a call of the worker uses the
connection that is gone; in `"dismantled"` the object has the virtual functions of the base
class, of which `begin_batch_impl` and `end_batch_impl` do nothing (`BaseBatch`) and
`save_message_impl` is pure. `UseRuin` is the call of what is gone; the model ends there
(`"undefined"`), and **it is reachable**: no property and no theorem says that the
worker keeps its hands off a backend on its way down. What holds then is that it has no
message to save (`NothingTaken` of the proofs, `NothingSavedIntoRuin` of `Server`), that it is joined
before the memory goes (`QuietWhenGone`), and, unless the use of the ruin stops it, that the
join returns (the second half of `IdleStopReturns`). The states `"gone"` and `"undefined"` are the end:
`Terminated` stutters there so that TLC's deadlock check is kept on for all runs of this
module.

A message is `Lost` when it was accepted and is neither queued, held by the
worker, inserted nor committed. `AbstractStore` allows a loss in two ways: with
an error logged in the same step, or when the backend is destroyed. It does not
allow a lost message to come back or a committed one to go.

### OmnicommSession

One device per controller number, each with a sequence of connections
(`Link = <<controller, n>>`); old connections may stay open on the server while the
device uses a new one. Per connection the server keeps `open`, `buffer_`,
`controller_id_`, `protocol_state_`, and `late` (a read had completed when the
socket was closed). `io` says which handler the io thread runs. The handlers are
cut into steps only where a crash in between matters: after each record handed
over, and between changing the map of counters and writing the file. `Crash` in
the second place restores any file that is a cut or partial version of what was
being written; a cut number is a smaller one. `SaveFails` is the other way a save can go
wrong: the file cannot be opened and stays old, or the archive throws half-way and leaves
part of it; `save_counters` swallows both, and the device is answered as if nothing had
happened.

`stored` is the history of what `add_message` took, `number` being the device's
number of the record and `label` the number the server writes into the message.
Faults (bounded together by `MaxFault`): a crash; `add_message` refusing because the
queue is full; an answer sent from a freed buffer, which arrives as garbage
(`async_send` is given a pointer into a local vector of `send`); a broken link; a save of the
counters that fails.

The device is external: it numbers its records upwards, uploads from the record
requested, in packets, then the empty packet that ends the archive, obeys
deletes, confirms them, sends a new record as current data once the archive is
drained, reconnects when a connection is gone, and gives up a connection on
which nothing happens before the archive is drained. It may also end a connection in good
order (`Hangup`), with nothing under way but possibly in the middle of an upload, with records
taken that it still has. A device has `MaxConn` connections. Without a fault it may end all of
them but the last in this way (`ConnectionLeft`). The first fault comes only while there is a
connection left for each of the `MaxFault` faults (`FaultHappens`), and after it these are kept, so that the
device can connect again after the last fault, which the liveness properties need: each behaviour
spends its connections on reconnects in good order, on faults, or on both. That current data come only
from a drained device is an assumption the code makes and does not check:
`process_current_data` sets the counter to the number of the record whatever the
state, so a device that sent them during an upload would lose its archive.

### Framing

Bytes are numbers. `wire` holds the bytes under way, `Receive` takes any number of
them (fewer than `ReadSize`, the size of `async_buffer_`), runs them through
`store_data` and enters the loop; one action per way the loop can go on or end:
`ProcessMessage`, `ChecksumError` (stop the client, erase what was processed),
`HandlerThrows` (stop the client, erase nothing), `LoopEnds` (incomplete frame or no
prefix). `sent` keeps, with each frame, how many bytes there were up to its end
(`upto`), which says whether it has arrived whole (`Arrived`). `FullRead` is `handle_read`'s treatment of a read that fills the buffer.
What a handler does is left to `OmnicommSession`; here it returns or, if its
message can make it, throws.

Bytes that precede a prefix stay in `buffer_` until a frame after them is
processed, as in the code. The checksum of a message from the device is read
high byte first; `send` writes that of the server's own messages low byte first.
Both are modelled as they are, since only the devices' documentation could say
whether that is meant.

### Communicator and Ledger

`Communicator` joins `StoreRecord` of the session with `Accept` of the abstract store
(`AddMessage`), lets the worker commit what is pending, oldest first
(`WorkerCommits`, justified by `FifoOrder` and `BackendImplementsStore`), lose messages
with a logged error (`WorkerFails`), and lets a restart decide what of the memory
reached the table (`Restart`, which is `Crash` of the session and the end of the store
in one step). The store's numbers are mapped to the device's records by the
history `took`.

`Ledger` has no protocol: records are made, taken, committed, dropped in an
incident, and forgotten by their device once taken. The refinement says where a
loss can happen at all. `process_current_data` acknowledges what is in memory
only (`protocol.cpp:407`), so `Ledger` cannot promise more than it does: a record that
its device forgot and that is not in the table is in memory, or an incident
accounts for it.

### RecReg

Of each of the eight messages the generated code has the same fields in five
places, and the module translates each place for itself: the class members
(`General`), `Clear` (`General_Clear`), the parser's switch (`General_Parse`: number, name,
how the value is read), the serializer (`General_Serialize`, in its order) and
`ByteSize` (`General_ByteSize`: the bytes of the tag). The generic operators below them
are one turn of the parser's loop (`MergePartialFromCodedStream`, `ReadField`,
`SkipField`), writing, measuring and merging. Bytes on the wire are a sequence of items
with number, wire type and value; groups hold items. `whole` says that the bytes
did not end inside the item: of bytes that end inside a length-delimited field
the beginning is kept, of a number nothing. `torn` says of one that is not whole that the
bytes end inside a value. The difference matters for packed numbers, the events of a
record: the library reads them up to a limit it lowers to the end of the bytes, so a
record cut between two events is accepted with the events that came, and nothing
notices (`message.pb.cc:4732`); one cut inside an event is refused.

`Encodes(items, message, whole)` is what is assumed of devices: `items` are the bytes of
`message`, or their beginning, written by any serializer of the protobuf format. The
fields may stand in any order, in the record and in each group, fields of another
version of `message.proto` (`Foreign`) between them, and only the last item may be cut
(`Beginning`). The events stand in one packed item, as the generated code writes them.

Left out: varints above 2^31 (TLC's integers), groups inside unknown groups, and
the verification of UTF-8, which only logs. The parsing of one field is the
library's and external.

### InfoPackage

The loop over the payload of one data frame: `i` is the offset, `k` the number of
records passed, `message` the record under work, `event` the events of it that are
done, `data` the map that serves every message, as in the code. `ReadRecord` is the body
of the outer loop up to the inner one: the length is checked and the record read by
`ParseFromArray` of `RecReg`, whole or cut short. `AddEvent` is one turn of the inner loop: the
map is cleared, printed from the record and becomes a message. `NextRecord` goes on.
A message carries the numbers of its record and event, which the code does not
have, so that properties can say what it was printed for. The tables `extract_General` to `extract_LOG` say under which keys a
field is printed; a printed value is the field and what was read of it. Of a
navigation group every field is printed, one that did not come as 0:
`ParseFromArray` reports that a required field is missing, the code logs `Wrong
message format` and uses what there is.

Frames with a `data_len` of 7 or 8 are excluded (`PacketAssumption`): they pass
`check_length`, which counts the checksum as data, and `get_im_length` would wrap.

### Startup and Server

`phase` is how far `main` and `server_t` have come; every step that can throw goes to
`"ended"`, or to `"destroy"` once there is a backend (`StartFails`: no resources for one more
thread; `SignalsFail`: a handler cannot be installed, with those before it in place or not). `backend` says how much of the
`oracle_t` object is left: its own members go first (`"stripped"`), then the base class
joins the worker (`"base"`). The worker is `work_proc` in three places: asleep, in a batch
with nothing to save, saving. In `"stripped"` a batch uses a destroyed connection:
the phase becomes `"undefined"` and the model ends there.

The io loop is `io`: the open sockets, how many reads and writes of each client are
in progress, and the queue of completed operations in the order they completed.
The functions of `client_t` are operators from one such state to the next
(`handle_read` starts the next read, then runs `recive`, which may answer and may
throw); the handlers of `server_t` are actions on the head of the queue. `Alive` are
the clients a `shared_ptr` holds: the list's and the one being accepted. A handler
whose client is not alive is `HandleDestroyed` and leads to `"undefined"`, except an aborted
read, which touches nothing. This is reachable: a write fails and stops the
client, its read had completed as well, and the timer's handler stands between
the two in the queue. No property claims otherwise.

`handle_accept` and `handle_timer` have branches for a closed acceptor and a cancelled timer;
neither ever happens, and they are left out.

## The runs

| run | bounds | states | shows |
|---|---|---|---|
| `store` | queue of 2, 5 calls, 3 failures | 52 k | `FifoOrder`, `ConnectedWhileSaving`, `QuietWhenGone` and the refinement of `AbstractStore` under every interleaving, a constructor of `server_t` that throws included; under fairness `AcceptedIsSettled`, `IdleStopReturns` |
| `store_stop_hang` | no failure | | violation: `StopReturns` |
| `session_safety` | 1 device, 2 records, 3 connections, 2 faults | 1.0 M | `DeletedIsStored`, `CounterIsStored`; without a fault `OnceWithoutFault` over two reconnects, also in the middle of an upload |
| `session_two` | 2 devices, 1 record each, 2 connections each, 1 fault | 0.5 M | `DeletedIsStored`, `CounterIsStored` across controllers that share map and file |
| `communicator` | 1 device, 2 records, 2 connections, 1 fault, 1 error | 0.2 M | `KeepsLedger` (the refinement of `Ledger`); `TableInOrder`, also over a reconnect without a fault; under fairness `EveryRecordSettled`, `EveryRecordDeleted` |
| `session_label` | no fault | | violation: `LabelIsNumber` |
| `session_idle` | no fault | | violation: `IdleIsClosed` |
| `framing` | 2 frames out of 5, good or damaged; reads of up to 8 bytes | 26 k | `FramesInOrder`, `PromptDelivery`, `AnswersDecode`; the checksum: `DamageIsNoticed`, `MatchesReference` |
| `framing_full_read` | 2 frames, buffer of 14 bytes | | violation: `ClosedForCause` |
| `recreg` | see `MCRecReg`: records that between them have every field; pairs, every cut, unknown items in every place | 13 k | `ReadsBack`, `SizeIsLength`, `CutIsNoticed`, `UnknownIsCarried` |
| `info` | packets of 1 to 3 records, whole and cut, length right, short or long by one; a record in another order with a foreign field; one cut between its events | 7.9 k | `OwnRecordOnly`, `NoFieldOverwritten`, `EventsInOrder` |
| `server` | 25 combinations of parameter and file; 3 client objects, 1 descriptor, 1 waiting connection, 1 answer under way per client | 0.2 M | `ReadyWhenRunning`, `OperationsFollowSocket`, `NothingSavedIntoRuin`; under fairness `ClosedIsDropped`, `WaitingIsAccepted`, `SignalEnds` |

### Why the bounds are enough

* `StoreBackend`: a queue of 2 is filled, refused and taken over while calls go on; 5 calls
  give a committed, an inserted, a held and a queued message at the same time;
  3 failures combine a failed insert, a failed commit and a failed reconnect.
  What the bounds cannot show is proved for all of them (below).
* `OmnicommSession`: an overlap of an old and a new connection with a crash in it
  needs two faults and three connections. Two records make a packet with an
  inside, where a refusal stores half of it, and two packets with a reconnect between
  them. What is promised while nothing fails (`OnceWithoutFault`, `TableInOrder`, `EveryRecordDeleted`) is
  exercised by the behaviours that spend their connections on reconnects in good order. With
  `MaxFault = 0`, three connections and more records (four in `session_safety`, 54 k states; three in
  `communicator`, 60 k states) the outcome is the same.
* `Framing`: two frames can arrive in one read, in several, or with a read ending inside the
  second; the frames have no data, escapes in their data, an escaped byte in
  either half of the checksum; what precedes a frame may end in the escape byte.
  Three frames (0.8 M states) gave the same.
* `Communicator`: two records make a packet that is half committed, half in memory
  when the process dies; one error and one fault meet in either order.
* `RecReg`: the fields of a message are independent of each other except through
  their numbers and names, so records that have every field once, with values of
  each sign and of one and more bytes, exercise every row of the tables.
* `InfoPackage`: a stale field needs a record with it and a later one without it;
  between them the records have every field, two events, no event, and a
  navigation group that is cut.
* Checksum: the step function depends on the remainder's high byte and the data
  byte only through their exclusive or; with every value of every byte of the
  frames every entry of the table is used.
* `Server`: with one descriptor a second connection meets the shortage; of three
  objects one can be connected, one destroyed with handlers left, one waiting to be
  accepted. One read and one write per client are enough to have one handler find
  what the other left.

`CHECK_DEADLOCK FALSE` stands in the `session_*` and `framing*` runs because the devices
stop in them (they have made all their connections and records, or sent their
frames), in `communicator` for the same reason, and in `recreg` and `info` because records
and packets end. In `store` and `server` deadlock is checked: the end of the process
stutters.

### Fairness

* `StoreBackend`: `WF(Worker)`, the operating system schedules the thread, and
  `WF(StopJoin)` and `WF(DestroyJoin)`, the joining thread is woken when the worker ends. Messages and a
  stop need never come, and failures are bounded by `MaxErrors`.
* `OmnicommSession`: `WF(Server)`, the io thread runs its queued handlers and the
  network delivers what stays connected; `WF(Talk(c))` and `WF(DeviceTimeout(c))`,
  the device keeps reconnecting, uploads what was requested, and gives up a
  connection that is dead. Faults and new records are not forced. No fairness
  is put on any choice inside an action.
* `Communicator`: the same, and `WF(WorkerCommits)`, which is what `AcceptedIsSettled` says of
  the backend.
* `Server`: the main thread and the worker run, the timer expires, and the operating
  system reports a connection that waits. Data, answers, errors and signals need
  never come.

## What the code does not keep

* `StopReturns`: `interruption_point()` in `work_proc` (`base.cpp:128`) stands inside the
  inner `try`, whose `catch (...)` consumes `boost::thread_interrupted`. A stop whose
  interruption comes between two inserts is forgotten and `join()` waits for
  ever; the outer handler (`base.cpp:145-146`) shows that the interruption was meant to
  end the thread. `IdleStopReturns` says when `stop` does return.
* `LabelIsNumber`: a packet with `len` records ending in number `n` is stored under `n - len`
  to `n - 1` (`protocol.cpp:424`), while `n` is the number of its last record
  (`transport_messages.hpp:123`, and `send_request` asks for `n + 1` next).
* `IdleIsClosed`: `recive_timeout` of `communicator.conf:30-32` is not implemented.
  (`current_delete_counter`, lines 34-36, is not either: current data are deleted
  one by one.)
* `ClosedForCause`: a read of exactly 8192 bytes closes the connection
  (`client.cpp:136-139`), although both frames in it are good and small: `ClosedForCause` allows a
  connection to be closed for a damaged frame or an exception of a handler, and the run
  has neither.

Observed and modelled, without a promise in the repository they would break: a
delete that was garbled is not repeated before the next record or connection
(this is why `EveryRecordDeleted` promises nothing after a fault); an error in a batch
drops the rest of it (allowed by `AbstractStore` as a logged loss).

## What is proved

`StoreBackendProofs`, for every capacity `MaxMessages >= 1` and all bounds
`MaxCalls`, `MaxErrors` in `Nat` (the assumptions of `StoreBackend`, nothing else):

* `TypeCorrect == Spec => []TypeOK`. `TypeOK` is not inductive: that `saved` stays within the
  batch needs `SavesSomething`, something is left of the batch whenever the worker
  is about to save. `TypeInv` is the conjunction.
* `OrderKept == Spec => []FifoOrder`. `OrderInv` adds to `FifoOrder` that everything held
  anywhere is below the number of the next call, which is what makes
  appending to the queue keep the order. The lemmas at the head of the module say
  what appending, concatenating and cutting sequences do to order.
* `ConnectionAlive == Spec => []ConnectedWhileSaving` and
  `DestroyedIsQuiet == Spec => []QuietWhenGone`, from `LifeInv`, which
  ties the state of the owner, of the worker and of the connection together: a joined
  worker has ended (`JoinedWorker`), before `start` there is none (`NotStarted`), and a backend whose
  owner never came to serve has taken nothing (`NothingTaken`), which is why a destruction
  under the running worker leaves nothing queued or uncommitted. `ConnectedWhileSaving` speaks of a
  backend that is `Whole`, `QuietWhenGone` of the moment the memory goes; neither excludes
  `UseRuin`.
* `BackendImplementsStore == Spec => ImplementsAbstractStore`: the refinement mapping takes
  `durable` to the set of rows, `lost` to `Lost` and `serving` to `owner # "gone"`.
  `PlaceFacts` says where a message can be; each action is then shown to be a step of
  the abstract store or a stutter. That a lost message does not come back follows
  from `OrderInv` and the places, not from the bounds.

`LedgerProofs`, for any set of records:

* `Accounted == Spec => []NoSilentLoss`. `NoSilentLoss` is inductive as it stands: the places a
  record can be in only change by moves that the record survives.

`SessionProofs`, for every set of controllers (not empty, and `NoController` not
one of them: `ControllerAssumption`) and all bounds on records, packets, connections and
faults (`BoundsAssumption`):

* `DeletedAreStored == Spec => []DeletedIsStored` and `CountersAreStored == Spec => []CounterIsStored`.
  Both say that an initial piece of a device's archive was taken, and neither
  is inductive: why a counter may be set to the last record of a frame is only
  found in what was sent before. `Inv` follows the frames. The `Pipe` of a
  connection is its unerased buffer and what is under way to it. `NoGap`: the
  records before a frame are taken or come earlier in the same pipe. `LinkInv` adds
  that the device's own position (`sending`, `drained`) has the same property and that
  the connection knows its controller, unless it has only been introduced.
  `AnswerInv`: a delete or request under way covers records that were taken.
  `DeviceInv`: the same of `deleted`, of the counter and, unless it is being written, of the
  file. `HandlerInv`: the handler has taken the frames behind it and the first
  records of the one it is at. `FreshInv`: a connection not made yet is empty.
  `NoGap` is claimed of `Active` connections only: after a crash or a refusal the pipe of a
  connection may have gaps, and what has to be shown is that nobody reads it any
  more. One lemma per action shows what it does to the pipes, and that connections it
  does not touch keep theirs.
* `TypeCorrect == Spec => []TypeOK`. That a stored record names a device needs the argument
  above (data are handled only on a connection that knows its controller), so it
  is a conjunct of `Inv` (`StoredInv`), not of `TypeInv`.

`SessionOrderProofs`, same assumptions:

* `TakenOnce == Spec => []OnceWithoutFault`. While `faults = 0`, `Calm` holds: a device has one
  connection with anything in it, the one it holds (`HeldInv`); that connection begins
  with one exchange, of which exactly one message is under way at any time
  (`StartInv`), and has no request in it afterwards (`StartedInv`); the records still to
  come are later than the counter and in order (`AheadInv`); and the counter is the last
  record taken, but for those of the frame under work (`ExactInv`). The last two are what
  forbids a second taking; the first three are what keeps a second request, and
  with it a second upload, out.

`CommunicatorProofs`, with `MaxErrorAssumption` in addition:

* `SystemKeepsLedger == SystemSpec => KeepsLedger`: the system implements `Ledger`. Each step of the
  system is a step of the protocol or leaves it alone (`SystemStepsNext`), so `Inv` holds
  here too; `SystemInv` adds that what was taken was made (`TakenIsMade`) and that the store
  was given it (`TakenIsGiven`). A device that obeys a delete gives up what the ledger
  lets it: here `DeletedIsStored` is used.
* `NothingLostSilently == SystemSpec => []TheLedger!NoSilentLoss`, the answer to the question at the
  head of this file.
* `TableIsInOrder == SystemSpec => []TableInOrder`, from `Calm` and `GivenInOrder`: the store was given
  the records of a device in ascending order as long as nothing failed.
* `SystemTypeCorrect == SystemSpec => []SystemTypeOK`.

`ServerProofs`, for every set of configurations whose sections are sequences of
options and a kind (`ConfigAssumption`), every set of client addresses (0 not among them),
and all bounds on descriptors, waiting connections and answers:

* `OperationsFollow == Spec => []OperationsFollowSocket`. The invariant `LoopInv` is about the queue:
  the accept is the only operation of the client it is for, and its result says
  whether the socket is open; what was aborted belongs to a closed socket; one
  accept is under way; of a client that is served the reads in progress and the
  queued handlers of reads add up to one; nothing else has an operation. It is
  stated of a state of the loop, a client being accepted and a list (`LoopOK`), with a
  set of clients whose read is just being handled, so that each function of `client_t`
  has a lemma of its own (`ReadLoop`, `SendLoop`, `StopLoop`) and a handler is their composition,
  in the order of the code. A new client gets an address that no queued handler
  holds (`Unused`), and `LoopInv` needs that; nothing is lost by it, since a handler of a
  destroyed client is undefined behaviour, and the end of the model, whether its
  memory is used again or not.
* `RunsReady == Spec => []ReadyWhenRunning` and `RuinIsNotUsed == Spec => []NothingSavedIntoRuin`, from `LifeInv`,
  which says phase by phase what is built (`StageInv`), what is known of the settings
  (`SettingsInv`) and that the worker has nothing to save before the loop runs and when
  the backend is taken down (`RuinInv`).
* `TypeCorrect == Spec => []TypeOK`, from both.

`FramingProofs`, for any set of bodies of at most 65536 bytes (`BodyAssumption`: the
length of the data has two bytes), any bytes between the frames in which no prefix
is hidden (`JunkAssumption`), any checksum of two bytes (`CrcAssumption`), any number of
frames and any size of the read buffer (`BoundsAssumption`):

* `InOrder == Spec => []FramesInOrder`, `Prompt == Spec => []PromptDelivery` and
  `TypeCorrect == Spec => []TypeOK`: wherever TCP cuts the stream, `process_message` gets each
  frame whole, once, in order and in the read that completes it, up to the first
  damaged one or the first exception. It is what lets
  `OmnicommSession` work on frames. Stuffing and destuffing are folds over bytes; the
  library's induction theorems take an operator, which the provers cannot
  instantiate, so the module first proves induction for the *set* of numbers or
  sequences a claim holds of (`NumberInduction`, `SeqInduction`), from the least number of a
  set. From it follow what a fold does with one byte more (`StuffStep`, `DestuffStep`), that
  destuffing in two parts is destuffing at once (`DestuffConcat`), and
  `DestuffStuff`: destuffing undoes stuffing. The invariant speaks of `Stream`, what `buffer_` would
  hold if all of `wire` were stored: that does not depend on how the reads cut the bytes.
  `Whole`: the stream is cut (`Cut`) into the frames that are not erased, each being bytes
  without a prefix, the prefix and the frame's `Payload`, and `end` is one of the
  cuts. `FrameFound` shows that a frame the loop takes for complete is the next piece, with
  its checksum right iff the device made it so; `FrameThere` the converse, that
  the loop takes it as soon as it is stored. For `PromptDelivery` the invariant also
  counts (`Counted`): the bytes of `wire` behind a frame's end say whether the frame is in
  the buffer, and between two reads the next one is not (`Waits`).
* `Decodable == Spec => []AnswersDecode`, from `FramesInOrder` and `DestuffStuff`.

`InfoPackageProofs`, for any packets (`PacketAssumption`): any number of records that follow
each other and begin inside the data, their lengths right or not, each holding the
bytes of a message of `message.proto`, with any values, or the beginning of them
(`Encodes`); a `data_len` of 7 or 8 is excluded, as said above:

* `SaysOwnRecord == Spec => []OwnRecordOnly`, `LosesNoField == Spec => []NoFieldOverwritten`,
  `KeepsEvents == Spec => []EventsInOrder` and `TypeCorrect == Spec => []TypeOK`. None of them is
  inductive: that the next message will be right is only known from what the
  parser holds. `IInv` says it: `Place`, the offset is where the next record begins, and
  everything was passed when the loop has ended (the next record would begin before
  the end of the data, so the loop would go on); `AtWork`, `message` says what the record
  under work says (`Reads`); `Left` and `Ascending`, every message left is right and belongs to
  an event passed; `Passed`, every event passed has its message. TLC had found these
  parts to hold of the packets of `info` before they were proved.
* `RecordRead`, on which `ReadRecord` rests: `ParseFromArray` of the bytes of a message `Reads` it. The
  parser is a fold in a fold; the functions its definition speaks of are shown to
  exist (`FoldExists`) and to go item by item (`RecordRun`, `GroupRun`), and then, by induction on the
  items read, to hold what the device wrote so far. Each row of the tables is looked
  at once (`Rows`, `RecRegRows`): a number stands for one field, which is read as it is
  declared and written. `StepWritten`, `StepForeign` and `StepBeginning` are the three things
  an item can be.
* `Extract`: what is printed of a record. No key stands for two fields (`KeysRight`, with `Owner` as the
  inverse of the tables), so no assignment of a later group hides an earlier one.
* `RoundTrip`: what the serializer writes of any message the parser reads back, because its
  items are an encoding (`MessageEncoded`), so `Encodes` is no empty assumption. `ReadsBack` says
  more, of repeated fields and of two records in the same bytes, and is only
  checked.

Only model-checked:

* liveness (`AcceptedIsSettled`, `IdleStopReturns`, `EveryRecordSettled`, `EveryRecordDeleted`,
  `ClosedIsDropped`, `WaitingIsAccepted`, `SignalEnds`), which the prover does not reach;
* of `RecReg`, what `MCRecReg` says of repeated fields, merging, sizes and unknown items
  (`ReadsBack`, `SizeIsLength`, `CutIsNoticed`, `UnknownIsCarried` and its `TypeOK`): what the proofs need of
  the parser is in `RecordRead`, which covers neither the bytes counted by `ByteSize`, a sum
  over a set, nor which unknown items are kept;
* the checksum: its definition uses bitwise operators, which the provers do not
  reason about.

## What is not modelled, and why

* Of `info_package.cpp`: the arithmetic of units and dates and the text of the
  messages; `info_protocol_t` (lines 552-1114), which nothing calls to any effect.
* Of the generated code: descriptors, reflection, constructors and swaps, which
  hold no logic of this program.
* `protocol.cpp:469`, the wrap of a record number after 2^32 records, and `protocol.cpp:405`,
  current data in the middle of an upload: the modelled devices do neither, and
  the code does not check.
* RabbitMQ (empty stub), MongoDB (does not match the base class, not built), the
  Windows main, the hex dump, and the test program.
* Log output, SQL text, credentials, date conversion.

## Plan

Order by what is at stake; all of it is done.

1. `AbstractStore`, `StoreBackend` and its theorems: the last place where records can be lost.
2. `OmnicommSession`: who may delete what, and when.
3. `Framing`, `Crc16`: from bytes to frames.
4. `RecReg`, `InfoPackage`: from a payload to messages.
5. `Startup`, `Server`: the process, the accept loop, the life of clients.
6. `Communicator`, `Ledger`: the whole.
7. Proofs of the protocol, of the refinement of `Ledger` and of the server.
8. Proofs about `Framing`: destuffing undoes stuffing, and the frames of a stream.
9. Proofs about `InfoPackage` and the parser of `RecReg`: every record of a packet comes out,
   in order, and says what the device said.
