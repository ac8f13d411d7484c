------------------------------- MODULE Server -------------------------------
(***************************************************************************)
(* The io loop: src/server.cpp and src/client.cpp on boost::asio.          *)
(*                                                                         *)
(* One thread runs the handlers of completed operations in the order they  *)
(* completed.  The operations are one accept, the timer, the signals, and  *)
(* of each client one read and the writes its protocol asked for.  Closing *)
(* a socket completes its operations as aborted.  An operation started on  *)
(* a closed socket completes at once with an error.                        *)
(*                                                                         *)
(* The handlers hold the address of their client, and only the list of the *)
(* server keeps the client alive: a handler that runs after the timer has  *)
(* dropped its client uses a destroyed object.  What follows is undefined: *)
(* the phase says so and the model ends there.                             *)
(*                                                                         *)
(* asio is modelled from how the code uses it.  The acceptor and the timer *)
(* are never closed or cancelled, so the code for that is left out.        *)
(***************************************************************************)
EXTENDS Startup, FiniteSets

CONSTANTS Client,        \* addresses of client objects: a bound on those alive
          Descriptors,   \* sockets the process may have open
          MaxWaiting,    \* bound: connections waiting to be accepted
          MaxWrites      \* bound: answers to a client not yet handled

ASSUME ClientAssumption == Client \in SUBSET Nat /\ 0 \notin Client
ASSUME BoundsAssumption == {Descriptors, MaxWaiting, MaxWrites} \subseteq Nat \ {0}

VARIABLES waiting,     \* connections in the backlog of the acceptor
          accepting,   \* the client the outstanding accept is for, or 0
          clients_,    \* as in server_t, order left out
          timer,       \* the timer is running
          io           \* open sockets, operations in progress, completed ones

loop == <<waiting, accepting, clients_, timer, io>>
vars == <<process, loop>>

Kind == {"accept", "read", "write", "timer", "signal"}
Result == {"ok", "full", "error", "aborted"}

\* A completed operation, whose handler is queued.
Done(kind, c, result) == [kind |-> kind, client |-> c, result |-> result]

\* The places in the queue of the handlers of a client, and their number.
Places(kind, c) == {i \in 1..Len(io.ready) : io.ready[i].kind = kind /\ io.ready[i].client = c}
Queued(kind, c) == Cardinality(Places(kind, c))

\* Clients that exist: a shared_ptr to them is held.
Alive == (clients_ \cup {accepting}) \ {0}

\* Addresses a new client may get.
Unused == {c \in Client \ Alive : \A i \in 1..Len(io.ready) : io.ready[i].client # c}

Idle == [open |-> {}, reads |-> [c \in Client |-> 0], writes |-> [c \in Client |-> 0],
         ready |-> <<>>]

Init == /\ ProcessInit
        /\ waiting = 0 /\ accepting = 0 /\ clients_ = {} /\ timer = FALSE /\ io = Idle

-----------------------------------------------------------------------------
(* client_t, as functions of the state of the io loop.                     *)

Copies(h, n) == [i \in 1..n |-> h]

\* Closing the socket aborts what is in progress.
stop(s, c) ==
    IF c \notin s.open THEN s
    ELSE [open |-> s.open \ {c},
          reads |-> [s.reads EXCEPT ![c] = 0],
          writes |-> [s.writes EXCEPT ![c] = 0],
          ready |-> s.ready \o Copies(Done("read", c, "aborted"), s.reads[c])
                            \o Copies(Done("write", c, "aborted"), s.writes[c])]

async_read_some(s, c) ==
    IF c \in s.open THEN [s EXCEPT !.reads[c] = @ + 1]
                    ELSE [s EXCEPT !.ready = Append(@, Done("read", c, "error"))]

send(s, c) ==
    IF c \in s.open THEN [s EXCEPT !.writes[c] = @ + 1]
                    ELSE [s EXCEPT !.ready = Append(@, Done("write", c, "error"))]

\* The first read, unless the device is gone again and remote_endpoint throws.
client_start(s, c, gone) == IF gone THEN stop(s, c) ELSE async_read_some(s, c)

\* Mutant: the next read is started again behind the data.
recive_reads_again(s, c, answers, throws) ==
    LET sent == IF answers THEN send(s, c) ELSE s IN
    IF throws THEN stop(sent, c) ELSE async_read_some(sent, c)

\* The protocol may answer, and it may throw, before or after that.
recive(s, c, answers, throws) ==
    LET sent == IF answers THEN send(s, c) ELSE s IN
    IF throws THEN stop(sent, c) ELSE sent

\* Mutant: a read that fills the buffer is logged and the handler returns.
handle_read_full_ignored(s, c, result, answers, throws) ==
    CASE result = "ok" -> recive(async_read_some(s, c), c, answers, throws)
      [] result = "error" -> stop(s, c)
      [] OTHER -> s

\* The next read is started before the data go to the protocol.
handle_read(s, c, result, answers, throws) ==
    CASE result = "ok" -> recive(async_read_some(s, c), c, answers, throws)
      [] result \in {"full", "error"} -> stop(s, c)
      [] result = "aborted" -> s

handle_write(s, c, result) == IF result = "error" THEN stop(s, c) ELSE s

-----------------------------------------------------------------------------
(* The operating system and the devices.                                   *)

Complete(s, kind, c, result) == [s EXCEPT !.ready = Append(@, Done(kind, c, result))]

Connect ==
    /\ accepting # 0 /\ phase \notin Over
    /\ waiting < MaxWaiting
    /\ waiting' = waiting + 1
    /\ UNCHANGED <<process, accepting, clients_, timer, io>>

\* A connection is taken from the backlog if there is a descriptor for it.
\* Otherwise it stays there, and the accept fails.
AcceptCompletes ==
    /\ phase = "running" /\ accepting # 0 /\ waiting > 0
    /\ Unused # {}      \* bound
    /\ Queued("accept", accepting) = 0
    /\ IF Cardinality(io.open) < Descriptors
       THEN /\ waiting' = waiting - 1
            /\ io' = [Complete(io, "accept", accepting, "ok") EXCEPT !.open = @ \cup {accepting}]
       ELSE /\ waiting' = waiting
            /\ io' = Complete(io, "accept", accepting, "error")
    /\ UNCHANGED <<process, accepting, clients_, timer>>

\* Data arrive, or as much as the buffer holds, or the connection ends.
ReadCompletes(c) ==
    /\ phase = "running" /\ io.reads[c] > 0
    /\ \E result \in {"ok", "full", "error"} :
          io' = [Complete(io, "read", c, result) EXCEPT !.reads[c] = @ - 1]
    /\ UNCHANGED <<process, waiting, accepting, clients_, timer>>

WriteCompletes(c) ==
    /\ phase = "running" /\ io.writes[c] > 0
    /\ \E result \in {"ok", "error"} :
          io' = [Complete(io, "write", c, result) EXCEPT !.writes[c] = @ - 1]
    /\ UNCHANGED <<process, waiting, accepting, clients_, timer>>

TimerExpires ==
    /\ phase = "running" /\ timer
    /\ timer' = FALSE
    /\ io' = Complete(io, "timer", 0, "ok")
    /\ UNCHANGED <<process, waiting, accepting, clients_>>

\* A signal after bind_signals, while the server is built or runs.
Signal ==
    /\ bound /\ phase \in {"listen", "timer", "running"}
    /\ Queued("signal", 0) = 0
    /\ io' = Complete(io, "signal", 0, "ok")
    /\ UNCHANGED <<process, waiting, accepting, clients_, timer>>

-----------------------------------------------------------------------------
(* server_t                                                                *)

\* A new client, and an accept for it.
start_accept == \E c \in Unused : /\ \A d \in Unused : c <= d
                                  /\ accepting' = c

start_listen ==
    /\ Listens
    /\ start_accept
    /\ UNCHANGED <<waiting, clients_, timer, io>>

\* The end of the constructor, and run().
run ==
    /\ Runs
    /\ timer' = TRUE
    /\ UNCHANGED <<waiting, accepting, clients_, io>>

\* The next completed operation.
Handles(kind) == phase = "running" /\ io.ready # <<>> /\ Head(io.ready).kind = kind
Completed == Head(io.ready)
Popped == [io EXCEPT !.ready = Tail(@)]

\* Mutant: an error ends the accepting.
handle_accept_once ==
    /\ Handles("accept")
    /\ IF Completed.result = "ok"
       THEN /\ \E gone \in BOOLEAN : io' = client_start(Popped, accepting, gone)
            /\ clients_' = clients_ \cup {accepting}
            /\ start_accept
       ELSE io' = Popped /\ accepting' = 0 /\ UNCHANGED clients_
    /\ UNCHANGED <<process, waiting, timer>>

handle_accept ==
    /\ Handles("accept")
    /\ IF Completed.result = "ok"
       THEN /\ \E gone \in BOOLEAN : io' = client_start(Popped, accepting, gone)
            /\ clients_' = clients_ \cup {accepting}
       ELSE io' = Popped /\ UNCHANGED clients_
    /\ start_accept
    /\ UNCHANGED <<process, waiting, timer>>

\* An answer may be asked for while the bound allows one more.
MayAnswer(c) == io.writes[c] + Queued("write", c) < MaxWrites

\* Data may leave messages in the backend.
HandleRead ==
    /\ Handles("read") /\ Completed.client \in Alive
    /\ \E answers, throws \in BOOLEAN :
          /\ answers => Completed.result = "ok" /\ MayAnswer(Completed.client)
          /\ throws => Completed.result = "ok"
          /\ io' = handle_read(Popped, Completed.client, Completed.result, answers, throws)
    /\ IF Completed.result = "ok" THEN messages' \in {messages, TRUE} ELSE UNCHANGED messages
    /\ UNCHANGED <<phase, main, bound, backend, worker, interrupted, swallowed,
                   waiting, accepting, clients_, timer>>

HandleWrite ==
    /\ Handles("write") /\ Completed.client \in Alive
    /\ io' = handle_write(Popped, Completed.client, Completed.result)
    /\ UNCHANGED <<process, waiting, accepting, clients_, timer>>

\* An aborted read does nothing, so its client need not exist any more.
HandleAborted ==
    /\ Handles("read") /\ Completed.client \notin Alive /\ Completed.result = "aborted"
    /\ io' = Popped
    /\ UNCHANGED <<process, waiting, accepting, clients_, timer>>

\* Any other handler uses the client, if only its logger.
HandleDestroyed ==
    /\ Handles("read") \/ Handles("write")
    /\ Completed.client \notin Alive
    /\ ~(Completed.kind = "read" /\ Completed.result = "aborted")
    /\ phase' = "undefined"
    /\ UNCHANGED <<main, bound, backend, thread, loop>>

\* Mutant: the condition is inverted.
drop_used_clients == clients_' = clients_ \ io.open

drop_unused_clients == clients_' = clients_ \cap io.open

\* Mutant: the timer is not started again.
handle_timer_once ==
    /\ Handles("timer")
    /\ io' = Popped
    /\ drop_unused_clients
    /\ UNCHANGED <<process, waiting, accepting, timer>>

handle_timer ==
    /\ Handles("timer")
    /\ timer' = TRUE
    /\ io' = Popped
    /\ drop_unused_clients
    /\ UNCHANGED <<process, waiting, accepting>>

\* Mutant: the handler says good-bye, and the loop goes on.
handle_stop_only_logs ==
    /\ Handles("signal")
    /\ io' = Popped
    /\ UNCHANGED <<process, waiting, accepting, clients_, timer>>

\* io_service::stop: run() returns, the queued handlers never run, and the
\* destructors release what the loop had.
handle_stop ==
    /\ Handles("signal")
    /\ phase' = "stopping"
    /\ waiting' = 0 /\ accepting' = 0 /\ clients_' = {} /\ timer' = FALSE /\ io' = Idle
    /\ UNCHANGED <<main, bound, backend, thread>>

RunHandler == \/ handle_accept \/ HandleRead \/ HandleWrite \/ HandleAborted
              \/ HandleDestroyed \/ handle_timer \/ handle_stop

-----------------------------------------------------------------------------
Environment == \/ Connect \/ AcceptCompletes \/ TimerExpires \/ Signal
               \/ \E c \in Client : ReadCompletes(c) \/ WriteCompletes(c)

Terminated == phase \in Over /\ UNCHANGED vars

Next == \/ (Main \/ Worker \/ Killed) /\ UNCHANGED loop
        \/ start_listen \/ run \/ RunHandler \/ Environment \/ Terminated

Spec == Init /\ [][Next]_vars

\* The two threads run, the timer expires, and the operating system reports a
\* waiting connection.  Nothing is assumed of devices and signals.
Fairness == /\ WF_vars((Main /\ UNCHANGED loop) \/ start_listen \/ run \/ RunHandler)
            /\ WF_vars(Worker /\ UNCHANGED loop)
            /\ WF_vars(AcceptCompletes)
            /\ WF_vars(TimerExpires)

LiveSpec == Spec /\ Fairness

-----------------------------------------------------------------------------
TypeOK ==
    /\ ProcessTypeOK
    /\ waiting \in 0..MaxWaiting
    /\ accepting \in Client \cup {0}
    /\ clients_ \subseteq Client
    /\ timer \in BOOLEAN
    /\ io \in [open : SUBSET Client, reads : [Client -> 0..1], writes : [Client -> 0..MaxWrites],
               ready : Seq([kind : Kind, client : Client \cup {0}, result : Result])]
    /\ Cardinality(io.open) <= Descriptors

\* The loop runs only on a complete start: no section of the file lacks an
\* option, the first one names a storage that was built in, the worker lives
\* and a signal is listened to (main, main_linux.cpp 56-84; the constructor of
\* server_t, server.cpp 30-57).
ReadyWhenRunning ==
    phase = "running" =>
        /\ \A i \in 1..Len(config.sections) : Needed \subseteq config.sections[i].has
        /\ config.sections # <<>> /\ config.sections[1].kind \in Supported
        /\ backend = "oracle" /\ worker \notin {"none", "exited"}
        /\ bound

\* The operations in progress follow the life of the sockets, through any
\* order of errors, exceptions, late handlers and clean-ups: a connection that
\* is served has exactly one read under way or completed, so it is neither
\* forgotten nor read twice into the same buffer; and asio holds no operation
\* of a client that was stopped or dropped, whose buffers may be gone
\* (handle_read, client.cpp 130-172; drop_unused_clients, server.cpp 195-209).
OperationsFollowSocket ==
    /\ \A c \in clients_ \cap io.open : io.reads[c] + Queued("read", c) = 1
    /\ \A c \in Client \ (clients_ \cap io.open) : io.reads[c] = 0 /\ io.writes[c] = 0
    /\ io.open \subseteq Alive

\* A worker that is still there when its backend is taken down finds nothing
\* to save, and the object is not freed before the worker has ended.  After a
\* run ~server_t has joined it (server.cpp 109).  After a start that failed
\* nobody has, and ~base_impl_t (base.cpp 31) joins it when ~oracle_t is over:
\* then no message was ever received.
NothingSavedIntoRuin ==
    backend \in {"stripped", "base", "gone"} =>
        \/ worker \in {"none", "exited"}
        \/ backend # "gone" /\ ~messages /\ worker # "saving"

\* A client whose socket is closed is dropped from the list within the run:
\* the timer keeps going whatever the other handlers do (server.cpp 152-166).
ClosedIsDropped ==
    \A c \in Client :
        c \in clients_ \ io.open ~> (c \notin clients_ \ io.open \/ phase # "running")

\* A waiting connection is accepted while there is a descriptor for it, also
\* after accepts that failed for want of one (handle_accept, server.cpp 188).
WaitingIsAccepted ==
    waiting > 0 ~> \/ waiting = 0 \/ phase \in Over \cup {"stopping", "destroy"}
                   \/ Cardinality(io.open) = Descriptors

\* A signal that arrives once the handlers are installed, also while the
\* server is still being built, ends the process, unless the worker lost its
\* interruption between two inserts (handle_stop, server.cpp 143-146).
SignalEnds == Queued("signal", 0) > 0 ~> phase \in Over \/ swallowed
=============================================================================
