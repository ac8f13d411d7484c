------------------------------- MODULE Startup -------------------------------
(***************************************************************************)
(* The process around the server: main of src/main_linux.cpp with          *)
(* src/settings.cpp, src/daemon.cpp, src/backends/factory.cpp, and the     *)
(* constructor and destructor of server_t (src/server.cpp) as far as the   *)
(* backend and its worker thread are concerned.                            *)
(*                                                                         *)
(* Every step of the start may throw; main catches, logs and returns, and  *)
(* what was built so far is taken down on the way.  Once start() has run   *)
(* the worker thread is there too, and it uses the backend while the       *)
(* constructor of server_t goes on or fails.                               *)
(*                                                                         *)
(* Left out: the pointer to the section "settings1", which nothing reads,  *)
(* and options of the wrong type, which end the start as missing ones do.  *)
(***************************************************************************)
EXTENDS Naturals, Sequences

CONSTANTS Config,      \* parameters of the program with configuration files
          Supported    \* storage kinds the program was built with

\* A section has some options, storage.kind among them.
ASSUME ConfigAssumption ==
    \A f \in Config : f.sections \in Seq([has : SUBSET STRING, kind : STRING])

VARIABLES phase,        \* how far main and server_t have come
          config,       \* argv[1], and communicator.conf: whether it can be read, its sections
          daemon_mode,  \* as in main
          options,      \* as in main
          bound,        \* the signal handlers are installed
          backend,      \* how much of the oracle_t object exists
          worker,       \* what the worker thread is doing
          interrupted,  \* interrupt() requested and not yet delivered
          swallowed,    \* history: an interruption was lost between two inserts
          messages      \* there are messages in the queue of the backend

process == <<phase, config, daemon_mode, options, bound, backend, worker,
             interrupted, swallowed, messages>>
main == <<config, daemon_mode, options>>
thread == <<worker, interrupted, swallowed, messages>>

\* The options parse_settings looks up: without one of them a section is not
\* served.
Needed == {"protocol", "workers", "listen.address", "listen.port", "storage.kind",
           "storage.address", "storage.port", "storage.name", "storage.username",
           "storage.password"}

Phase == {"arguments", "settings", "options", "daemon", "backend", "start", "signals",
          "listen", "timer", "running", "stopping", "joining", "destroy", "ended",
          "killed", "undefined"}
Over == {"ended", "killed", "undefined"}
Backend == {"none", "oracle", "stripped", "base", "gone"}
WorkerState == {"none", "asleep", "batch", "saving", "exited"}

ProcessInit ==
    /\ phase = "arguments" /\ config \in Config /\ daemon_mode = FALSE /\ options = <<>>
    /\ bound = FALSE /\ backend = "none"
    /\ worker = "none" /\ interrupted = FALSE /\ swallowed = FALSE /\ messages = FALSE

-----------------------------------------------------------------------------
(* main                                                                    *)

\* An exception: the catch block of main if nothing is built yet, or first
\* the members of the half-built server_t.
Throw == phase' = IF backend = "none" THEN "ended" ELSE "destroy"

\* The first parameter, if there is one, must ask for a daemon.
ParseArguments ==
    /\ phase = "arguments"
    /\ IF config.param = "other"
       THEN Throw /\ UNCHANGED daemon_mode
       ELSE phase' = "settings" /\ daemon_mode' = (config.param = "daemon")
    /\ UNCHANGED <<config, options, bound, backend, thread>>

\* Mutant: the password is optional.
MissingLenient(section) == Needed \ (section.has \cup {"storage.password"})

\* The options a section lacks; parse_settings throws if there is one.
Missing(section) == Needed \ section.has

parse_settings(section) == [kind |-> section.kind]

\* Every section of the file is read, and one that lacks an option is fatal.
read_settings_from_file ==
    /\ phase = "settings"
    /\ IF \/ ~config.readable      \* FileIOException, ParseException
          \/ \E i \in 1..Len(config.sections) : Missing(config.sections[i]) # {}
       THEN Throw /\ UNCHANGED options
       ELSE /\ options' = [i \in 1..Len(config.sections) |-> parse_settings(config.sections[i])]
            /\ phase' = "options"
    /\ UNCHANGED <<config, daemon_mode, bound, backend, thread>>

\* An empty configuration is fatal; init_protocol loads the counters and
\* never throws (OmnicommSession has them).
CheckOptions ==
    /\ phase = "options"
    /\ IF options = <<>> THEN Throw ELSE phase' = "daemon"
    /\ UNCHANGED <<main, bound, backend, thread>>

daemonize ==
    /\ phase = "daemon"
    /\ \/ phase' = "backend"
       \/ daemon_mode /\ Throw
    /\ UNCHANGED <<main, bound, backend, thread>>

\* factory::create for the first section only; the constructor of oracle_t
\* opens a connection.
CreateBackend ==
    /\ phase = "backend"
    /\ \/ /\ options[1].kind \in Supported
          /\ backend' = "oracle" /\ phase' = "start"
       \/ Throw /\ UNCHANGED backend      \* not supported, or no database
    /\ UNCHANGED <<main, bound, thread>>

start ==
    /\ phase = "start"
    /\ worker' = "asleep"
    /\ phase' = "signals"
    /\ UNCHANGED <<main, bound, backend, interrupted, swallowed, messages>>

\* There is no resource for one more thread.
StartFails ==
    /\ phase = "start"
    /\ Throw
    /\ UNCHANGED <<main, bound, backend, thread>>

bind_signals ==
    /\ phase = "signals"
    /\ bound' = TRUE
    /\ phase' = "listen"
    /\ UNCHANGED <<main, backend, thread>>

\* A handler cannot be installed; the ones before it are.
SignalsFail ==
    /\ phase = "signals"
    /\ Throw
    /\ bound' \in BOOLEAN
    /\ UNCHANGED <<main, backend, thread>>

\* The address is resolved, bound and listened at; the accept it ends with
\* is in Server.
Listens ==
    /\ phase = "listen"
    /\ phase' = "timer"
    /\ UNCHANGED <<main, bound, backend, thread>>

ListenFails ==
    /\ phase = "listen"
    /\ Throw
    /\ UNCHANGED <<main, bound, backend, thread>>

\* async_wait of the timer, and run().
Runs ==
    /\ phase = "timer"
    /\ phase' = "running"
    /\ UNCHANGED <<main, bound, backend, thread>>

-----------------------------------------------------------------------------
(* The way down: ~server_t, then its members, the backend first.           *)

\* Mutant: ~server_t leaves it to the destructor of the backend.
DestroyServerWithoutStop ==
    /\ phase = "stopping"
    /\ phase' = "destroy"
    /\ UNCHANGED <<main, bound, backend, thread>>

\* run() has returned: ~server_t calls stop(), which interrupts ...
DestroyServer ==
    /\ phase = "stopping"
    /\ phase' = "joining"
    /\ interrupted' = TRUE
    /\ UNCHANGED <<main, bound, backend, worker, swallowed, messages>>

\* ... and joins.
StopJoins ==
    /\ phase = "joining"
    /\ worker = "exited"
    /\ phase' = "destroy"
    /\ UNCHANGED <<main, bound, backend, thread>>

\* ~oracle_t: the connection and the environment go.
DestroyOracle ==
    /\ phase = "destroy" /\ backend = "oracle"
    /\ backend' = "stripped"
    /\ UNCHANGED <<phase, main, bound, thread>>

\* ~base_impl_t begins: the object has the virtual functions of its base
\* again, and stop() interrupts a thread that is still there.
DestroyBase ==
    /\ phase = "destroy" /\ backend = "stripped"
    /\ backend' = "base"
    /\ interrupted' = (worker \notin {"none", "exited"})
    /\ UNCHANGED <<phase, main, bound, worker, swallowed, messages>>

Finish ==
    /\ phase = "destroy" /\ backend = "base"
    /\ worker \in {"none", "exited"}
    /\ backend' = "gone"
    /\ phase' = "ended"
    /\ UNCHANGED <<main, bound, thread>>

-----------------------------------------------------------------------------
(* The worker thread: work_proc as StoreBackend has it, in three places.   *)

\* sleep() ends: the interruption, or a batch of what is queued.
Sleeps ==
    /\ worker = "asleep" /\ phase \notin Over
    /\ IF interrupted
       THEN worker' = "exited" /\ interrupted' = FALSE /\ UNCHANGED messages
       ELSE /\ worker' = IF messages THEN "saving" ELSE "batch"
            /\ messages' = FALSE
            /\ UNCHANGED interrupted
    /\ UNCHANGED <<phase, main, bound, backend, swallowed>>

\* begin_batch, and end_batch: after ~oracle_t their connection is destroyed,
\* while those of the base are empty.
Batch ==
    /\ worker = "batch" /\ phase \notin Over
    /\ IF backend \in {"oracle", "base"}
       THEN worker' = "asleep" /\ UNCHANGED phase
       ELSE phase' = "undefined" /\ UNCHANGED worker
    /\ UNCHANGED <<main, bound, backend, interrupted, swallowed, messages>>

\* The same with inserts, of which the base has none.  An interruption at the
\* point after an insert is taken by catch (...), one after the last stays.
Saves ==
    /\ worker = "saving" /\ phase \notin Over
    /\ IF backend = "oracle"
       THEN \E point \in BOOLEAN :
              /\ worker' = "asleep"
              /\ interrupted' = (interrupted /\ ~point)
              /\ swallowed' = (swallowed \/ (interrupted /\ point))
              /\ UNCHANGED phase
       ELSE phase' = "undefined" /\ UNCHANGED <<worker, interrupted, swallowed>>
    /\ UNCHANGED <<main, bound, backend, messages>>

\* A signal before bind_signals has the default action.
Killed ==
    /\ phase \notin Over /\ ~bound
    /\ phase' = "killed"
    /\ UNCHANGED <<main, bound, backend, thread>>

Worker == Sleeps \/ Batch \/ Saves

Destructors == DestroyServer \/ StopJoins \/ DestroyOracle \/ DestroyBase \/ Finish

\* The steps of main that the io loop has no part in.
Main == \/ ParseArguments \/ read_settings_from_file \/ CheckOptions \/ daemonize
        \/ CreateBackend \/ start \/ StartFails \/ bind_signals \/ SignalsFail \/ ListenFails
        \/ Destructors

ProcessTypeOK ==
    /\ phase \in Phase
    /\ config \in Config
    /\ daemon_mode \in BOOLEAN
    /\ options \in Seq([kind : STRING])
    /\ bound \in BOOLEAN
    /\ backend \in Backend
    /\ worker \in WorkerState
    /\ interrupted \in BOOLEAN /\ swallowed \in BOOLEAN /\ messages \in BOOLEAN
=============================================================================
