----------------------------- MODULE ServerProofs -----------------------------
(***************************************************************************)
(* Theorems of Server, for every configuration and every number of         *)
(* clients, sockets and answers.                                           *)
(*                                                                         *)
(* Two invariants that do not need each other.  LifeInv says, phase by     *)
(* phase, what of the server is built and what the worker may be doing.    *)
(* LoopInv says what the queue of the io loop may hold: the accept is the  *)
(* only operation of the client it is for, an aborted operation belongs to *)
(* a closed socket, and an open connection has one read.                   *)
(***************************************************************************)
EXTENDS Server, FiniteSetTheorems, SequenceTheorems, TLAPS

-----------------------------------------------------------------------------
(* The life of the process.                                                *)

Building == {"arguments", "settings", "options", "daemon", "backend"}
Serving == {"signals", "listen", "timer", "running", "stopping"}

\* How much of the server there is, and what the worker does meanwhile.
StageInv ==
    /\ phase \in Building => backend = "none"
    /\ phase \in Building \cup {"start"} => worker = "none" /\ ~interrupted
    /\ phase \in {"start", "joining"} \cup Serving => backend = "oracle"
    /\ phase \in Serving => worker \in {"asleep", "batch", "saving"} /\ ~interrupted
    /\ phase \in {"listen", "timer", "running"} => bound

\* What was read from the file is complete.
SettingsInv ==
    /\ phase \in {"options", "daemon", "backend", "start"} \cup Serving =>
           /\ \A i \in 1..Len(config.sections) : Missing(config.sections[i]) = {}
           /\ options = [i \in 1..Len(config.sections) |-> parse_settings(config.sections[i])]
    /\ phase \in {"daemon", "backend", "start"} \cup Serving => options # <<>>
    /\ phase \in {"start"} \cup Serving => options[1].kind \in Supported

\* The worker has nothing to save before the loop runs, nor when the backend
\* is taken down.
NothingToSave == ~messages /\ worker # "saving"

RuinInv ==
    /\ phase \in Building \cup {"start", "signals", "listen", "timer"} => NothingToSave
    /\ phase = "destroy" => worker \in {"none", "exited"} \/ NothingToSave
    /\ backend \in {"stripped", "base", "gone"} => phase \in {"destroy"} \cup Over
    /\ NothingSavedIntoRuin

LifeInv == ProcessTypeOK /\ StageInv /\ SettingsInv /\ RuinInv

-----------------------------------------------------------------------------
(* The queue of the io loop, as a predicate of a state s of the loop, the  *)
(* client a the accept is for, and the list C of the clients.              *)

Handler == [kind : Kind, client : Client \cup {0}, result : Result]
LoopState == [open : SUBSET Client, reads : [Client -> 0..1], writes : [Client -> 0..MaxWrites],
              ready : Seq(Handler)]

\* The places of the handlers of a client in a queue.
At(q, kind, c) == {i \in 1..Len(q) : q[i].kind = kind /\ q[i].client = c}

\* The accept is the only operation of its client, and tells whether the
\* socket is open; what was aborted is closed.
HandlerOK(h, open, a) ==
    /\ h.kind = "accept" => h.client = a /\ a # 0 /\ (h.result = "ok" <=> a \in open)
    /\ h.client = a /\ a # 0 => h.kind = "accept"
    /\ h.result = "aborted" => h.client \notin open
QueueOK(s, a) == \A i \in 1..Len(s.ready) : HandlerOK(s.ready[i], s.open, a)

\* One accept is under way.
AcceptOK(s, a) ==
    /\ \A i, j \in 1..Len(s.ready) : s.ready[i].kind = "accept" /\ s.ready[j].kind = "accept" => i = j
    /\ a \in s.open => \E i \in 1..Len(s.ready) : s.ready[i].kind = "accept"

\* A connection that is served has one read, but for those in X whose read is
\* being handled; nothing else has anything in progress.
OneRead(s, C, X) == \A c \in (C \cap s.open) \ X : s.reads[c] + Cardinality(At(s.ready, "read", c)) = 1
NoneElse(s, C) == \A c \in Client \ (C \cap s.open) : s.reads[c] = 0 /\ s.writes[c] = 0

SocketsOK(s, a, C) ==
    /\ s \in LoopState /\ a \in Client \cup {0} /\ C \subseteq Client
    /\ IsFiniteSet(s.open) /\ Cardinality(s.open) <= Descriptors
    /\ a \notin C /\ s.open \subseteq C \cup {a}

LoopOK(s, a, C, X) ==
    SocketsOK(s, a, C) /\ QueueOK(s, a) /\ AcceptOK(s, a) /\ OneRead(s, C, X) /\ NoneElse(s, C)

LoopInv == /\ waiting \in 0..MaxWaiting /\ timer \in BOOLEAN
           /\ phase \in Building \cup {"start", "signals", "listen"} => accepting = 0
           /\ LoopOK(io, accepting, clients_, {})

-----------------------------------------------------------------------------
(* The life of the process, step by step.                                  *)

USE ConfigAssumption, ClientAssumption, BoundsAssumption

LEMMA LifeInit == ProcessInit => LifeInv
<1> SUFFICES ASSUME ProcessInit PROVE LifeInv
  OBVIOUS
<1>1. ProcessTypeOK
  <2>1. <<>> \in Seq([kind : STRING])
    OBVIOUS
  <2> QED
    BY <2>1 DEF ProcessInit, ProcessTypeOK, Phase, Backend, WorkerState
<1>2. StageInv /\ SettingsInv /\ RuinInv
  BY DEF ProcessInit, StageInv, SettingsInv, RuinInv, NothingSavedIntoRuin, NothingToSave,
         Building, Serving, Over
<1> QED
  BY <1>1, <1>2 DEF LifeInv

\* The settings are not looked at any more once the server is built of them.
LEMMA SettingsKept ==
    ASSUME SettingsInv, UNCHANGED main, phase' = phase \/ phase' \notin Building \cup {"start"},
           phase' \in Serving => phase \in {"start"} \cup Serving
    PROVE  SettingsInv'
BY DEF SettingsInv, main, Building, Serving

\* The steps before there is a worker.
LEMMA LifeBuilds ==
    ASSUME LifeInv,
           \/ ParseArguments \/ read_settings_from_file \/ CheckOptions \/ daemonize
           \/ CreateBackend \/ start
    PROVE  LifeInv'
<1> USE DEF main, thread, Throw
<1>1. ProcessTypeOK /\ StageInv /\ SettingsInv /\ RuinInv
  BY DEF LifeInv
<1>2. ASSUME ParseArguments PROVE ProcessTypeOK' /\ StageInv' /\ SettingsInv' /\ RuinInv'
  <2>1. phase' \in {"ended", "settings"} /\ phase = "arguments" /\ daemon_mode' \in BOOLEAN
    BY <1>1, <1>2 DEF ParseArguments, StageInv, Building, ProcessTypeOK
  <2>2. UNCHANGED <<config, options, bound, backend, worker, interrupted, swallowed, messages>>
    BY <1>2 DEF ParseArguments
  <2> QED
    BY <1>1, <2>1, <2>2
       DEF ProcessTypeOK, StageInv, SettingsInv, RuinInv, NothingSavedIntoRuin, NothingToSave,
           Building, Serving, Over, Phase
<1>3. ASSUME read_settings_from_file PROVE ProcessTypeOK' /\ StageInv' /\ SettingsInv' /\ RuinInv'
  <2>1. /\ phase' \in {"ended", "options"} /\ phase = "settings"
        /\ UNCHANGED <<config, daemon_mode, bound, backend, worker, interrupted, swallowed, messages>>
    BY <1>1, <1>3 DEF read_settings_from_file, StageInv, Building
  <2>2. config \in Config /\ config.sections \in Seq([has : SUBSET STRING, kind : STRING])
    BY <1>1 DEF ProcessTypeOK
  <2>3. CASE phase' = "ended"
    <3>1. options' = options
      BY <1>3, <2>3 DEF read_settings_from_file
    <3> QED
      BY <1>1, <2>1, <2>3, <3>1
         DEF ProcessTypeOK, StageInv, SettingsInv, RuinInv, NothingSavedIntoRuin, NothingToSave,
             Building, Serving, Over, Phase
  <2>4. CASE phase' = "options"
    <3>1. /\ \A i \in 1..Len(config.sections) : Missing(config.sections[i]) = {}
          /\ options' = [i \in 1..Len(config.sections) |-> parse_settings(config.sections[i])]
      BY <1>3, <2>4, <1>1, <2>1 DEF read_settings_from_file, StageInv, Building
    <3>2. options' \in Seq([kind : STRING])
      <4>1. Len(config.sections) \in Nat
        BY <2>2
      <4>2. \A i \in 1..Len(config.sections) : parse_settings(config.sections[i]) \in [kind : STRING]
        <5>1. ASSUME NEW i \in 1..Len(config.sections)
              PROVE  config.sections[i] \in [has : SUBSET STRING, kind : STRING]
          BY <2>2, ElementOfSeq
        <5> QED
          BY <5>1 DEF parse_settings
      <4> QED
        BY <3>1, <4>1, <4>2, SeqDef
    <3>3. ProcessTypeOK' /\ StageInv' /\ RuinInv'
      BY <1>1, <2>1, <2>4, <3>2
         DEF ProcessTypeOK, StageInv, RuinInv, NothingSavedIntoRuin, NothingToSave,
             Building, Serving, Over, Phase
    <3>4. SettingsInv'
      BY <2>1, <2>4, <3>1 DEF SettingsInv, Serving, parse_settings, Missing
    <3> QED
      BY <3>3, <3>4
  <2> QED
    BY <2>1, <2>3, <2>4
<1>4. ASSUME CheckOptions PROVE ProcessTypeOK' /\ StageInv' /\ SettingsInv' /\ RuinInv'
  <2>1. /\ phase = "options" /\ phase' \in {"ended", "daemon"} /\ (phase' = "daemon" => options # <<>>)
        /\ UNCHANGED <<config, daemon_mode, options, bound, backend, worker, interrupted,
                       swallowed, messages>>
    BY <1>1, <1>4 DEF CheckOptions, StageInv, Building
  <2>2. ProcessTypeOK' /\ StageInv' /\ RuinInv'
    BY <1>1, <2>1
       DEF ProcessTypeOK, StageInv, RuinInv, NothingSavedIntoRuin, NothingToSave,
           Building, Serving, Over, Phase
  <2>3. SettingsInv'
    BY <1>1, <2>1 DEF SettingsInv, Serving
  <2> QED
    BY <2>2, <2>3
<1>5. ASSUME daemonize PROVE ProcessTypeOK' /\ StageInv' /\ SettingsInv' /\ RuinInv'
  <2>1. /\ phase = "daemon" /\ phase' \in {"ended", "backend"}
        /\ UNCHANGED <<config, daemon_mode, options, bound, backend, worker, interrupted,
                       swallowed, messages>>
    BY <1>1, <1>5 DEF daemonize, StageInv, Building
  <2>2. ProcessTypeOK' /\ StageInv' /\ RuinInv'
    BY <1>1, <2>1
       DEF ProcessTypeOK, StageInv, RuinInv, NothingSavedIntoRuin, NothingToSave,
           Building, Serving, Over, Phase
  <2>3. SettingsInv'
    BY <1>1, <2>1 DEF SettingsInv, Serving
  <2> QED
    BY <2>2, <2>3
<1>6. ASSUME CreateBackend PROVE ProcessTypeOK' /\ StageInv' /\ SettingsInv' /\ RuinInv'
  <2>1. /\ phase = "backend"
        /\ \/ phase' = "start" /\ backend' = "oracle" /\ options[1].kind \in Supported
           \/ phase' = "ended" /\ backend' = backend
        /\ UNCHANGED <<config, daemon_mode, options, bound, worker, interrupted,
                       swallowed, messages>>
    BY <1>1, <1>6 DEF CreateBackend, StageInv, Building
  <2>2. ProcessTypeOK' /\ StageInv' /\ RuinInv'
    BY <1>1, <2>1
       DEF ProcessTypeOK, StageInv, RuinInv, NothingSavedIntoRuin, NothingToSave,
           Building, Serving, Over, Phase, Backend
  <2>3. SettingsInv'
    BY <1>1, <2>1 DEF SettingsInv, Serving
  <2> QED
    BY <2>2, <2>3
<1>7. ASSUME start PROVE ProcessTypeOK' /\ StageInv' /\ SettingsInv' /\ RuinInv'
  <2>1. /\ phase = "start" /\ phase' = "signals" /\ worker' = "asleep"
        /\ UNCHANGED <<config, daemon_mode, options, bound, backend, interrupted,
                       swallowed, messages>>
    BY <1>7 DEF start
  <2> QED
    BY <1>1, <2>1, SettingsKept
       DEF ProcessTypeOK, StageInv, RuinInv, NothingSavedIntoRuin, NothingToSave,
           Building, Serving, Over, Phase, WorkerState
<1> QED
  BY <1>2, <1>3, <1>4, <1>5, <1>6, <1>7 DEF LifeInv

\* The steps from the start of the worker up to the loop, and the way down.
LEMMA LifeServes ==
    ASSUME LifeInv,
           \/ StartFails \/ bind_signals \/ SignalsFail \/ Listens \/ ListenFails \/ Runs
           \/ Destructors
           \/ phase = "running" /\ phase' \in {"stopping", "undefined"}
                 /\ UNCHANGED <<main, bound, backend, thread>>
           \/ Killed
    PROVE  LifeInv'
<1> USE DEF main, thread
<1>1. ProcessTypeOK /\ StageInv /\ SettingsInv /\ RuinInv
  BY DEF LifeInv
<1>2. UNCHANGED <<config, daemon_mode, options, worker, swallowed, messages>>
  BY DEF StartFails, bind_signals, SignalsFail, Listens, ListenFails, Runs, Destructors,
         DestroyServer, StopJoins, DestroyOracle, DestroyBase, Finish, Killed
<1>3. SettingsInv'
  <2>1. /\ phase' = phase \/ phase' \notin Building \cup {"start"}
        /\ phase' \in Serving => phase \in Serving
    BY <1>1
       DEF StageInv, StartFails, bind_signals, SignalsFail, Listens, ListenFails, Throw, Runs,
           Destructors, DestroyServer, StopJoins, DestroyOracle, DestroyBase, Finish, Killed,
           Building, Serving
  <2> QED
    BY <1>1, <1>2, <2>1, SettingsKept
<1> USE DEF ProcessTypeOK, StageInv, RuinInv, NothingSavedIntoRuin, NothingToSave,
            Building, Serving, Over, Phase, Backend
<1>4. CASE StartFails \/ bind_signals \/ SignalsFail \/ Listens \/ ListenFails \/ Runs
  <2>1. CASE bind_signals
    BY <1>1, <1>2, <1>3, <2>1 DEF bind_signals, LifeInv
  <2>2. CASE Listens \/ Runs
    BY <1>1, <1>2, <1>3, <2>2 DEF Listens, Runs, LifeInv
  <2>3. CASE StartFails \/ SignalsFail \/ ListenFails
    BY <1>1, <1>2, <1>3, <2>3 DEF StartFails, SignalsFail, ListenFails, Throw, LifeInv
  <2> QED
    BY <1>4, <2>1, <2>2, <2>3
<1>5. CASE DestroyServer \/ StopJoins
  BY <1>1, <1>2, <1>3, <1>5 DEF DestroyServer, StopJoins, LifeInv
<1>6. CASE DestroyOracle \/ DestroyBase \/ Finish
  BY <1>1, <1>2, <1>3, <1>6 DEF DestroyOracle, DestroyBase, Finish, LifeInv
<1>7. CASE Killed
  BY <1>1, <1>2, <1>3, <1>7 DEF Killed, LifeInv
<1>8. CASE /\ phase = "running" /\ phase' \in {"stopping", "undefined"}
           /\ UNCHANGED <<main, bound, backend, thread>>
  BY <1>1, <1>2, <1>3, <1>8 DEF LifeInv
<1> QED
  BY <1>4, <1>5, <1>6, <1>7, <1>8 DEF Destructors

\* The steps of the worker, and the messages it is given while the loop runs.
LEMMA LifeWorks ==
    ASSUME LifeInv,
           \/ Worker
           \/ /\ phase = "running" /\ messages' \in {messages, TRUE}
              /\ UNCHANGED <<phase, main, bound, backend, worker, interrupted, swallowed>>
    PROVE  LifeInv'
<1> USE DEF main, thread
<1>1. ProcessTypeOK /\ StageInv /\ SettingsInv /\ RuinInv
  BY DEF LifeInv
<1>2. /\ UNCHANGED <<config, daemon_mode, options, bound, backend>>
      /\ phase' \in {phase, "undefined"}
  BY DEF Worker, Sleeps, Batch, Saves
<1>3. SettingsInv'
  BY <1>1, <1>2, SettingsKept DEF Building, Serving
<1> USE DEF ProcessTypeOK, StageInv, RuinInv, NothingSavedIntoRuin, NothingToSave,
            Building, Serving, Over, Phase, Backend, WorkerState
<1>4. CASE Sleeps
  <2>1. worker = "asleep" /\ phase \notin Over /\ phase' = phase /\ swallowed' = swallowed
    BY <1>4 DEF Sleeps
  <2>2. CASE interrupted
    <3>1. worker' = "exited" /\ interrupted' = FALSE /\ messages' = messages
      BY <1>4, <2>2 DEF Sleeps
    <3> QED
      BY <1>1, <1>2, <1>3, <2>1, <2>2, <3>1 DEF LifeInv
  <2>3. CASE ~interrupted
    <3>1. /\ worker' \in {"saving", "batch"} /\ (~messages => worker' = "batch")
          /\ messages' = FALSE /\ interrupted' = interrupted
      BY <1>4, <2>3 DEF Sleeps
    <3>2. ProcessTypeOK' /\ StageInv'
      BY <1>1, <1>2, <2>1, <2>3, <3>1
    <3>3. RuinInv'
      BY <1>1, <1>2, <2>1, <3>1
    <3> QED
      BY <1>3, <3>2, <3>3 DEF LifeInv
  <2> QED
    BY <2>2, <2>3
<1>5. CASE Batch
  BY <1>1, <1>2, <1>3, <1>5 DEF Batch, LifeInv
<1>6. CASE Saves
  <2>1. worker = "saving" /\ phase \notin Over /\ messages' = messages
    BY <1>6 DEF Saves
  <2>2. CASE backend = "oracle"
    <3>1. PICK point \in BOOLEAN :
              /\ worker' = "asleep" /\ phase' = phase
              /\ interrupted' = (interrupted /\ ~point)
              /\ swallowed' = (swallowed \/ (interrupted /\ point))
      BY <1>6, <2>2 DEF Saves
    <3>2. interrupted' \in BOOLEAN /\ swallowed' \in BOOLEAN /\ (~interrupted => ~interrupted')
      BY <3>1
    <3>3. ProcessTypeOK'
      BY <1>1, <1>2, <2>1, <3>1, <3>2
    <3>4. StageInv' /\ RuinInv'
      BY <1>1, <1>2, <2>1, <2>2, <3>1, <3>2
    <3> QED
      BY <1>3, <3>3, <3>4 DEF LifeInv
  <2>3. CASE backend # "oracle"
    <3>1. phase' = "undefined" /\ UNCHANGED <<worker, interrupted, swallowed>>
      BY <1>6, <2>3 DEF Saves
    <3> QED
      BY <1>1, <1>2, <1>3, <2>1, <2>3, <3>1 DEF LifeInv
  <2> QED
    BY <2>2, <2>3
<1>7. CASE /\ phase = "running" /\ messages' \in {messages, TRUE}
           /\ UNCHANGED <<phase, main, bound, backend, worker, interrupted, swallowed>>
  <2>1. messages' \in BOOLEAN
    BY <1>1, <1>7
  <2>2. ProcessTypeOK' /\ StageInv'
    BY <1>1, <1>2, <1>7, <2>1
  <2>3. RuinInv'
    BY <1>1, <1>2, <1>7
  <2> QED
    BY <1>3, <2>2, <2>3 DEF LifeInv
<1> QED
  BY <1>4, <1>5, <1>6, <1>7 DEF Worker

LEMMA LifeNext == LifeInv /\ [Next]_vars => LifeInv'
<1> SUFFICES ASSUME LifeInv, [Next]_vars PROVE LifeInv'
  OBVIOUS
<1>1. CASE Main \/ Killed
  BY <1>1, LifeBuilds, LifeServes DEF Main
<1>2. CASE Worker
  BY <1>2, LifeWorks
<1>3. CASE start_listen \/ run
  BY <1>3, LifeServes DEF start_listen, run
<1>4. CASE HandleRead
  BY <1>4, LifeWorks DEF HandleRead, Handles
<1>5. CASE handle_stop \/ HandleDestroyed
  BY <1>5, LifeServes DEF handle_stop, HandleDestroyed, Handles
<1>6. ASSUME UNCHANGED process PROVE LifeInv'
  BY <1>6
     DEF process, LifeInv, ProcessTypeOK, StageInv, SettingsInv, RuinInv, NothingSavedIntoRuin,
         NothingToSave, Missing, parse_settings
<1>7. CASE \/ handle_accept \/ HandleWrite \/ HandleAborted \/ handle_timer \/ Environment
           \/ Terminated \/ UNCHANGED vars
  BY <1>6, <1>7
     DEF handle_accept, HandleWrite, HandleAborted, handle_timer, Environment, Connect,
         AcceptCompletes, TimerExpires, Signal, ReadCompletes, WriteCompletes, Terminated, vars
<1> QED
  BY <1>1, <1>2, <1>3, <1>4, <1>5, <1>7 DEF Next, RunHandler

-----------------------------------------------------------------------------
(* Queues.                                                                 *)

LEMMA AtFinite ==
    ASSUME NEW q \in Seq(Handler), NEW kind, NEW c
    PROVE  IsFiniteSet(At(q, kind, c)) /\ Cardinality(At(q, kind, c)) \in Nat
<1>1. Len(q) \in Nat /\ 1 \in Int /\ Len(q) \in Int
  OBVIOUS
<1>2. IsFiniteSet(1..Len(q))
  BY <1>1, FS_Interval
<1>3. At(q, kind, c) \in SUBSET (1..Len(q))
  BY DEF At
<1>4. IsFiniteSet(At(q, kind, c))
  BY <1>2, <1>3, FS_Subset
<1> QED
  BY <1>4, FS_CardinalityType

\* A handler is queued.
LEMMA AtAppend ==
    ASSUME NEW q \in Seq(Handler), NEW h \in Handler
    PROVE  /\ Append(q, h) \in Seq(Handler) /\ Len(q) \in Nat
           /\ Len(Append(q, h)) = Len(q) + 1 /\ Append(q, h)[Len(q) + 1] = h
           /\ \A i \in 1..Len(q) : Append(q, h)[i] = q[i]
           /\ \A i \in 1..Len(Append(q, h)) : i \in 1..Len(q) \/ i = Len(q) + 1
           /\ \A kind, c : Cardinality(At(Append(q, h), kind, c)) =
                  IF h.kind = kind /\ h.client = c THEN Cardinality(At(q, kind, c)) + 1
                                                   ELSE Cardinality(At(q, kind, c))
<1>1. /\ Append(q, h) \in Seq(Handler) /\ Len(q) \in Nat
      /\ Len(Append(q, h)) = Len(q) + 1 /\ Append(q, h)[Len(q) + 1] = h
      /\ \A i \in 1..Len(q) : Append(q, h)[i] = q[i]
  BY AppendProperties
<1>2. /\ \A i \in 1..Len(Append(q, h)) : i \in 1..Len(q) \/ i = Len(q) + 1
      /\ Len(q) + 1 \in 1..Len(Append(q, h)) /\ 1..Len(q) \subseteq 1..Len(Append(q, h))
      /\ Len(q) + 1 \notin 1..Len(q)
  BY <1>1
<1>3. ASSUME NEW kind, NEW c
      PROVE  Cardinality(At(Append(q, h), kind, c)) =
                  IF h.kind = kind /\ h.client = c THEN Cardinality(At(q, kind, c)) + 1
                                                   ELSE Cardinality(At(q, kind, c))
  <2>1. CASE h.kind = kind /\ h.client = c
    <3>1. At(Append(q, h), kind, c) = At(q, kind, c) \cup {Len(q) + 1}
      BY <1>1, <1>2, <2>1 DEF At
    <3>2. Len(q) + 1 \notin At(q, kind, c)
      BY <1>2 DEF At
    <3> QED
      <4>1. IsFiniteSet(At(q, kind, c))
        BY AtFinite
      <4>2. Cardinality(At(q, kind, c) \cup {Len(q) + 1}) = Cardinality(At(q, kind, c)) + 1
        BY <3>2, <4>1, FS_AddElement
      <4> QED
        BY <2>1, <3>1, <4>2
  <2>2. CASE ~(h.kind = kind /\ h.client = c)
    <3>1. At(Append(q, h), kind, c) = At(q, kind, c)
      BY <1>1, <1>2, <2>2 DEF At
    <3> QED
      BY <2>2, <3>1
  <2> QED
    BY <2>1, <2>2
<1> QED
  BY <1>1, <1>2, <1>3

\* The first handler is taken from the queue.
LEMMA AtTail ==
    ASSUME NEW q \in Seq(Handler), q # <<>>
    PROVE  /\ Tail(q) \in Seq(Handler) /\ Len(q) \in Nat \ {0} /\ Len(Tail(q)) = Len(q) - 1
           /\ Head(q) = q[1] /\ q[1] \in Handler /\ 1 \in 1..Len(q)
           /\ \A i \in 1..Len(Tail(q)) : i + 1 \in 1..Len(q) /\ Tail(q)[i] = q[i + 1]
           /\ \A i \in 1..Len(q) : i = 1 \/ (i - 1 \in 1..Len(Tail(q)) /\ Tail(q)[i - 1] = q[i])
           /\ \A kind, c : Cardinality(At(Tail(q), kind, c)) =
                  IF q[1].kind = kind /\ q[1].client = c THEN Cardinality(At(q, kind, c)) - 1
                                                         ELSE Cardinality(At(q, kind, c))
<1>1. /\ Tail(q) \in Seq(Handler) /\ Len(q) \in Nat \ {0} /\ Len(Tail(q)) = Len(q) - 1
      /\ Head(q) = q[1] /\ q[1] \in Handler /\ 1 \in 1..Len(q)
      /\ \A i \in 1..Len(Tail(q)) : i + 1 \in 1..Len(q) /\ Tail(q)[i] = q[i + 1]
  BY HeadTailProperties, EmptySeq
<1>2. \A i \in 1..Len(q) : i = 1 \/ (i - 1 \in 1..Len(Tail(q)) /\ Tail(q)[i - 1] = q[i])
  <2>1. ASSUME NEW i \in 1..Len(q), i # 1
        PROVE  i - 1 \in 1..Len(Tail(q)) /\ (i - 1) + 1 = i
    BY <1>1, <2>1
  <2> QED
    BY <1>1, <2>1
<1>3. ASSUME NEW kind, NEW c
      PROVE  Cardinality(At(Tail(q), kind, c)) =
                  IF q[1].kind = kind /\ q[1].client = c THEN Cardinality(At(q, kind, c)) - 1
                                                         ELSE Cardinality(At(q, kind, c))
  <2> DEFINE S == At(Tail(q), kind, c)
             T == At(q, kind, c) \ {1}
             f == [i \in S |-> i + 1]
  <2>1. f \in [S -> T]
    <3>1. ASSUME NEW i \in S PROVE i + 1 \in T
      BY <1>1 DEF At
    <3> QED
      BY <3>1
  <2>2. \A a, b \in S : f[a] = f[b] => a = b
    <3>1. \A a \in S : a \in Nat
      BY <1>1 DEF At
    <3> QED
      BY <3>1
  <2>3. ASSUME NEW t \in T PROVE \E s \in S : f[s] = t
    <3>1. t \in 1..Len(q) /\ t # 1 /\ q[t].kind = kind /\ q[t].client = c
      BY DEF At
    <3>2. t - 1 \in S /\ (t - 1) + 1 = t
      BY <1>1, <1>2, <3>1 DEF At
    <3> QED
      BY <3>2
  <2>4. f \in Bijection(S, T)
    BY <2>1, <2>2, <2>3 DEF Bijection, Injection, Surjection, IsInjective
  <2>5. IsFiniteSet(S)
    BY <1>1, AtFinite
  <2>6. Cardinality(T) = Cardinality(S)
    BY <2>4, <2>5, FS_Bijection DEF ExistsBijection
  <2>7. Cardinality(T) = IF 1 \in At(q, kind, c) THEN Cardinality(At(q, kind, c)) - 1
                                                 ELSE Cardinality(At(q, kind, c))
    BY AtFinite, FS_RemoveElement
  <2>8. 1 \in At(q, kind, c) <=> q[1].kind = kind /\ q[1].client = c
    BY <1>1 DEF At
  <2> QED
    BY <2>6, <2>7, <2>8
<1> QED
  BY <1>1, <1>2, <1>3

\* Handlers of a client are queued, and the others see nothing of it.
LEMMA AtConcat ==
    ASSUME NEW q \in Seq(Handler), NEW p \in Seq(Handler)
    PROVE  /\ q \o p \in Seq(Handler) /\ Len(q) \in Nat
           /\ \A i \in 1..Len(q) : i \in 1..Len(q \o p) /\ (q \o p)[i] = q[i]
           /\ \A i \in 1..Len(q \o p) :
                  \/ i \in 1..Len(q)
                  \/ i - Len(q) \in 1..Len(p) /\ (q \o p)[i] = p[i - Len(q)]
           /\ \A kind, c : (\A i \in 1..Len(p) : p[i].client # c) =>
                               At(q \o p, kind, c) = At(q, kind, c)
<1>1. /\ q \o p \in Seq(Handler) /\ Len(q) \in Nat /\ Len(p) \in Nat
      /\ Len(q \o p) = Len(q) + Len(p)
  BY ConcatProperties
<1>2. \A i \in 1..Len(q) + Len(p) : (q \o p)[i] = IF i <= Len(q) THEN q[i] ELSE p[i - Len(q)]
  BY ConcatProperties
<1>3. \A i \in 1..Len(q) : i \in 1..Len(q \o p) /\ (q \o p)[i] = q[i]
  BY <1>1, <1>2
<1>4. ASSUME NEW i \in 1..Len(q \o p)
      PROVE  \/ i \in 1..Len(q)
             \/ i - Len(q) \in 1..Len(p) /\ (q \o p)[i] = p[i - Len(q)]
  BY <1>1, <1>2
<1>5. ASSUME NEW kind, NEW c, \A i \in 1..Len(p) : p[i].client # c
      PROVE  At(q \o p, kind, c) = At(q, kind, c)
  <2>1. ASSUME NEW i \in 1..Len(q \o p), i \notin 1..Len(q) PROVE (q \o p)[i].client # c
    BY <1>4, <1>5, <2>1
  <2> QED
    BY <1>3, <2>1 DEF At
<1> QED
  BY <1>1, <1>3, <1>4, <1>5

-----------------------------------------------------------------------------
(* What client_t and asio do to the queue.                                 *)

\* The parts of a state of the loop.
LEMMA StateType ==
    ASSUME NEW s \in LoopState
    PROVE  /\ s.open \in SUBSET Client /\ s.reads \in [Client -> 0..1]
           /\ s.writes \in [Client -> 0..MaxWrites] /\ s.ready \in Seq(Handler)
           /\ Len(s.ready) \in Nat
BY DEF LoopState

\* An operation completes that is not an accept.  If it is the read of a
\* connection that is served it was in progress.
LEMMA QueuedLoop ==
    ASSUME NEW s, NEW t \in LoopState, NEW a, NEW C, NEW X, LoopOK(s, a, C, X),
           NEW h \in Handler, h.kind # "accept", HandlerOK(h, s.open, a),
           t.open = s.open, t.ready = Append(s.ready, h), NoneElse(t, C),
           \A c \in (C \cap s.open) \ X :
               s.reads[c] = t.reads[c] + (IF h.kind = "read" /\ h.client = c THEN 1 ELSE 0)
    PROVE  LoopOK(t, a, C, X)
<1>1. /\ s \in LoopState /\ C \subseteq Client /\ QueueOK(s, a) /\ AcceptOK(s, a)
      /\ OneRead(s, C, X) /\ SocketsOK(s, a, C)
  BY DEF LoopOK, SocketsOK
<1>2. s.ready \in Seq(Handler) /\ Len(s.ready) \in Nat /\ t.reads \in [Client -> 0..1]
  BY <1>1, StateType
<1>3. /\ Len(t.ready) = Len(s.ready) + 1 /\ t.ready[Len(s.ready) + 1] = h
      /\ \A i \in 1..Len(s.ready) : t.ready[i] = s.ready[i]
      /\ \A i \in 1..Len(t.ready) : i \in 1..Len(s.ready) \/ i = Len(s.ready) + 1
      /\ \A kind, c : Cardinality(At(t.ready, kind, c)) =
             IF h.kind = kind /\ h.client = c THEN Cardinality(At(s.ready, kind, c)) + 1
                                              ELSE Cardinality(At(s.ready, kind, c))
  BY <1>2, AtAppend
<1>4. QueueOK(t, a)
  BY <1>1, <1>3 DEF QueueOK
<1>5. AcceptOK(t, a)
  <2>1. \A i \in 1..Len(s.ready) : i \in 1..Len(t.ready)
    BY <1>2, <1>3
  <2>2. \A i \in 1..Len(t.ready) : t.ready[i].kind = "accept" =>
            i \in 1..Len(s.ready) /\ t.ready[i] = s.ready[i]
    BY <1>3
  <2> QED
    BY <1>1, <1>3, <2>1, <2>2 DEF AcceptOK
<1>6. OneRead(t, C, X)
  <2> SUFFICES ASSUME NEW c \in (C \cap s.open) \ X
               PROVE  t.reads[c] + Cardinality(At(t.ready, "read", c)) = 1
    BY DEF OneRead
  <2>1. s.reads[c] + Cardinality(At(s.ready, "read", c)) = 1
    BY <1>1 DEF OneRead
  <2>2. Cardinality(At(s.ready, "read", c)) \in Nat /\ t.reads[c] \in 0..1
    BY <1>1, <1>2, AtFinite
  <2>3. Cardinality(At(t.ready, "read", c)) =
            IF h.kind = "read" /\ h.client = c THEN Cardinality(At(s.ready, "read", c)) + 1
                                               ELSE Cardinality(At(s.ready, "read", c))
    BY <1>3
  <2> QED
    BY <2>1, <2>2, <2>3
<1>7. SocketsOK(t, a, C)
  BY <1>1 DEF SocketsOK
<1> QED
  BY <1>4, <1>5, <1>6, <1>7 DEF LoopOK

\* async_read_some: a connection without a read gets one.
LEMMA ReadLoop ==
    ASSUME NEW s, NEW a, NEW C, NEW c \in C, LoopOK(s, a, C, {c}),
           c \in s.open => s.reads[c] = 0 /\ Cardinality(At(s.ready, "read", c)) = 0
    PROVE  LoopOK(async_read_some(s, c), a, C, {}) /\ async_read_some(s, c).writes = s.writes
<1>1. /\ s \in LoopState /\ C \subseteq Client /\ SocketsOK(s, a, C) /\ a # c /\ NoneElse(s, C)
      /\ QueueOK(s, a) /\ AcceptOK(s, a) /\ OneRead(s, C, {c}) /\ c \in Client /\ c # 0
  BY DEF LoopOK, SocketsOK
<1>2. CASE c \in s.open
  <2> DEFINE t == [s EXCEPT !.reads[c] = @ + 1]
  <2>1. async_read_some(s, c) = t
    BY <1>2 DEF async_read_some
  <2>2. /\ t \in LoopState /\ t.open = s.open /\ t.ready = s.ready /\ t.writes = s.writes
        /\ t.reads[c] = 1 /\ \A d \in Client : d # c => t.reads[d] = s.reads[d]
    <3>1. s.reads \in [Client -> 0..1]
      BY <1>1, StateType
    <3>2. s.reads[c] = 0 /\ s.reads[c] + 1 = 1 /\ s.reads[c] + 1 \in 0..1
      BY <1>2
    <3>3. /\ t.open = s.open /\ t.ready = s.ready /\ t.writes = s.writes
          /\ t.reads = [s.reads EXCEPT ![c] = s.reads[c] + 1]
      BY <1>1 DEF LoopState
    <3>4. t \in LoopState
      BY <1>1, <3>1, <3>2 DEF LoopState
    <3> QED
      BY <1>1, <3>1, <3>2, <3>3, <3>4
  <2> HIDE DEF t
  <2>3. OneRead(t, C, {})
    BY <1>1, <1>2, <2>2 DEF OneRead
  <2>4. NoneElse(t, C)
    BY <1>1, <1>2, <2>2 DEF NoneElse
  <2>5. SocketsOK(t, a, C) /\ QueueOK(t, a) /\ AcceptOK(t, a)
    BY <1>1, <2>2 DEF SocketsOK, QueueOK, AcceptOK
  <2> QED
    BY <2>1, <2>2, <2>3, <2>4, <2>5 DEF LoopOK
<1>3. CASE c \notin s.open
  <2> DEFINE h == Done("read", c, "error")
             t == [s EXCEPT !.ready = Append(@, h)]
  <2>1. async_read_some(s, c) = t
    BY <1>3 DEF async_read_some
  <2>2. h \in Handler /\ h.kind = "read" /\ h.client = c /\ h.result = "error"
    BY <1>1 DEF Handler, Done, Kind, Result
  <2>3. s.ready \in Seq(Handler) /\ Append(s.ready, h) \in Seq(Handler)
    BY <1>1, <2>2, StateType, AtAppend
  <2>4. /\ t \in LoopState /\ t.open = s.open /\ t.ready = Append(s.ready, h)
        /\ t.writes = s.writes /\ t.reads = s.reads
    BY <1>1, <2>3 DEF LoopState
  <2> HIDE DEF t, h
  <2>5. HandlerOK(h, s.open, a) /\ NoneElse(t, C)
    BY <1>1, <2>2, <2>4 DEF HandlerOK, NoneElse
  <2>6. ASSUME NEW d \in (C \cap s.open) \ {c}
        PROVE  s.reads[d] = t.reads[d] + (IF h.kind = "read" /\ h.client = d THEN 1 ELSE 0)
    <3>1. s.reads[d] \in 0..1
      BY <1>1, StateType
    <3> QED
      BY <2>2, <2>4, <3>1
  <2>7. LoopOK(t, a, C, {c})
    BY <2>2, <2>4, <2>5, <2>6, QueuedLoop
  <2>8. OneRead(t, C, {c}) => OneRead(t, C, {})
    BY <1>3, <2>4 DEF OneRead
  <2> QED
    BY <2>1, <2>4, <2>7, <2>8 DEF LoopOK
<1> QED
  BY <1>2, <1>3

\* send: one more write, in progress or failed.
LEMMA SendLoop ==
    ASSUME NEW s, NEW a, NEW C, NEW c \in C, LoopOK(s, a, C, {}), s.writes[c] < MaxWrites
    PROVE  LoopOK(send(s, c), a, C, {})
<1>1. /\ s \in LoopState /\ C \subseteq Client /\ SocketsOK(s, a, C) /\ a # c /\ NoneElse(s, C)
      /\ QueueOK(s, a) /\ AcceptOK(s, a) /\ OneRead(s, C, {}) /\ c \in Client /\ c # 0
  BY DEF LoopOK, SocketsOK
<1>2. CASE c \in s.open
  <2> DEFINE t == [s EXCEPT !.writes[c] = @ + 1]
  <2>1. send(s, c) = t
    BY <1>2 DEF send
  <2>2. s.writes \in [Client -> 0..MaxWrites] /\ s.writes[c] + 1 \in 0..MaxWrites
    <3>1. s.writes \in [Client -> 0..MaxWrites]
      BY <1>1, StateType
    <3> QED
      BY <1>1, <3>1
  <2>3. /\ t \in LoopState /\ t.open = s.open /\ t.ready = s.ready /\ t.reads = s.reads
        /\ \A d \in Client : d # c => t.writes[d] = s.writes[d]
    BY <1>1, <2>2 DEF LoopState
  <2> HIDE DEF t
  <2>4. OneRead(t, C, {}) /\ NoneElse(t, C)
    BY <1>1, <1>2, <2>3 DEF OneRead, NoneElse
  <2>5. SocketsOK(t, a, C) /\ QueueOK(t, a) /\ AcceptOK(t, a)
    BY <1>1, <2>3 DEF SocketsOK, QueueOK, AcceptOK
  <2> QED
    BY <2>1, <2>4, <2>5 DEF LoopOK
<1>3. CASE c \notin s.open
  <2> DEFINE h == Done("write", c, "error")
             t == [s EXCEPT !.ready = Append(@, h)]
  <2>1. send(s, c) = t
    BY <1>3 DEF send
  <2>2. h \in Handler /\ h.kind = "write" /\ h.client = c /\ h.result = "error"
    BY <1>1 DEF Handler, Done, Kind, Result
  <2>3. s.ready \in Seq(Handler) /\ Append(s.ready, h) \in Seq(Handler)
    BY <1>1, <2>2, StateType, AtAppend
  <2>4. /\ t \in LoopState /\ t.open = s.open /\ t.ready = Append(s.ready, h)
        /\ t.writes = s.writes /\ t.reads = s.reads
    BY <1>1, <2>3 DEF LoopState
  <2> HIDE DEF t, h
  <2>5. HandlerOK(h, s.open, a) /\ NoneElse(t, C)
    BY <1>1, <2>2, <2>4 DEF HandlerOK, NoneElse
  <2>6. \A d \in (C \cap s.open) \ {} :
            s.reads[d] = t.reads[d] + (IF h.kind = "read" /\ h.client = d THEN 1 ELSE 0)
    BY <1>1, <2>2, <2>4, StateType
  <2> QED
    BY <2>1, <2>2, <2>4, <2>5, <2>6, QueuedLoop
<1> QED
  BY <1>2, <1>3

\* Handlers of one kind of a client.
LEMMA CopiesType ==
    ASSUME NEW h \in Handler, NEW n \in Nat
    PROVE  /\ Copies(h, n) \in Seq(Handler)
           /\ \A i \in 1..Len(Copies(h, n)) : Copies(h, n)[i] = h
<1>1. Copies(h, n) \in [1..n -> Handler]
  BY DEF Copies
<1>2. Copies(h, n) \in Seq(Handler) /\ Len(Copies(h, n)) = n
  BY <1>1
<1> QED
  BY <1>2 DEF Copies

Aborted(h, c) == h.kind \in {"read", "write"} /\ h.client = c /\ h.result = "aborted"
AllAborted(p, c) == \A i \in 1..Len(p) : Aborted(p[i], c)

\* Aborted handlers of a client join the queue, and the others see nothing of it.
Joined(q, t, c) ==
    /\ t \in Seq(Handler)
    /\ \A i \in 1..Len(q) : i \in 1..Len(t) /\ t[i] = q[i]
    /\ \A i \in 1..Len(t) : i \in 1..Len(q) \/ Aborted(t[i], c)
    /\ \A kind, d : d # c => At(t, kind, d) = At(q, kind, d)

LEMMA AbortedConcat ==
    ASSUME NEW q \in Seq(Handler), NEW p \in Seq(Handler), NEW c, NEW t, t = q \o p,
           AllAborted(p, c)
    PROVE  Joined(q, t, c)
<1>1. /\ t \in Seq(Handler) /\ \A i \in 1..Len(q) : i \in 1..Len(t) /\ t[i] = q[i]
      /\ \A i \in 1..Len(t) : i \in 1..Len(q) \/ (i - Len(q) \in 1..Len(p) /\ t[i] = p[i - Len(q)])
      /\ \A kind, d : (\A i \in 1..Len(p) : p[i].client # d) => At(t, kind, d) = At(q, kind, d)
  BY AtConcat
<1>2. ASSUME NEW i \in 1..Len(t), i \notin 1..Len(q)
      PROVE  Aborted(t[i], c)
  BY <1>1, <1>2 DEF AllAborted
<1>3. ASSUME NEW kind, NEW d, d # c PROVE At(t, kind, d) = At(q, kind, d)
  <2>1. \A i \in 1..Len(p) : p[i].client # d
    BY <1>3 DEF AllAborted, Aborted
  <2> QED
    BY <1>1, <2>1
<1> QED
  BY <1>1, <1>2, <1>3 DEF Joined

\* stop: the operations of the client are aborted, and it is served no more.
LEMMA StopLoop ==
    ASSUME NEW s, NEW a, NEW C, NEW c \in C, NEW X, X \subseteq {c}, LoopOK(s, a, C, X)
    PROVE  LoopOK(stop(s, c), a, C, {})
<1>1. /\ s \in LoopState /\ C \subseteq Client /\ SocketsOK(s, a, C) /\ a # c /\ NoneElse(s, C)
      /\ QueueOK(s, a) /\ AcceptOK(s, a) /\ OneRead(s, C, X) /\ c \in Client /\ c # 0
  BY DEF LoopOK, SocketsOK
<1>2. CASE c \notin s.open
  <2>1. OneRead(s, C, {})
    BY <1>1, <1>2 DEF OneRead
  <2> QED
    BY <1>1, <1>2, <2>1 DEF stop, LoopOK
<1>3. CASE c \in s.open
  <2> DEFINE p == Copies(Done("read", c, "aborted"), s.reads[c])
             r == Copies(Done("write", c, "aborted"), s.writes[c])
             t == stop(s, c)
  <2>1. /\ s.open \in SUBSET Client /\ s.reads \in [Client -> 0..1]
        /\ s.writes \in [Client -> 0..MaxWrites] /\ s.ready \in Seq(Handler)
    BY <1>1, StateType
  <2>2. s.reads[c] \in Nat /\ s.writes[c] \in Nat
    BY <1>1, <2>1
  <2>3. p \in Seq(Handler) /\ AllAborted(p, c)
    <3>1. Done("read", c, "aborted") \in Handler /\ Aborted(Done("read", c, "aborted"), c)
      BY <1>1 DEF Handler, Done, Kind, Result, Aborted
    <3> QED
      BY <2>2, <3>1, CopiesType DEF AllAborted
  <2>4. r \in Seq(Handler) /\ AllAborted(r, c)
    <3>1. Done("write", c, "aborted") \in Handler /\ Aborted(Done("write", c, "aborted"), c)
      BY <1>1 DEF Handler, Done, Kind, Result, Aborted
    <3> QED
      BY <2>2, <3>1, CopiesType DEF AllAborted
  <2>5. /\ t.open = s.open \ {c} /\ t.reads = [s.reads EXCEPT ![c] = 0]
        /\ t.writes = [s.writes EXCEPT ![c] = 0] /\ t.ready = (s.ready \o p) \o r
        /\ t = [open |-> t.open, reads |-> t.reads, writes |-> t.writes, ready |-> t.ready]
    BY <1>3 DEF stop
  <2> HIDE DEF p, r, t
  <2> DEFINE q == s.ready \o p
  <2>6. t.ready = q \o r
    BY <2>5
  <2>q. q = s.ready \o p
    OBVIOUS
  <2> HIDE DEF q
  <2>7. /\ t.ready \in Seq(Handler)
        /\ \A i \in 1..Len(s.ready) : i \in 1..Len(t.ready) /\ t.ready[i] = s.ready[i]
        /\ \A i \in 1..Len(t.ready) : i \in 1..Len(s.ready) \/ Aborted(t.ready[i], c)
        /\ \A kind, d : d # c => At(t.ready, kind, d) = At(s.ready, kind, d)
    <3>1. Joined(s.ready, q, c)
      BY <2>1, <2>3, <2>q, AbortedConcat
    <3>2. q \in Seq(Handler)
      BY <3>1 DEF Joined
    <3>3. Joined(q, t.ready, c)
      BY <2>4, <2>6, <3>2, AbortedConcat
    <3> QED
      BY <3>1, <3>3 DEF Joined
  <2>8. SocketsOK(t, a, C)
    <3>1. IsFiniteSet(s.open) /\ t.open \subseteq s.open /\ Cardinality(s.open) <= Descriptors
      BY <1>1, <2>5 DEF SocketsOK
    <3>2. IsFiniteSet(t.open) /\ Cardinality(t.open) <= Cardinality(s.open)
      BY <3>1, FS_Subset
    <3>3. Cardinality(t.open) <= Descriptors
      BY <3>1, <3>2, FS_CardinalityType
    <3>4. t.reads \in [Client -> 0..1] /\ t.writes \in [Client -> 0..MaxWrites]
      BY <1>1, <2>1, <2>5
    <3>5. t \in LoopState
      BY <2>1, <2>5, <2>7, <3>1, <3>4 DEF LoopState
    <3> QED
      BY <1>1, <3>1, <3>2, <3>3, <3>5 DEF SocketsOK
  <2>9. QueueOK(t, a)
    <3>1. ASSUME NEW i \in 1..Len(t.ready) PROVE HandlerOK(t.ready[i], t.open, a)
      <4>1. CASE i \in 1..Len(s.ready)
        BY <1>1, <2>5, <2>7, <4>1 DEF QueueOK, HandlerOK
      <4>2. CASE Aborted(t.ready[i], c)
        BY <1>1, <2>5, <4>2 DEF HandlerOK, Aborted
      <4> QED
        BY <2>7, <4>1, <4>2
    <3> QED
      BY <3>1 DEF QueueOK
  <2>10. AcceptOK(t, a)
    <3>1. \A i \in 1..Len(t.ready) : t.ready[i].kind = "accept" => i \in 1..Len(s.ready)
      BY <2>7 DEF Aborted
    <3> QED
      BY <1>1, <2>5, <2>7, <3>1 DEF AcceptOK
  <2>11. OneRead(t, C, {})
    BY <1>1, <2>1, <2>5, <2>7, ZenonT(30) DEF OneRead
  <2>12. NoneElse(t, C)
    BY <1>1, <2>1, <2>5 DEF NoneElse
  <2> QED
    BY <2>8, <2>9, <2>10, <2>11, <2>12 DEF LoopOK, t
<1> QED
  BY <1>2, <1>3

Pop(s) == [s EXCEPT !.ready = Tail(@)]

\* The first handler is taken.  If it is one of a read, its connection has no
\* read until the next one is started.
AfterPop(s, t, a, C, h) ==
    /\ LoopOK(t, a, C, IF h.kind = "read" THEN {h.client} ELSE {})
    /\ h \in Handler /\ t.writes = s.writes /\ t.open = s.open
    /\ h.client # a \/ a = 0
    /\ h.result = "aborted" => h.client \notin t.open
    /\ h.kind = "read" /\ h.client \in C \cap t.open =>
           t.reads[h.client] = 0 /\ Cardinality(At(t.ready, "read", h.client)) = 0

LEMMA PopLoop ==
    ASSUME NEW s, NEW a, NEW C, LoopOK(s, a, C, {}), s.ready # <<>>,
           NEW h, h = Head(s.ready), h.kind # "accept", NEW t, t = Pop(s)
    PROVE  AfterPop(s, t, a, C, h)
<1>1. /\ s \in LoopState /\ C \subseteq Client /\ SocketsOK(s, a, C) /\ NoneElse(s, C)
      /\ QueueOK(s, a) /\ AcceptOK(s, a) /\ OneRead(s, C, {})
  BY DEF LoopOK, SocketsOK
<1>2. s.ready \in Seq(Handler) /\ s.reads \in [Client -> 0..1]
  BY <1>1, StateType
<1>3. /\ Tail(s.ready) \in Seq(Handler) /\ Head(s.ready) = s.ready[1]
      /\ s.ready[1] \in Handler /\ 1 \in 1..Len(s.ready)
      /\ \A i \in 1..Len(Tail(s.ready)) : i + 1 \in 1..Len(s.ready) /\ Tail(s.ready)[i] = s.ready[i + 1]
      /\ \A i \in 1..Len(s.ready) :
             i = 1 \/ (i - 1 \in 1..Len(Tail(s.ready)) /\ Tail(s.ready)[i - 1] = s.ready[i])
  BY <1>2, AtTail
<1>4. \A kind, c : Cardinality(At(Tail(s.ready), kind, c)) =
          IF s.ready[1].kind = kind /\ s.ready[1].client = c
          THEN Cardinality(At(s.ready, kind, c)) - 1 ELSE Cardinality(At(s.ready, kind, c))
  BY <1>2, AtTail
<1>5. /\ t \in LoopState /\ t.open = s.open /\ t.reads = s.reads /\ t.writes = s.writes
      /\ t.ready = Tail(s.ready)
  BY <1>1, <1>3 DEF LoopState, Pop
<1>6. HandlerOK(h, s.open, a) /\ h \in Handler
  BY <1>1, <1>3 DEF QueueOK
<1>7. QueueOK(t, a)
  BY <1>1, <1>3, <1>5 DEF QueueOK
<1>8. AcceptOK(t, a)
  <2>1. ASSUME NEW i \in 1..Len(t.ready), NEW j \in 1..Len(t.ready),
               t.ready[i].kind = "accept", t.ready[j].kind = "accept"
        PROVE  i = j
    <3>1. i + 1 = j + 1
      BY <1>1, <1>3, <1>5, <2>1 DEF AcceptOK
    <3>2. i \in Int /\ j \in Int
      OBVIOUS
    <3> QED
      BY <3>1, <3>2
  <2>2. ASSUME a \in t.open PROVE \E i \in 1..Len(t.ready) : t.ready[i].kind = "accept"
    <3>1. PICK i \in 1..Len(s.ready) : s.ready[i].kind = "accept"
      BY <1>1, <1>5, <2>2 DEF AcceptOK
    <3>2. i # 1
      BY <1>3, <3>1
    <3> QED
      BY <1>3, <1>5, <3>1, <3>2
  <2> QED
    BY <2>1, <2>2 DEF AcceptOK
<1>9. ASSUME NEW c \in C \cap t.open
      PROVE  t.reads[c] + Cardinality(At(t.ready, "read", c)) =
                 IF h.kind = "read" /\ h.client = c THEN 0 ELSE 1
  <2>1. s.reads[c] + Cardinality(At(s.ready, "read", c)) = 1
    BY <1>1, <1>5 DEF OneRead
  <2>2. Cardinality(At(s.ready, "read", c)) \in Nat /\ s.reads[c] \in 0..1
    BY <1>1, <1>2, AtFinite
  <2>3. Cardinality(At(t.ready, "read", c)) =
            IF h.kind = "read" /\ h.client = c THEN Cardinality(At(s.ready, "read", c)) - 1
                                               ELSE Cardinality(At(s.ready, "read", c))
    BY <1>3, <1>4, <1>5
  <2> QED
    BY <1>5, <2>1, <2>2, <2>3
<1>10. OneRead(t, C, IF h.kind = "read" THEN {h.client} ELSE {})
  BY <1>9 DEF OneRead
<1>11. SocketsOK(t, a, C) /\ NoneElse(t, C)
  BY <1>1, <1>5 DEF SocketsOK, NoneElse
<1>12. ASSUME h.kind = "read", h.client \in C \cap t.open
       PROVE  t.reads[h.client] = 0 /\ Cardinality(At(t.ready, "read", h.client)) = 0
  <2>1. Cardinality(At(t.ready, "read", h.client)) \in Nat
    BY <1>3, <1>5, AtFinite
  <2>2. t.reads[h.client] \in 0..1
    BY <1>1, <1>2, <1>5, <1>12
  <2>3. t.reads[h.client] + Cardinality(At(t.ready, "read", h.client)) = 0
    BY <1>9, <1>12
  <2> QED
    BY <2>1, <2>2, <2>3
<1>13. (h.client # a \/ a = 0) /\ (h.result = "aborted" => h.client \notin t.open)
  BY <1>5, <1>6 DEF HandlerOK
<1>14. LoopOK(t, a, C, IF h.kind = "read" THEN {h.client} ELSE {})
  BY <1>7, <1>8, <1>10, <1>11 DEF LoopOK
<1> QED
  BY <1>5, <1>6, <1>12, <1>13, <1>14 DEF AfterPop

\* The handler of the accept is taken, and the next accept is for b, a client
\* no handler knows.  If it went well the client it was for joins the list.
AfterAccept(t, a, C, h, b) ==
    /\ a \in Client
    /\ h.result = "ok" => /\ LoopOK(t, b, C \cup {a}, {a})
                          /\ t.reads[a] = 0 /\ Cardinality(At(t.ready, "read", a)) = 0
    /\ h.result # "ok" => LoopOK(t, b, C, {})

LEMMA PopAccept ==
    ASSUME NEW s, NEW a, NEW C, LoopOK(s, a, C, {}), s.ready # <<>>,
           NEW h, h = Head(s.ready), h.kind = "accept", NEW t, t = Pop(s),
           NEW b \in Client \ (C \cup {a}), \A i \in 1..Len(s.ready) : s.ready[i].client # b
    PROVE  AfterAccept(t, a, C, h, b)
<1>1. /\ s \in LoopState /\ C \subseteq Client /\ SocketsOK(s, a, C) /\ NoneElse(s, C)
      /\ QueueOK(s, a) /\ AcceptOK(s, a) /\ OneRead(s, C, {}) /\ a \in Client \cup {0} /\ a \notin C
  BY DEF LoopOK, SocketsOK
<1>2. s.ready \in Seq(Handler) /\ s.reads \in [Client -> 0..1]
  BY <1>1, StateType
<1>3. /\ Tail(s.ready) \in Seq(Handler) /\ Head(s.ready) = s.ready[1]
      /\ s.ready[1] \in Handler /\ 1 \in 1..Len(s.ready)
      /\ \A i \in 1..Len(Tail(s.ready)) : i + 1 \in 1..Len(s.ready) /\ Tail(s.ready)[i] = s.ready[i + 1]
  BY <1>2, AtTail
<1>4. \A kind, c : Cardinality(At(Tail(s.ready), kind, c)) =
          IF s.ready[1].kind = kind /\ s.ready[1].client = c
          THEN Cardinality(At(s.ready, kind, c)) - 1 ELSE Cardinality(At(s.ready, kind, c))
  BY <1>2, AtTail
<1>5. /\ t \in LoopState /\ t.open = s.open /\ t.reads = s.reads /\ t.writes = s.writes
      /\ t.ready = Tail(s.ready)
  BY <1>1, <1>3 DEF LoopState, Pop
<1>6. h.client = a /\ a # 0 /\ a \in Client /\ (h.result = "ok" <=> a \in s.open)
  BY <1>1, <1>3 DEF QueueOK, HandlerOK
<1>7. ASSUME NEW i \in 1..Len(t.ready)
      PROVE  /\ t.ready[i].kind # "accept" /\ t.ready[i].client \notin {a, b}
             /\ t.ready[i].result = "aborted" => t.ready[i].client \notin t.open
  <2>1. i + 1 \in 1..Len(s.ready) /\ i + 1 # 1 /\ t.ready[i] = s.ready[i + 1]
    BY <1>3, <1>5
  <2>2. s.ready[i + 1].kind # "accept"
    BY <1>1, <1>3, <2>1 DEF AcceptOK
  <2> QED
    BY <1>1, <1>5, <1>6, <2>1, <2>2 DEF QueueOK, HandlerOK
<1>8. QueueOK(t, b)
  BY <1>7 DEF QueueOK, HandlerOK
<1>9. b \notin t.open /\ AcceptOK(t, b)
  BY <1>1, <1>5, <1>7 DEF AcceptOK, SocketsOK
<1>10. At(t.ready, "read", a) = {} /\ t.reads[a] = 0
  BY <1>1, <1>5, <1>6, <1>7 DEF At, NoneElse
<1>11. \A c \in C \cap t.open : t.reads[c] + Cardinality(At(t.ready, "read", c)) = 1
  BY <1>1, <1>3, <1>4, <1>5 DEF OneRead
<1>12. ASSUME h.result = "ok" PROVE LoopOK(t, b, C \cup {a}, {a})
  <2>1. SocketsOK(t, b, C \cup {a})
    BY <1>1, <1>5, <1>6 DEF SocketsOK
  <2>2. OneRead(t, C \cup {a}, {a}) /\ NoneElse(t, C \cup {a})
    BY <1>1, <1>5, <1>11 DEF OneRead, NoneElse
  <2> QED
    BY <1>8, <1>9, <2>1, <2>2 DEF LoopOK
<1>13. ASSUME h.result # "ok" PROVE LoopOK(t, b, C, {})
  <2>1. SocketsOK(t, b, C)
    BY <1>1, <1>5, <1>6, <1>13 DEF SocketsOK
  <2>2. OneRead(t, C, {}) /\ NoneElse(t, C)
    BY <1>1, <1>5, <1>11 DEF OneRead, NoneElse
  <2> QED
    BY <1>8, <1>9, <2>1, <2>2 DEF LoopOK
<1> QED
  BY <1>6, <1>10, <1>12, <1>13, FS_EmptySet DEF AfterAccept

\* The accept completes: the socket is open, or there was no descriptor left.
LEMMA AcceptLoop ==
    ASSUME NEW s, NEW a, NEW C, LoopOK(s, a, C, {}), a # 0,
           Cardinality(At(s.ready, "accept", a)) = 0, NEW h, NEW t \in LoopState,
           \/ /\ h = Done("accept", a, "ok") /\ t.open = s.open \cup {a}
              /\ Cardinality(s.open) < Descriptors
           \/ h = Done("accept", a, "error") /\ t.open = s.open,
           t.reads = s.reads, t.writes = s.writes, t.ready = Append(s.ready, h)
    PROVE  LoopOK(t, a, C, {})
<1>1. /\ s \in LoopState /\ C \subseteq Client /\ SocketsOK(s, a, C) /\ NoneElse(s, C)
      /\ QueueOK(s, a) /\ AcceptOK(s, a) /\ OneRead(s, C, {}) /\ a \in Client /\ a \notin C
      /\ IsFiniteSet(s.open) /\ Cardinality(s.open) <= Descriptors
  BY DEF LoopOK, SocketsOK
<1>2. s.ready \in Seq(Handler) /\ Len(s.ready) \in Nat
  BY <1>1, StateType
<1>3. h \in Handler /\ h.kind = "accept" /\ h.client = a /\ h.result \in {"ok", "error"}
  BY <1>1 DEF Handler, Done, Kind, Result
<1>4. /\ Len(t.ready) = Len(s.ready) + 1 /\ t.ready[Len(s.ready) + 1] = h
      /\ \A i \in 1..Len(s.ready) : t.ready[i] = s.ready[i]
      /\ \A i \in 1..Len(t.ready) : i \in 1..Len(s.ready) \/ i = Len(s.ready) + 1
      /\ \A kind, c : Cardinality(At(t.ready, kind, c)) =
             IF h.kind = kind /\ h.client = c THEN Cardinality(At(s.ready, kind, c)) + 1
                                              ELSE Cardinality(At(s.ready, kind, c))
  BY <1>2, <1>3, AtAppend
<1>5. At(s.ready, "accept", a) = {}
  BY <1>2, AtFinite, FS_EmptySet
<1>6. \A i \in 1..Len(s.ready) : s.ready[i].kind # "accept" /\ s.ready[i].client # a
  BY <1>1, <1>5 DEF QueueOK, HandlerOK, At
<1>7. a \notin s.open
  BY <1>1, <1>6 DEF AcceptOK
<1>8. a \in t.open <=> h.result = "ok"
  BY <1>7 DEF Done
<1>9. QueueOK(t, a)
  <2>1. HandlerOK(h, t.open, a)
    BY <1>1, <1>3, <1>8 DEF HandlerOK
  <2>2. ASSUME NEW i \in 1..Len(s.ready) PROVE HandlerOK(s.ready[i], t.open, a)
    BY <1>1, <1>6 DEF QueueOK, HandlerOK
  <2> QED
    BY <1>4, <2>1, <2>2 DEF QueueOK
<1>10. AcceptOK(t, a)
  <2>1. \A i \in 1..Len(t.ready) : t.ready[i].kind = "accept" => i = Len(s.ready) + 1
    BY <1>4, <1>6
  <2>2. Len(s.ready) + 1 \in 1..Len(t.ready)
    BY <1>2, <1>4
  <2> QED
    BY <1>3, <1>4, <2>1, <2>2 DEF AcceptOK
<1>11. C \cap t.open = C \cap s.open
  BY <1>1
<1>12. OneRead(t, C, {}) /\ NoneElse(t, C)
  BY <1>1, <1>3, <1>4, <1>11 DEF OneRead, NoneElse
<1>13. SocketsOK(t, a, C)
  <2>1. IsFiniteSet(s.open \cup {a}) /\ Cardinality(s.open \cup {a}) = Cardinality(s.open) + 1
    BY <1>1, <1>7, FS_AddElement
  <2>2. Cardinality(s.open) \in Nat /\ Descriptors \in Nat
    BY <1>1, FS_CardinalityType
  <2>3. IsFiniteSet(t.open) /\ Cardinality(t.open) <= Descriptors
    <3>1. CASE t.open = s.open
      BY <1>1, <3>1
    <3>2. CASE t.open = s.open \cup {a} /\ Cardinality(s.open) < Descriptors
      BY <2>1, <2>2, <3>2
    <3> QED
      BY <3>1, <3>2
  <2> QED
    BY <1>1, <2>3 DEF SocketsOK
<1> QED
  BY <1>9, <1>10, <1>12, <1>13 DEF LoopOK

-----------------------------------------------------------------------------
(* The io loop, step by step.                                              *)

LEMMA IdleLoop == LoopOK(Idle, 0, {}, {})
<1>1. /\ Idle.open = {} /\ Idle.reads = [c \in Client |-> 0] /\ Idle.writes = [c \in Client |-> 0]
      /\ Idle.ready = <<>> /\ Len(Idle.ready) = 0
  BY DEF Idle
<1>2. Idle \in LoopState
  <2>1. <<>> \in Seq(Handler) /\ 0 \in 0..1 /\ 0 \in 0..MaxWrites
    OBVIOUS
  <2> QED
    BY <2>1 DEF Idle, LoopState
<1>3. IsFiniteSet({}) /\ Cardinality({}) = 0
  BY FS_EmptySet
<1>4. SocketsOK(Idle, 0, {})
  BY <1>1, <1>2, <1>3 DEF SocketsOK
<1>5. QueueOK(Idle, 0) /\ AcceptOK(Idle, 0)
  BY <1>1 DEF QueueOK, AcceptOK
<1>6. OneRead(Idle, {}, {}) /\ NoneElse(Idle, {})
  BY <1>1 DEF OneRead, NoneElse
<1> QED
  BY <1>4, <1>5, <1>6 DEF LoopOK

LEMMA LoopInit == Init => LoopInv
<1> SUFFICES ASSUME Init PROVE LoopInv
  OBVIOUS
<1>1. /\ waiting = 0 /\ accepting = 0 /\ clients_ = {} /\ timer = FALSE /\ io = Idle
  BY DEF Init
<1>2. LoopOK(Idle, 0, {}, {})
  BY IdleLoop
<1>3. waiting \in 0..MaxWaiting /\ timer \in BOOLEAN
  <2>1. 0 \in 0..MaxWaiting
    OBVIOUS
  <2> QED
    BY <1>1, <2>1
<1>4. LoopOK(io, accepting, clients_, {})
  BY <1>1, <1>2
<1> QED
  BY <1>1, <1>3, <1>4 DEF LoopInv

\* What the operating system and the devices do.
LEMMA LoopEnvironment ==
    ASSUME LoopInv, Environment
    PROVE  LoopInv'
<1>1. /\ waiting \in 0..MaxWaiting /\ timer \in BOOLEAN /\ LoopOK(io, accepting, clients_, {})
      /\ phase \in Building \cup {"start", "signals", "listen"} => accepting = 0
  BY DEF LoopInv
<1>2. /\ io \in LoopState /\ SocketsOK(io, accepting, clients_) /\ NoneElse(io, clients_)
      /\ accepting \in Client \cup {0} /\ clients_ \subseteq Client
  BY <1>1 DEF LoopOK, SocketsOK
<1>3. /\ io.open \in SUBSET Client /\ io.reads \in [Client -> 0..1]
      /\ io.writes \in [Client -> 0..MaxWrites] /\ io.ready \in Seq(Handler)
  BY <1>2, StateType
<1>4. CASE Connect
  <2>1. waiting' \in 0..MaxWaiting
    BY <1>1, <1>4 DEF Connect
  <2> QED
    BY <1>1, <1>4, <2>1 DEF Connect, LoopInv, process
<1>5. CASE AcceptCompletes
  <2>1. waiting' \in 0..MaxWaiting
    BY <1>1, <1>5 DEF AcceptCompletes
  <2>2. /\ accepting # 0 /\ Cardinality(At(io.ready, "accept", accepting)) = 0
        /\ UNCHANGED <<phase, accepting, clients_, timer>>
    BY <1>5 DEF AcceptCompletes, process, Queued, Places, At
  <2>3. PICK h : /\ h \in {Done("accept", accepting, "ok"), Done("accept", accepting, "error")}
                 /\ \/ /\ h = Done("accept", accepting, "ok") /\ Cardinality(io.open) < Descriptors
                       /\ io' = [io EXCEPT !.ready = Append(@, h), !.open = @ \cup {accepting}]
                    \/ /\ h = Done("accept", accepting, "error")
                       /\ io' = [io EXCEPT !.ready = Append(@, h)]
    <3>1. CASE Cardinality(io.open) < Descriptors
      BY <1>5, <3>1 DEF AcceptCompletes, Complete
    <3>2. CASE ~(Cardinality(io.open) < Descriptors)
      BY <1>5, <3>2 DEF AcceptCompletes, Complete
    <3> QED
      BY <3>1, <3>2
  <2>4. h \in Handler /\ accepting \in Client
    BY <1>2, <2>2, <2>3 DEF Handler, Done, Kind, Result
  <2>5. Append(io.ready, h) \in Seq(Handler)
    BY <1>3, <2>4, AtAppend
  <2>6. /\ io' \in LoopState /\ io'.reads = io.reads /\ io'.writes = io.writes
        /\ io'.ready = Append(io.ready, h)
    <3>1. CASE io' = [io EXCEPT !.ready = Append(@, h)]
      BY <1>2, <2>5, <3>1 DEF LoopState
    <3>2. CASE io' = [io EXCEPT !.ready = Append(@, h), !.open = @ \cup {accepting}]
      <4>1. io.open \cup {accepting} \in SUBSET Client
        BY <1>3, <2>4
      <4> QED
        BY <1>2, <2>5, <3>2, <4>1 DEF LoopState
    <3> QED
      BY <2>3, <3>1, <3>2
  <2>7. \/ /\ h = Done("accept", accepting, "ok") /\ io'.open = io.open \cup {accepting}
           /\ Cardinality(io.open) < Descriptors
        \/ h = Done("accept", accepting, "error") /\ io'.open = io.open
    BY <1>2, <2>3 DEF LoopState
  <2>8. LoopOK(io', accepting, clients_, {})
    BY <1>1, <2>2, <2>6, <2>7, AcceptLoop
  <2> QED
    BY <1>1, <2>1, <2>2, <2>8 DEF LoopInv
<1>6. ASSUME NEW c \in Client, ReadCompletes(c) PROVE LoopInv'
  <2>1. /\ io.reads[c] > 0 /\ UNCHANGED <<phase, waiting, accepting, clients_, timer>>
    BY <1>6 DEF ReadCompletes, process
  <2>2. PICK result \in {"ok", "full", "error"} :
            io' = [io EXCEPT !.ready = Append(@, Done("read", c, result)), !.reads[c] = @ - 1]
    BY <1>6 DEF ReadCompletes, Complete
  <2> DEFINE h == Done("read", c, result)
  <2>3. h \in Handler /\ h.kind = "read" /\ h.client = c /\ h.result # "aborted"
    BY DEF Handler, Done, Kind, Result
  <2>4. Append(io.ready, h) \in Seq(Handler)
    BY <1>3, <2>3, AtAppend
  <2>5. c \in clients_ \cap io.open /\ c # accepting
    <3>1. io.reads[c] # 0
      BY <1>3, <2>1
    <3> QED
      BY <1>2, <3>1 DEF NoneElse, SocketsOK
  <2>6. io.reads[c] = 1 /\ io.reads[c] - 1 = 0 /\ io.reads[c] - 1 \in 0..1
    BY <1>3, <2>1
  <2>7. /\ io' \in LoopState /\ io'.open = io.open /\ io'.writes = io.writes
        /\ io'.ready = Append(io.ready, h) /\ io'.reads = [io.reads EXCEPT ![c] = io.reads[c] - 1]
    BY <1>2, <1>3, <2>2, <2>4, <2>6 DEF LoopState
  <2> HIDE DEF h
  <2>8. HandlerOK(h, io.open, accepting)
    BY <2>3, <2>5 DEF HandlerOK
  <2>9. NoneElse(io', clients_)
    BY <1>2, <1>3, <2>5, <2>7 DEF NoneElse
  <2>10. ASSUME NEW d \in (clients_ \cap io.open) \ {}
         PROVE  io.reads[d] = io'.reads[d] + (IF h.kind = "read" /\ h.client = d THEN 1 ELSE 0)
    <3>1. d \in Client /\ io.reads[d] \in 0..1
      BY <1>2, <1>3
    <3> QED
      BY <1>3, <2>3, <2>6, <2>7, <3>1
  <2>11. LoopOK(io', accepting, clients_, {})
    BY <1>1, <2>3, <2>7, <2>8, <2>9, <2>10, QueuedLoop
  <2> QED
    BY <1>1, <2>1, <2>11 DEF LoopInv
<1>7. ASSUME NEW c \in Client, WriteCompletes(c) PROVE LoopInv'
  <2>1. /\ io.writes[c] > 0 /\ UNCHANGED <<phase, waiting, accepting, clients_, timer>>
    BY <1>7 DEF WriteCompletes, process
  <2>2. PICK result \in {"ok", "error"} :
            io' = [io EXCEPT !.ready = Append(@, Done("write", c, result)), !.writes[c] = @ - 1]
    BY <1>7 DEF WriteCompletes, Complete
  <2> DEFINE h == Done("write", c, result)
  <2>3. h \in Handler /\ h.kind = "write" /\ h.client = c /\ h.result # "aborted"
    BY DEF Handler, Done, Kind, Result
  <2>4. Append(io.ready, h) \in Seq(Handler)
    BY <1>3, <2>3, AtAppend
  <2>5. c \in clients_ \cap io.open /\ c # accepting
    <3>1. io.writes[c] # 0
      BY <1>3, <2>1
    <3> QED
      BY <1>2, <3>1 DEF NoneElse, SocketsOK
  <2>6. io.writes[c] - 1 \in 0..MaxWrites
    <3>1. MaxWrites \in Nat /\ io.writes[c] \in 0..MaxWrites
      BY <1>3
    <3> QED
      BY <2>1, <3>1
  <2>7. /\ io' \in LoopState /\ io'.open = io.open /\ io'.reads = io.reads
        /\ io'.ready = Append(io.ready, h) /\ io'.writes = [io.writes EXCEPT ![c] = io.writes[c] - 1]
    BY <1>2, <1>3, <2>2, <2>4, <2>6 DEF LoopState
  <2> HIDE DEF h
  <2>8. HandlerOK(h, io.open, accepting)
    BY <2>3, <2>5 DEF HandlerOK
  <2>9. NoneElse(io', clients_)
    BY <1>2, <1>3, <2>5, <2>7 DEF NoneElse
  <2>10. ASSUME NEW d \in (clients_ \cap io.open) \ {}
         PROVE  io.reads[d] = io'.reads[d] + (IF h.kind = "read" /\ h.client = d THEN 1 ELSE 0)
    <3>1. d \in Client /\ io.reads[d] \in 0..1
      BY <1>2, <1>3
    <3> QED
      BY <2>3, <2>7, <3>1
  <2>11. LoopOK(io', accepting, clients_, {})
    BY <1>1, <2>3, <2>7, <2>8, <2>9, <2>10, QueuedLoop
  <2> QED
    BY <1>1, <2>1, <2>11 DEF LoopInv
<1>8. ASSUME TimerExpires \/ Signal PROVE LoopInv'
  <2>1. /\ UNCHANGED <<phase, waiting, accepting, clients_>> /\ timer' \in BOOLEAN
        /\ \E kind \in {"timer", "signal"} : io' = Complete(io, kind, 0, "ok")
    BY <1>1, <1>8 DEF TimerExpires, Signal, process
  <2>2. PICK kind \in {"timer", "signal"} : io' = [io EXCEPT !.ready = Append(@, Done(kind, 0, "ok"))]
    BY <2>1 DEF Complete
  <2> DEFINE h == Done(kind, 0, "ok")
  <2>3. h \in Handler /\ h.kind \notin {"accept", "read"} /\ h.client = 0 /\ h.result = "ok"
    BY DEF Handler, Done, Kind, Result
  <2>4. Append(io.ready, h) \in Seq(Handler)
    BY <1>3, <2>3, AtAppend
  <2>5. /\ io' \in LoopState /\ io'.open = io.open /\ io'.writes = io.writes
        /\ io'.ready = Append(io.ready, h) /\ io'.reads = io.reads
    BY <1>2, <2>2, <2>4 DEF LoopState
  <2> HIDE DEF h
  <2>6. HandlerOK(h, io.open, accepting) /\ NoneElse(io', clients_)
    BY <1>2, <2>3, <2>5 DEF HandlerOK, NoneElse
  <2>7. ASSUME NEW d \in (clients_ \cap io.open) \ {}
        PROVE  io.reads[d] = io'.reads[d] + (IF h.kind = "read" /\ h.client = d THEN 1 ELSE 0)
    <3>1. d \in Client /\ io.reads[d] \in 0..1
      BY <1>2, <1>3
    <3> QED
      BY <2>3, <2>5, <3>1
  <2>8. LoopOK(io', accepting, clients_, {})
    BY <1>1, <2>3, <2>5, <2>6, <2>7, QueuedLoop
  <2> QED
    BY <1>1, <2>1, <2>8 DEF LoopInv
<1> QED
  BY <1>4, <1>5, <1>6, <1>7, <1>8 DEF Environment

\* The handlers of the server and of the clients.
LEMMA LoopHandlers ==
    ASSUME LoopInv, RunHandler
    PROVE  LoopInv'
<1>1. /\ waiting \in 0..MaxWaiting /\ timer \in BOOLEAN /\ LoopOK(io, accepting, clients_, {})
      /\ phase \in Building \cup {"start", "signals", "listen"} => accepting = 0
  BY DEF LoopInv
<1>2. /\ io \in LoopState /\ SocketsOK(io, accepting, clients_)
      /\ accepting \in Client \cup {0} /\ clients_ \subseteq Client
  BY <1>1 DEF LoopOK, SocketsOK
<1>3. phase = "running" /\ io.ready # <<>>
  BY DEF RunHandler, handle_accept, HandleRead, HandleWrite, HandleAborted, HandleDestroyed,
         handle_timer, handle_stop, Handles
<1>h. Completed = Head(io.ready) /\ Popped = Pop(io)
  BY DEF Completed, Popped, Pop
<1>4. CASE handle_accept
  <2>1. Completed.kind = "accept" /\ UNCHANGED <<phase, waiting, timer>>
    BY <1>4 DEF handle_accept, Handles, Completed, process
  <2>2. PICK b \in Unused : accepting' = b
    BY <1>4 DEF handle_accept, start_accept
  <2>3. /\ b \in Client \ (clients_ \cup {accepting})
        /\ \A i \in 1..Len(io.ready) : io.ready[i].client # b
    BY DEF Unused, Alive
  <2>4. /\ accepting \in Client
        /\ Completed.result = "ok" =>
               /\ LoopOK(Popped, b, clients_ \cup {accepting}, {accepting})
               /\ Popped.reads[accepting] = 0
               /\ Cardinality(At(Popped.ready, "read", accepting)) = 0
        /\ Completed.result # "ok" => LoopOK(Popped, b, clients_, {})
    <3>1. AfterAccept(Popped, accepting, clients_, Completed, b)
      BY <1>1, <1>3, <1>h, <2>1, <2>3, PopAccept
    <3> QED
      BY <3>1 DEF AfterAccept
  <2>5. LoopOK(io', b, clients_', {})
    <3>1. ASSUME Completed.result = "ok" PROVE LoopOK(io', b, clients_', {})
      <4>1. /\ clients_' = clients_ \cup {accepting}
            /\ \/ io' = stop(Popped, accepting) \/ io' = async_read_some(Popped, accepting)
        BY <1>4, <3>1 DEF handle_accept, client_start
      <4>2. LoopOK(stop(Popped, accepting), b, clients_ \cup {accepting}, {})
        BY <2>4, <3>1, StopLoop
      <4>3. LoopOK(async_read_some(Popped, accepting), b, clients_ \cup {accepting}, {})
        BY <2>4, <3>1, ReadLoop
      <4> QED
        BY <4>1, <4>2, <4>3
    <3>2. ASSUME Completed.result # "ok" PROVE LoopOK(io', b, clients_', {})
      BY <1>4, <2>4, <3>2 DEF handle_accept
    <3> QED
      BY <3>1, <3>2
  <2> QED
    BY <1>1, <1>3, <2>1, <2>2, <2>5 DEF LoopInv, Building
<1>5. ASSUME Completed.kind # "accept"
      PROVE  AfterPop(io, Popped, accepting, clients_, Completed)
  BY <1>1, <1>3, <1>h, <1>5, PopLoop
<1>6. CASE HandleRead
  <2>1. /\ Completed.kind = "read" /\ Completed.client \in Alive
        /\ UNCHANGED <<phase, waiting, accepting, clients_, timer>>
    BY <1>6 DEF HandleRead, Handles, Completed
  <2>2. /\ LoopOK(Popped, accepting, clients_, {Completed.client})
        /\ Completed \in Handler /\ Popped.writes = io.writes /\ Popped.open = io.open
        /\ Completed.client # accepting \/ accepting = 0
        /\ Completed.result = "aborted" => Completed.client \notin Popped.open
        /\ Completed.client \in clients_ \cap Popped.open =>
               /\ Popped.reads[Completed.client] = 0
               /\ Cardinality(At(Popped.ready, "read", Completed.client)) = 0
    BY <1>5, <2>1 DEF AfterPop
  <2>3. Completed.client \in clients_ /\ Completed.client \in Client
    BY <1>2, <2>1, <2>2 DEF Alive
  <2>4. PICK answers \in BOOLEAN, throws \in BOOLEAN :
            /\ answers => Completed.result = "ok" /\ MayAnswer(Completed.client)
            /\ io' = handle_read(Popped, Completed.client, Completed.result, answers, throws)
    BY <1>6 DEF HandleRead
  <2>5. LoopOK(io', accepting, clients_, {})
    <3>1. CASE Completed.result = "ok"
      <4> DEFINE r == async_read_some(Popped, Completed.client)
                 t == IF answers THEN send(r, Completed.client) ELSE r
      <4>1. io' = IF throws THEN stop(t, Completed.client) ELSE t
        BY <2>4, <3>1 DEF handle_read, recive
      <4>2. LoopOK(r, accepting, clients_, {}) /\ r.writes = io.writes
        BY <2>2, <2>3, ReadLoop
      <4> HIDE DEF r
      <4>3. LoopOK(t, accepting, clients_, {})
        <5>1. CASE answers
          <6>1. io.writes[Completed.client] + Cardinality(At(io.ready, "write", Completed.client)) < MaxWrites
            BY <2>4, <5>1 DEF MayAnswer, Queued, Places, At
          <6>2. io.ready \in Seq(Handler) /\ io.writes \in [Client -> 0..MaxWrites]
            BY <1>2, StateType
          <6>3. /\ Cardinality(At(io.ready, "write", Completed.client)) \in Nat
                /\ io.writes[Completed.client] \in 0..MaxWrites /\ MaxWrites \in Nat
            BY <2>3, <6>2, AtFinite
          <6>4. r.writes[Completed.client] < MaxWrites
            BY <4>2, <6>1, <6>3
          <6> QED
            BY <2>3, <4>2, <5>1, <6>4, SendLoop
        <5>2. CASE ~answers
          BY <4>2, <5>2
        <5> QED
          BY <5>1, <5>2
      <4> HIDE DEF t
      <4>4. LoopOK(stop(t, Completed.client), accepting, clients_, {})
        BY <2>3, <4>3, StopLoop
      <4> QED
        BY <4>1, <4>3, <4>4
    <3>2. CASE Completed.result \in {"full", "error"}
      <4>1. io' = stop(Popped, Completed.client)
        BY <2>4, <3>2 DEF handle_read
      <4> QED
        BY <2>2, <2>3, <4>1, StopLoop
    <3>3. CASE Completed.result = "aborted"
      <4>1. io' = Popped
        BY <2>4, <3>3 DEF handle_read
      <4>2. OneRead(Popped, clients_, {Completed.client}) => OneRead(Popped, clients_, {})
        BY <2>2, <3>3 DEF OneRead
      <4> QED
        BY <2>2, <4>1, <4>2 DEF LoopOK
    <3>4. Completed.result \in {"ok", "full", "error", "aborted"}
      BY <2>2 DEF Handler, Result
    <3> QED
      BY <3>1, <3>2, <3>3, <3>4
  <2> QED
    BY <1>1, <2>1, <2>5 DEF LoopInv
<1>7. CASE HandleWrite
  <2>1. /\ Completed.kind = "write" /\ Completed.client \in Alive
        /\ UNCHANGED <<phase, waiting, accepting, clients_, timer>>
        /\ io' = handle_write(Popped, Completed.client, Completed.result)
    BY <1>7 DEF HandleWrite, Handles, Completed, process
  <2>2. /\ LoopOK(Popped, accepting, clients_, {})
        /\ Completed.client # accepting \/ accepting = 0
    BY <1>5, <2>1 DEF AfterPop
  <2>3. Completed.client \in clients_
    BY <2>1, <2>2 DEF Alive
  <2>4. LoopOK(stop(Popped, Completed.client), accepting, clients_, {})
    BY <2>2, <2>3, StopLoop
  <2>5. LoopOK(io', accepting, clients_, {})
    BY <2>1, <2>2, <2>4 DEF handle_write
  <2> QED
    BY <1>1, <2>1, <2>5 DEF LoopInv
<1>8. CASE HandleAborted
  <2>1. /\ Completed.kind = "read" /\ Completed.result = "aborted" /\ io' = Popped
        /\ UNCHANGED <<phase, waiting, accepting, clients_, timer>>
    BY <1>8 DEF HandleAborted, Handles, Completed, process
  <2>2. /\ LoopOK(Popped, accepting, clients_, {Completed.client})
        /\ Completed.client \notin Popped.open
    BY <1>5, <2>1 DEF AfterPop
  <2>3. OneRead(Popped, clients_, {Completed.client}) => OneRead(Popped, clients_, {})
    BY <2>2 DEF OneRead
  <2>4. LoopOK(io', accepting, clients_, {})
    BY <2>1, <2>2, <2>3 DEF LoopOK
  <2> QED
    BY <1>1, <2>1, <2>4 DEF LoopInv
<1>9. CASE HandleDestroyed
  BY <1>1, <1>9 DEF HandleDestroyed, LoopInv, loop, Building
<1>10. CASE handle_timer
  <2>1. /\ Completed.kind = "timer" /\ io' = Popped /\ timer' = TRUE
        /\ clients_' = clients_ \cap io.open /\ UNCHANGED <<phase, waiting, accepting>>
    BY <1>10 DEF handle_timer, drop_unused_clients, Handles, Completed, process
  <2>2. LoopOK(Popped, accepting, clients_, {}) /\ Popped.open = io.open
    BY <1>5, <2>1 DEF AfterPop
  <2>3. LoopOK(Popped, accepting, clients_ \cap Popped.open, {})
    BY <2>2 DEF LoopOK, SocketsOK, OneRead, NoneElse
  <2> QED
    BY <1>1, <2>1, <2>2, <2>3 DEF LoopInv
<1>11. CASE handle_stop
  <2>1. LoopOK(Idle, 0, {}, {}) /\ 0 \in 0..MaxWaiting
    BY IdleLoop
  <2>2. /\ waiting' = 0 /\ accepting' = 0 /\ clients_' = {} /\ timer' = FALSE /\ io' = Idle
    BY <1>11 DEF handle_stop
  <2>3. LoopOK(io', accepting', clients_', {})
    BY <2>1, <2>2
  <2> QED
    BY <2>1, <2>2, <2>3 DEF LoopInv
<1> QED
  BY <1>4, <1>6, <1>7, <1>8, <1>9, <1>10, <1>11 DEF RunHandler

LEMMA LoopNext == LoopInv /\ [Next]_vars => LoopInv'
<1> SUFFICES ASSUME LoopInv, [Next]_vars PROVE LoopInv'
  OBVIOUS
<1>1. /\ waiting \in 0..MaxWaiting /\ timer \in BOOLEAN /\ LoopOK(io, accepting, clients_, {})
      /\ phase \in Building \cup {"start", "signals", "listen"} => accepting = 0
  BY DEF LoopInv
<1>2. CASE (Main \/ Worker \/ Killed) /\ UNCHANGED loop
  <2>1. phase' \in Building \cup {"start", "signals", "listen"} =>
            phase \in Building \cup {"start", "signals", "listen"}
    BY <1>2 DEF Main, Worker, Killed, ParseArguments, read_settings_from_file, CheckOptions,
                daemonize, CreateBackend, start, StartFails, bind_signals, SignalsFail,
                ListenFails, Destructors,
                DestroyServer, StopJoins, DestroyOracle, DestroyBase, Finish, Sleeps, Batch,
                Saves, Throw, Building
  <2> QED
    BY <1>1, <1>2, <2>1 DEF LoopInv, loop
<1>3. CASE start_listen
  <2>1. /\ accepting = 0 /\ phase' = "timer" /\ UNCHANGED <<waiting, clients_, timer, io>>
    BY <1>1, <1>3 DEF start_listen, Listens
  <2>2. PICK b \in Unused : accepting' = b
    BY <1>3 DEF start_listen, start_accept
  <2>3. /\ b \in Client \ clients_ /\ \A i \in 1..Len(io.ready) : io.ready[i].client # b
    BY DEF Unused, Alive
  <2>4. LoopOK(io, 0, clients_, {})
    BY <1>1, <2>1
  <2>5. LoopOK(io, b, clients_, {})
    <3>1. io.open \subseteq Client /\ io.open \subseteq clients_
      BY <2>4 DEF LoopOK, SocketsOK, LoopState
    <3>2. SocketsOK(io, b, clients_)
      BY <2>3, <2>4, <3>1 DEF LoopOK, SocketsOK
    <3>3. QueueOK(io, b) /\ AcceptOK(io, b)
      BY <2>3, <2>4, <3>1 DEF LoopOK, QueueOK, HandlerOK, AcceptOK
    <3> QED
      BY <2>4, <3>2, <3>3 DEF LoopOK
  <2> QED
    BY <1>1, <2>1, <2>2, <2>5 DEF LoopInv, Building
<1>4. CASE run
  BY <1>1, <1>4 DEF run, Runs, LoopInv, Building
<1>5. CASE RunHandler
  BY <1>5, LoopHandlers
<1>6. CASE Environment
  BY <1>6, LoopEnvironment
<1>7. CASE Terminated \/ UNCHANGED vars
  BY <1>1, <1>7 DEF Terminated, LoopInv, vars, process, loop
<1> QED
  BY <1>2, <1>3, <1>4, <1>5, <1>6, <1>7 DEF Next

-----------------------------------------------------------------------------
(* The theorems.                                                           *)

\* The two invariants hold, so what follows from them does.
THEOREM InvariantsHold == Spec => [](LifeInv /\ LoopInv)
<1>1. Init => LifeInv /\ LoopInv
  BY LifeInit, LoopInit DEF Init
<1>2. LifeInv /\ LoopInv /\ [Next]_vars => (LifeInv /\ LoopInv)'
  BY LifeNext, LoopNext
<1> QED
  BY <1>1, <1>2, PTL DEF Spec

\* Every variable of the process and of the io loop stays in its type: a
\* client has at most one read in progress, and no more sockets are open than
\* there are descriptors (server.cpp, client.cpp).
THEOREM TypeCorrect == Spec => []TypeOK
<1>1. LifeInv /\ LoopInv => TypeOK
  BY DEF LifeInv, LoopInv, LoopOK, SocketsOK, LoopState, Handler, TypeOK
<1> QED
  BY <1>1, InvariantsHold, PTL

\* Whatever the file says and whichever start-up step fails, the loop runs
\* only with every section complete, a storage that was built in, a living
\* worker and a bound signal (main, main_linux.cpp 56-84; server.cpp 30-57).
THEOREM RunsReady == Spec => []ReadyWhenRunning
<1>1. LifeInv => ReadyWhenRunning
  <2> SUFFICES ASSUME LifeInv, phase = "running"
               PROVE  /\ \A i \in 1..Len(config.sections) : Needed \subseteq config.sections[i].has
                      /\ config.sections # <<>> /\ config.sections[1].kind \in Supported
                      /\ backend = "oracle" /\ worker \notin {"none", "exited"}
                      /\ bound
    BY DEF ReadyWhenRunning
  <2>1. backend = "oracle" /\ worker \notin {"none", "exited"} /\ bound
    BY DEF LifeInv, StageInv, Serving
  <2>2. /\ \A i \in 1..Len(config.sections) : Missing(config.sections[i]) = {}
        /\ options = [i \in 1..Len(config.sections) |-> parse_settings(config.sections[i])]
        /\ options # <<>> /\ options[1].kind \in Supported
    BY DEF LifeInv, SettingsInv, Serving
  <2>3. config.sections \in Seq([has : SUBSET STRING, kind : STRING])
    BY DEF LifeInv, ProcessTypeOK
  <2>4. config.sections # <<>> /\ 1 \in 1..Len(config.sections)
    <3>1. config.sections = <<>> => options = <<>>
      BY <2>2
    <3> QED
      BY <2>2, <2>3, <3>1
  <2>5. config.sections[1].kind \in Supported
    BY <2>2, <2>4 DEF parse_settings
  <2>6. \A i \in 1..Len(config.sections) : Needed \subseteq config.sections[i].has
    BY <2>2 DEF Missing
  <2> QED
    BY <2>1, <2>4, <2>5, <2>6
<1> QED
  BY <1>1, InvariantsHold, PTL

\* A connection that is served always has exactly one read, and asio holds
\* nothing of one that was stopped or dropped, whatever the order in which
\* errors, exceptions, late handlers and the clean-up come (handle_read,
\* client.cpp 130-172; drop_unused_clients, server.cpp 195-209).
THEOREM OperationsFollow == Spec => []OperationsFollowSocket
<1>1. LoopInv => OperationsFollowSocket
  <2> SUFFICES ASSUME LoopInv PROVE OperationsFollowSocket
    OBVIOUS
  <2>1. /\ OneRead(io, clients_, {}) /\ NoneElse(io, clients_) /\ SocketsOK(io, accepting, clients_)
        /\ io.open \subseteq Client
    BY DEF LoopInv, LoopOK, SocketsOK, LoopState
  <2>2. \A c : Queued("read", c) = Cardinality(At(io.ready, "read", c))
    BY DEF Queued, Places, At
  <2>3. io.open \subseteq Alive
    BY <2>1 DEF SocketsOK, Alive
  <2> QED
    BY <2>1, <2>2, <2>3 DEF OperationsFollowSocket, OneRead, NoneElse
<1> QED
  BY <1>1, InvariantsHold, PTL

\* A worker that outlives its backend finds nothing to save, and the object
\* is freed after the worker has ended, in every order of a failing start, a
\* signal and the destructors (server.cpp 109; backends/base.cpp 31).
THEOREM RuinIsNotUsed == Spec => []NothingSavedIntoRuin
<1>1. LifeInv => NothingSavedIntoRuin
  BY DEF LifeInv, RuinInv
<1> QED
  BY <1>1, InvariantsHold, PTL
=============================================================================
