---------------------------- MODULE StoreBackend -----------------------------
(***************************************************************************)
(* The storage backend: src/backends/base.cpp with the Oracle backend      *)
(* src/backends/oracle.cpp that plugs into it.                             *)
(*                                                                         *)
(* Three parties act.  The io thread calls add_message.  The worker thread *)
(* runs work_proc: once a second it takes over the whole queue and writes  *)
(* it to the table in one transaction.  The owner (server_t) starts the    *)
(* worker, later stops it and destroys the backend.  When its constructor  *)
(* throws after that start the backend is destroyed under a running worker *)
(* and the thread is joined on the way.  The database is external: any     *)
(* call to it may fail.                                                    *)
(*                                                                         *)
(* A message is the number of the add_message call that delivered it.      *)
(***************************************************************************)
EXTENDS Naturals, Sequences, Functions

CONSTANTS MaxMessages,   \* max_messages_, 4096 in the code
          MaxCalls,      \* bound: successful add_message calls explored
          MaxErrors      \* bound: failures of the database explored

ASSUME MaxMessagesAssumption == MaxMessages \in Nat \ {0}
ASSUME MaxCallsAssumption == MaxCalls \in Nat
ASSUME MaxErrorsAssumption == MaxErrors \in Nat

VARIABLES messages_,     \* the queue shared by the io thread and the worker
          batch,         \* the worker's local copy, the variable "messages"
          saved,         \* how far the worker's loop over batch has come
          wpc,           \* where the worker is in work_proc
          interrupted,   \* interrupt() requested and not yet delivered
          owner,         \* what the owning server_t has done so far
          connected,     \* connection_ holds a connection
          txn,           \* inserts executed and not yet committed
          rows,          \* committed inserts, in insertion order
          calls,         \* history: add_message calls that returned normally
          refusals,      \* history: add_message calls that threw
          errors         \* history: LOG4CPLUS_ERROR lines of the worker

shared == <<messages_, calls, refusals>>
worker == <<batch, saved, wpc, errors>>
database == <<connected, txn, rows>>
vars == <<messages_, batch, saved, wpc, interrupted, owner, connected, txn,
          rows, calls, refusals, errors>>

Message == 1..MaxCalls
WorkerPc == {"none", "sleep", "begin", "swap", "save", "point", "end", "exited"}
OwnerState == {"init", "starting", "serving", "joining", "stopped",
               "stripped", "dismantled", "gone", "undefined"}

\* The part of the batch the worker's loop has still to save.
InFlight == IF wpc \in {"save", "point"} THEN SubSeq(batch, saved + 1, Len(batch))
                                         ELSE <<>>

accepted == 1..calls

\* Accepted messages that are nowhere any more.
Lost == accepted \ (Range(messages_) \cup Range(InFlight) \cup Range(txn) \cup Range(rows))

\* The constructors: base_impl_t makes an empty queue, oracle_t opens the
\* connection (the server asks for test_connection by default).
Init == /\ messages_ = <<>> /\ batch = <<>> /\ saved = 0
        /\ wpc = "none" /\ interrupted = FALSE /\ owner = "init"
        /\ connected = TRUE /\ txn = <<>> /\ rows = <<>>
        /\ calls = 0 /\ refusals = 0 /\ errors = 0

-----------------------------------------------------------------------------
(* The io thread.                                                          *)

\* Mutant: the capacity test lets one message too many in.
AddMessageOffByOne ==
    /\ owner = "serving"
    /\ calls < MaxCalls
    /\ Len(messages_) <= MaxMessages
    /\ calls' = calls + 1
    /\ messages_' = Append(messages_, calls + 1)
    /\ UNCHANGED <<refusals, interrupted, owner, worker, database>>

AddMessage ==
    /\ owner = "serving"
    /\ calls < MaxCalls
    /\ Len(messages_) < MaxMessages
    /\ calls' = calls + 1
    /\ messages_' = Append(messages_, calls + 1)
    /\ UNCHANGED <<refusals, interrupted, owner, worker, database>>

\* The queue is full: overflow_error.  One refusal is as good as many.
AddMessageOverflow ==
    /\ owner = "serving"
    /\ refusals = 0
    /\ Len(messages_) >= MaxMessages
    /\ refusals' = refusals + 1
    /\ UNCHANGED <<messages_, calls, interrupted, owner, worker, database>>

-----------------------------------------------------------------------------
(* The owner: start() in server_t's constructor, stop() in its destructor. *)

Start ==
    /\ owner = "init"
    /\ owner' = "starting"
    /\ wpc' = "sleep"
    /\ UNCHANGED <<shared, batch, saved, errors, interrupted, database>>

\* boost::thread throws thread_resource_error: there is no thread to stop.
StartFails ==
    /\ owner = "init"
    /\ owner' = "stopped"
    /\ UNCHANGED <<shared, worker, interrupted, database>>

\* The constructor of server_t has come to its end, and run() is called.
Serve ==
    /\ owner = "starting"
    /\ owner' = "serving"
    /\ UNCHANGED <<shared, worker, interrupted, database>>

StopInterrupt ==
    /\ owner = "serving"
    /\ owner' = "joining"
    /\ interrupted' = TRUE
    /\ UNCHANGED <<shared, worker, database>>

StopJoin ==
    /\ owner = "joining"
    /\ wpc = "exited"
    /\ owner' = "stopped"
    /\ UNCHANGED <<shared, interrupted, worker, database>>

\* What becomes of the open transaction when the connection is terminated
\* is the database's choice: OCCI commits at a clean log-off, a dead
\* connection is rolled back.
TerminateConnection ==
    /\ connected' = FALSE
    /\ txn' = <<>>
    /\ rows' \in {rows, rows \o txn}

\* Both destructors, after a stop(): there is no thread for the second one.
Destroy ==
    /\ owner = "stopped"
    /\ owner' = "gone"
    /\ messages_' = <<>>
    /\ TerminateConnection
    /\ UNCHANGED <<calls, refusals, interrupted, worker>>

\* The constructor of server_t throws after start(): ~server_t is not called,
\* ~oracle_t destroys the connection while the worker runs ...
ConstructorThrows ==
    /\ owner = "starting"
    /\ owner' = "stripped"
    /\ TerminateConnection
    /\ UNCHANGED <<shared, worker, interrupted>>

\* ... ~base_impl_t, whose object has the virtual functions of the base
\* again, calls stop() ...
DestroyBase ==
    /\ owner = "stripped"
    /\ owner' = "dismantled"
    /\ interrupted' = TRUE
    /\ UNCHANGED <<shared, worker, database>>

\* Mutant: ~base_impl_t does not wait for the thread.
DestroyWithoutJoin ==
    /\ owner = "dismantled"
    /\ owner' = "gone"
    /\ messages_' = <<>>
    /\ UNCHANGED <<calls, refusals, interrupted, worker, database>>

\* ... which joins, and only then is the object freed.
DestroyJoin ==
    /\ owner = "dismantled"
    /\ wpc = "exited"
    /\ owner' = "gone"
    /\ messages_' = <<>>
    /\ UNCHANGED <<calls, refusals, interrupted, worker, database>>

-----------------------------------------------------------------------------
(* The worker thread.                                                      *)

\* sleep() returns after a second: interruption point, but none is pending.
Sleep ==
    /\ wpc = "sleep"
    /\ ~interrupted
    /\ wpc' = "begin"
    /\ UNCHANGED <<shared, batch, saved, errors, interrupted, owner, database>>

\* Mutant: the sleep stands inside the inner try block.
SleepInterruptSwallowed ==
    /\ wpc = "sleep"
    /\ interrupted
    /\ interrupted' = FALSE
    /\ wpc' = "begin"
    /\ UNCHANGED <<shared, batch, saved, errors, owner, database>>

\* sleep() throws thread_interrupted outside the inner try: work_proc ends.
SleepInterrupted ==
    /\ wpc = "sleep"
    /\ interrupted
    /\ interrupted' = FALSE
    /\ wpc' = "exited"
    /\ UNCHANGED <<shared, batch, saved, errors, owner, database>>

\* Mutant: the connection is opened in the constructor only.
BeginBatchWithoutReconnect ==
    /\ wpc = "begin"
    /\ wpc' = "swap"
    /\ UNCHANGED <<shared, batch, saved, errors, interrupted, owner, database>>

\* open_connection: reconnects when there is no connection, then probes it.
BeginBatch ==
    /\ wpc = "begin"
    /\ wpc' = "swap"
    /\ connected' = TRUE
    /\ UNCHANGED <<shared, batch, saved, errors, interrupted, owner, txn, rows>>

\* Mutant: the error is not reported.
SilentError ==
    /\ errors' = errors
    /\ wpc' = "sleep"

\* Mutant: only the outer catch exists, an error ends the thread.
FatalError ==
    /\ errors' = errors + 1
    /\ wpc' = "exited"

\* The inner catch blocks: log, and go round the loop.
LogError ==
    /\ errors' = errors + 1
    /\ wpc' = "sleep"

DatabaseFails == errors < MaxErrors /\ LogError

\* open_connection fails: connection_.reset() in every catch block.
BeginBatchFails ==
    /\ wpc = "begin"
    /\ DatabaseFails
    /\ TerminateConnection
    /\ UNCHANGED <<shared, batch, saved, interrupted, owner>>

\* Mutant: the queue is copied and not cleared.
SwapQueueWithoutClear ==
    /\ wpc = "swap"
    /\ batch' = messages_
    /\ saved' = 0
    /\ wpc' = IF messages_ = <<>> THEN "end" ELSE "save"
    /\ UNCHANGED <<shared, errors, interrupted, owner, database>>

SwapQueue ==
    /\ wpc = "swap"
    /\ batch' = messages_
    /\ saved' = 0
    /\ messages_' = <<>>
    /\ wpc' = IF messages_ = <<>> THEN "end" ELSE "save"
    /\ UNCHANGED <<calls, refusals, errors, interrupted, owner, database>>

SaveMessage ==
    /\ wpc = "save"
    /\ txn' = Append(txn, batch[saved + 1])
    /\ saved' = saved + 1
    /\ wpc' = "point"
    /\ UNCHANGED <<shared, batch, errors, interrupted, owner, connected, rows>>

\* The insert throws: the rest of the batch is abandoned.  Earlier inserts of
\* the transaction stay in it unless the session died with the statement.
SaveFails ==
    /\ wpc = "save"
    /\ DatabaseFails
    /\ txn' \in {txn, <<>>}
    /\ UNCHANGED <<shared, batch, saved, interrupted, owner, connected, rows>>

InterruptionPoint ==
    /\ wpc = "point"
    /\ ~interrupted
    /\ wpc' = IF saved < Len(batch) THEN "save" ELSE "end"
    /\ UNCHANGED <<shared, batch, saved, errors, interrupted, owner, database>>

\* interruption_point() throws thread_interrupted inside the inner try, where
\* catch (...) takes it: the request is consumed and the loop goes on.
InterruptSwallowed ==
    /\ wpc = "point"
    /\ interrupted
    /\ interrupted' = FALSE
    /\ LogError
    /\ UNCHANGED <<shared, batch, saved, owner, database>>

EndBatch ==
    /\ wpc = "end"
    /\ rows' = rows \o txn
    /\ txn' = <<>>
    /\ wpc' = "sleep"
    /\ UNCHANGED <<shared, batch, saved, errors, interrupted, owner, connected>>

\* commit() throws: nothing happened, or the session died, or the commit was
\* done and only its answer was lost.
EndBatchFails ==
    /\ wpc = "end"
    /\ DatabaseFails
    /\ \/ UNCHANGED <<txn, rows>>
       \/ txn' = <<>> /\ rows' \in {rows, rows \o txn}
    /\ UNCHANGED <<shared, batch, saved, interrupted, owner, connected>>

\* Between the two destructors the object still has the functions of
\* oracle_t, which use the connection that is gone; save_message_impl of the
\* base is pure.  What the program does after such a call is undefined.
UseRuin ==
    /\ owner \in {"stripped", "dismantled"}
    /\ wpc \in IF owner = "stripped" THEN {"begin", "save", "end"} ELSE {"save"}
    /\ owner' = "undefined"
    /\ UNCHANGED <<shared, worker, interrupted, database>>

\* begin_batch_impl and end_batch_impl of the base do nothing.
BaseBatch ==
    /\ owner = "dismantled"
    /\ wpc \in {"begin", "end"}
    /\ wpc' = IF wpc = "begin" THEN "swap" ELSE "sleep"
    /\ UNCHANGED <<shared, batch, saved, errors, interrupted, owner, database>>

-----------------------------------------------------------------------------
Io == AddMessage \/ AddMessageOverflow

Owner == \/ Start \/ StartFails \/ Serve \/ StopInterrupt \/ StopJoin \/ Destroy
         \/ ConstructorThrows \/ DestroyBase \/ DestroyJoin

\* The oracle_t object is there, or nobody is left to call it.
Whole == owner \notin {"stripped", "dismantled", "undefined"}

\* The worker's calls of the oracle_t object.
Backend == \/ BeginBatch \/ BeginBatchFails \/ SaveMessage \/ SaveFails
           \/ EndBatch \/ EndBatchFails

\* The rest of work_proc.
Loop == \/ Sleep \/ SleepInterrupted \/ SwapQueue
        \/ InterruptionPoint \/ InterruptSwallowed

Worker == \/ Whole /\ Backend
          \/ owner # "undefined" /\ Loop
          \/ UseRuin \/ BaseBatch

\* The process ends once the backend is gone; what follows the use of a
\* destroyed connection is not modelled.
Terminated == owner \in {"gone", "undefined"} /\ UNCHANGED vars

Next == Io \/ Owner \/ Worker \/ Terminated

Spec == Init /\ [][Next]_vars

\* The operating system runs the worker thread and the joining thread.
\* Nothing forces a message to arrive or the server to stop.
Fairness == WF_vars(Worker) /\ WF_vars(StopJoin) /\ WF_vars(DestroyJoin)

LiveSpec == Spec /\ Fairness
-----------------------------------------------------------------------------
TypeOK ==
    /\ messages_ \in Seq(Message) /\ Len(messages_) <= MaxMessages
    /\ batch \in Seq(Message) /\ saved \in 0..Len(batch)
    /\ wpc \in WorkerPc
    /\ interrupted \in BOOLEAN
    /\ owner \in OwnerState
    /\ connected \in BOOLEAN
    /\ txn \in Seq(Message)
    /\ rows \in Seq(Message)
    /\ calls \in 0..MaxCalls
    /\ refusals \in 0..1
    /\ errors \in Nat

Increasing(s) == \A i, j \in 1..Len(s) : i < j => s[i] < s[j]
Before(s, t) == \A i \in 1..Len(s), j \in 1..Len(t) : s[i] < t[j]

\* Messages reach the table in the order the protocol handed them over and at
\* most once, whatever fails and is retried: what is committed precedes what
\* is inserted, that precedes what the worker still holds, and that precedes
\* the queue (base.cpp work_proc, lines 114-135).
FifoOrder ==
    /\ Increasing(rows) /\ Increasing(txn) /\ Increasing(InFlight) /\ Increasing(messages_)
    /\ Before(rows, txn) /\ Before(rows, InFlight) /\ Before(rows, messages_)
    /\ Before(txn, InFlight) /\ Before(txn, messages_)
    /\ Before(InFlight, messages_)

\* save_message_impl and end_batch_impl dereference connection_ unchecked
\* (oracle.cpp lines 123 and 149): no path leads there after a failed
\* open_connection dropped the connection and before one made it again.  Of a
\* backend that is destroyed under its worker UseRuin speaks.
ConnectedWhileSaving ==
    Whole => (wpc \in {"swap", "save", "point", "end"} => connected)

\* The memory of a backend is not freed while its worker runs, and nothing is
\* queued or uncommitted then: after ~server_t, and also when the constructor
\* of server_t throws after start() and nobody but ~base_impl_t is left to
\* join (base.cpp lines 30-32).  It does not say that the worker makes no call
\* before that: in between the connection is gone, which UseRuin shows.
QuietWhenGone ==
    owner = "gone" => wpc \in {"none", "exited"} /\ messages_ = <<>> /\ txn = <<>>

Store == INSTANCE AbstractStore
             WITH durable <- Range(rows), lost <- Lost, serving <- owner # "gone"

\* The backend keeps the promise of AbstractStore: no accepted message is
\* lost without a logged error before the backend is destroyed, a lost one
\* never reaches the table, a committed one never leaves it.
ImplementsAbstractStore == Store!Spec

\* An accepted message does not stay in memory for ever while the server is
\* serving: the worker commits it, or logs an error that cost it.
AcceptedIsSettled ==
    \A m \in Message :
        m \in accepted ~> (m \in Range(rows) \/ m \in Lost \/ owner # "serving")

\* stop() returns when the interruption finds the worker with nothing to save,
\* and so does the stop() of ~base_impl_t, which nothing can have been queued
\* before.
IdleStopReturns ==
    /\ (owner = "joining" /\ interrupted /\ messages_ = <<>> /\ wpc \notin {"save", "point"})
           ~> owner = "stopped"
    /\ owner = "dismantled" ~> owner = "gone"

\* What the handler at base.cpp line 145 says of stop(): the worker thread is
\* interrupted, so the join returns.
StopReturns == owner = "joining" ~> owner = "stopped"
=============================================================================
