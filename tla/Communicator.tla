---------------------------- MODULE Communicator ----------------------------
(***************************************************************************)
(* The protocol and the backend together: records go from the devices      *)
(* through OmnicommSession and add_message (protocol.cpp line 428) to the  *)
(* store that the connections share (client_t::get_backend), and from      *)
(* there to the table.                                                     *)
(*                                                                         *)
(* The store is AbstractStore, which StoreBackend is proved to implement:  *)
(* the worker thread commits what it was given, in order, or logs an error *)
(* that costs some of it.  The device deletes a record once it is in the   *)
(* store's memory; a crash or a shutdown then decides what of that memory  *)
(* reached the table.                                                      *)
(***************************************************************************)
EXTENDS OmnicommSession

CONSTANT MaxError     \* bound: errors the backend logs

ASSUME MaxErrorAssumption == MaxError \in Nat

VARIABLES accepted, durable, lost, errors, serving,   \* of the store
          took      \* history: the record of each call of add_message

store == <<accepted, durable, lost, errors, serving, took>>
system == <<vars, store>>

Store == INSTANCE AbstractStore WITH Message <- Nat

SystemInit ==
    /\ Init
    /\ Store!Init
    /\ took = <<>>

\* add_message: the record is in memory.
AddMessage ==
    /\ StoreRecord
    /\ Store!Accept(Len(took) + 1)
    /\ took' = Append(took, <<controller_id_[io.link], Frame.first + io.added>>)

\* The oldest messages of those pending in P.
Oldest(S, P) == \A m \in S, p \in P \ S : m < p

\* The worker commits messages it took from the queue.
WorkerCommits ==
    /\ \E S \in SUBSET Store!Pending \ {{}} : Oldest(S, Store!Pending) /\ Store!Commit(S)
    /\ UNCHANGED <<vars, took>>

\* Mutant: a message that could not be inserted is dropped without a word.
WorkerFailsSilently ==
    /\ \E L \in SUBSET Store!Pending : lost' = lost \cup L
    /\ UNCHANGED <<vars, accepted, durable, errors, serving, took>>

\* It logs an error: messages are lost, others may have been committed.
WorkerFails ==
    /\ errors < MaxError
    /\ \E S \in SUBSET Store!Pending : \E L \in SUBSET (Store!Pending \ S) :
          Oldest(S, Store!Pending \ L) /\ Store!Fail(S, L)
    /\ UNCHANGED <<vars, took>>

\* Mutant: the queue is given up without what was just committed.
GiveUpTwice(S) ==
    /\ durable' = durable \cup S
    /\ lost' = lost \cup Store!Pending
    /\ UNCHANGED <<accepted, errors, serving>>

\* The backend is given up with messages in memory (Close of AbstractStore),
\* and the next process has one that serves.
GiveUp(S) ==
    /\ durable' = durable \cup S
    /\ lost' = lost \cup (Store!Pending \ S)
    /\ UNCHANGED <<accepted, errors, serving>>

\* The process dies or is stopped, and a new one starts with counters.dat, an
\* empty queue and the table.
Restart ==
    /\ Crash
    /\ \E S \in SUBSET Store!Pending : Oldest(S, Store!Pending) /\ GiveUp(S)
    /\ UNCHANGED took

Session == /\ Handle \/ StoreRefuses \/ SaveFails \/ \E c \in Controller : Device(c)
           /\ UNCHANGED store

SystemNext == Session \/ AddMessage \/ WorkerCommits \/ WorkerFails \/ Restart

SystemSpec == SystemInit /\ [][SystemNext]_system

\* As in OmnicommSession; and the worker gets on with what is pending, which
\* StoreBackend promises (AcceptedIsSettled).
SystemFairness ==
    /\ WF_system((Handle /\ UNCHANGED store) \/ AddMessage)
    /\ \A c \in Controller : /\ WF_system(Talk(c) /\ UNCHANGED store)
                             /\ WF_system(DeviceTimeout(c) /\ UNCHANGED store)
    /\ WF_system(WorkerCommits)

LiveSystem == SystemSpec /\ SystemFairness

-----------------------------------------------------------------------------
SystemTypeOK ==
    /\ accepted = 1..Len(took)
    /\ durable \subseteq accepted /\ lost \subseteq accepted /\ durable \cap lost = {}
    /\ errors \in 0..MaxError
    /\ serving = TRUE
    /\ took \in Seq(Controller \X Record)

Records(S) == {took[m] : m \in S}

\* As long as nothing fails the table holds the records of a device in the
\* order they were made and none twice, through any number of connections
\* that end with nothing under way: the number asked for, the queue and the worker agree
\* (process_delete_confirmation, protocol.cpp 306-324; add_message, base.cpp 46-61).
TableInOrder ==
    errors = 0 /\ faults = 0 =>
        \A m, n \in durable : m < n /\ took[m][1] = took[n][1] => took[m][2] < took[n][2]

Made == {r \in Controller \X Record : r[2] <= produced[r[1]]}
Kept == {r \in Made : r[2] > deleted[r[1]]}

TheLedger == INSTANCE Ledger WITH
    Entry <- Controller \X Record, made <- Made, kept <- Kept, held <- Records(Store!Pending),
    table <- Records(durable), dropped <- Records(lost), incidents <- errors + faults

\* The whole server keeps the ledger: at every step each record is on its
\* device, in memory or in the table, and it is lost only by an error that
\* was logged or with the process that had it in memory.  The device deletes
\* what is in memory (process_current_data, protocol.cpp 407), so this is the
\* most a device can rely on.
KeepsLedger == TheLedger!Spec

\* Every record a device makes reaches the table in the end, or an incident
\* cost it after it was taken.
EveryRecordSettled ==
    \A c \in Controller, n \in Record :
        n <= produced[c] ~> <<c, n>> \in Records(durable) \cup Records(lost)
=============================================================================
