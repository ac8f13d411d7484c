-------------------------- MODULE CommunicatorProofs --------------------------
(***************************************************************************)
(* Theorems of Communicator, for every number of devices, records,         *)
(* connections, faults and errors: the whole server keeps the ledger.      *)
(*                                                                         *)
(* Every step of the system is a step of the protocol or leaves it alone,  *)
(* so the invariant of SessionProofs holds of it.  To this come the two    *)
(* ends of the way a record takes: what the protocol has taken was made,   *)
(* and the store was given it.                                             *)
(***************************************************************************)
EXTENDS Communicator, SessionOrderProofs

USE ControllerAssumption, BoundsAssumption, MaxErrorAssumption

\* What was taken from a device, the store was given.
TakenIsGiven ==
    \A c \in Controller : \A n \in Stored(c) : \E m \in 1..Len(took) : took[m] = <<c, n>>

SystemInv == Inv /\ SystemTypeOK /\ TakenIsMade /\ TakenIsGiven

-----------------------------------------------------------------------------
(* The protocol inside the system.                                         *)

LEMMA SystemStepsNext == [SystemNext]_system => [Next]_vars
BY DEF SystemNext, system, Session, AddMessage, WorkerCommits, WorkerFails, Restart,
       Next, Server

-----------------------------------------------------------------------------
(* What a step of the system does to the store.                            *)

\* Appending keeps the entries.
LEMMA TookAppend ==
    ASSUME NEW s \in Seq(Controller \X Record), NEW r \in Controller \X Record
    PROVE  /\ Append(s, r) \in Seq(Controller \X Record) /\ Len(s) \in Nat
           /\ Len(Append(s, r)) = Len(s) + 1 /\ Append(s, r)[Len(s) + 1] = r
           /\ \A m \in 1..Len(s) : Append(s, r)[m] = s[m]
BY AppendProperties

\* The records of the messages of a set.
LEMMA RecordsFacts ==
    ASSUME NEW S, NEW T
    PROVE  /\ Records(S \cup T) = Records(S) \cup Records(T)
           /\ S \subseteq T => Records(S) \subseteq Records(T)
BY DEF Records

LEMMA RecordsKept ==
    ASSUME NEW S, took' = took PROVE {took'[m] : m \in S} = Records(S)
BY DEF Records

\* Add_message gives the store the next message, and it is pending.
LEMMA AddMessageStore ==
    ASSUME SystemInv, AddMessage
    PROVE  \E c \in Controller, n \in Record :
               /\ n <= produced[c] /\ took' = Append(took, <<c, n>>)
               /\ \A d : Stored(d)' = IF d = c THEN Stored(d) \cup {n} ELSE Stored(d)
               /\ accepted' = accepted \cup {Len(took) + 1}
               /\ UNCHANGED <<durable, lost, errors, serving, produced, deleted, faults>>
<1>1. PICK c \in Controller, n \in Record :
          /\ controller_id_[io.link] = c /\ Frame.first + io.added = n
          /\ n <= produced[c]
          /\ \A d : Stored(d)' = IF d = c THEN Stored(d) \cup {n} ELSE Stored(d)
  BY GivenRecord DEF SystemInv, AddMessage
<1>2. took' = Append(took, <<c, n>>)
  BY <1>1 DEF AddMessage
<1>3. /\ accepted' = accepted \cup {Len(took) + 1} /\ UNCHANGED <<durable, lost, errors, serving>>
      /\ UNCHANGED <<produced, deleted, faults>>
  BY DEF AddMessage, Store!Accept, StoreRecord, device
<1> QED
  BY <1>1, <1>2, <1>3

\* A step that settles pending messages: S becomes durable, L is lost.
Settles(S, L) == /\ S \subseteq Store!Pending /\ L \subseteq Store!Pending \ S
                 /\ durable' = durable \cup S /\ lost' = lost \cup L
                 /\ UNCHANGED <<accepted, serving, took>>

LEMMA StoreSteps ==
    ASSUME SystemInv, WorkerCommits \/ WorkerFails \/ Restart
    PROVE  /\ \E S, L : Settles(S, L)
           /\ UNCHANGED <<stored, produced, deleted>>
           /\ \/ /\ WorkerCommits /\ lost' = lost /\ UNCHANGED <<errors, faults>>
              \/ WorkerFails /\ errors < MaxError /\ errors' = errors + 1 /\ faults' = faults
              \/ Restart /\ errors' = errors /\ faults' = faults + 1
<1>1. CASE WorkerCommits
  <2>1. PICK S \in SUBSET Store!Pending \ {{}} : Oldest(S, Store!Pending) /\ Store!Commit(S)
    BY <1>1 DEF WorkerCommits
  <2>2. Settles(S, {}) /\ lost' = lost /\ errors' = errors
    BY <1>1, <2>1 DEF WorkerCommits, Store!Commit, Settles
  <2> QED
    BY <1>1, <2>2 DEF WorkerCommits, vars
<1>2. CASE WorkerFails
  <2>1. PICK S \in SUBSET Store!Pending : \E L \in SUBSET (Store!Pending \ S) :
          Oldest(S, Store!Pending \ L) /\ Store!Fail(S, L)
    BY <1>2 DEF WorkerFails
  <2>2. PICK L \in SUBSET (Store!Pending \ S) : Store!Fail(S, L)
    BY <2>1
  <2>3. Settles(S, L) /\ errors' = errors + 1 /\ errors < MaxError
    BY <1>2, <2>2 DEF WorkerFails, Store!Fail, Settles
  <2> QED
    BY <1>2, <2>3 DEF WorkerFails, vars
<1>3. CASE Restart
  <2>1. PICK S \in SUBSET Store!Pending : Oldest(S, Store!Pending) /\ GiveUp(S)
    BY <1>3 DEF Restart
  <2>2. Settles(S, Store!Pending \ S) /\ errors' = errors
    BY <1>3, <2>1 DEF Restart, GiveUp, Settles
  <2> QED
    BY <1>3, <2>2 DEF Restart, Crash, FaultHappens, backend, device
<1> QED
  BY <1>1, <1>2, <1>3

-----------------------------------------------------------------------------
(* The invariant of the system.                                            *)

LEMMA SystemInitInv == SystemInit => SystemInv
<1> SUFFICES ASSUME SystemInit PROVE SystemInv
  OBVIOUS
<1>1. Inv
  BY InitInv DEF SystemInit
<1>2. /\ took = <<>> /\ accepted = {} /\ durable = {} /\ lost = {} /\ errors = 0
      /\ serving = TRUE
  BY DEF SystemInit, Store!Init
<1>3. took \in Seq(Controller \X Record) /\ 1..Len(took) = {}
  BY <1>2
<1>4. SystemTypeOK
  BY <1>2, <1>3 DEF SystemTypeOK
<1>5. \A c : Stored(c) = {}
  BY DEF SystemInit, Init, Stored
<1> QED
  BY <1>1, <1>4, <1>5 DEF SystemInv, TakenIsMade, TakenIsGiven

LEMMA SystemNextInv == SystemInv /\ [SystemNext]_system => SystemInv'
<1> SUFFICES ASSUME SystemInv, [SystemNext]_system PROVE SystemInv'
  OBVIOUS
<1>1. Inv /\ TypeInv /\ SystemTypeOK /\ TakenIsMade /\ TakenIsGiven
  BY DEF SystemInv, Inv
<1>2. Inv' /\ TypeInv'
  BY <1>1, NextInv, SystemStepsNext DEF Inv
<1>3. took \in Seq(Controller \X Record) /\ Len(took) \in Nat
  BY <1>1 DEF SystemTypeOK
<1>4. \A c \in Controller : /\ produced[c] \in Nat /\ produced'[c] \in Nat
                            /\ \A n \in Stored(c) : n \in Nat
  <2>1. \A c \in Controller : produced[c] \in Nat /\ produced'[c] \in Nat
    BY <1>1, <1>2, ProducedType
  <2>2. \A c \in Controller : \A n \in Stored(c) : n \in Nat
    <3>1. \A r \in stored : r.number \in Record
      BY <1>1 DEF TypeInv
    <3> QED
      BY <3>1 DEF Stored, Record
  <2> QED
    BY <2>1, <2>2
<1>5. CASE Session
  <2>1. UNCHANGED <<accepted, durable, lost, errors, serving, took>> /\ stored' = stored
    BY <1>1, <1>5, SessionSteps DEF Session, store
  <2>2. \A c : Stored(c)' = Stored(c)
    BY <2>1 DEF Stored
  <2>3. \A c \in Controller : produced'[c] >= produced[c]
    BY <1>1, <1>4, <1>5, SessionSteps, DeviceRecords DEF Session
  <2>4. TakenIsMade'
    BY <1>1, <1>4, <2>2, <2>3 DEF TakenIsMade
  <2>5. SystemTypeOK' /\ TakenIsGiven'
    BY <1>1, <2>1, <2>2 DEF SystemTypeOK, TakenIsGiven
  <2> QED
    BY <1>2, <2>4, <2>5 DEF SystemInv
<1>6. CASE AddMessage
  <2>1. PICK c \in Controller, n \in Record :
               /\ n <= produced[c] /\ took' = Append(took, <<c, n>>)
               /\ \A d : Stored(d)' = IF d = c THEN Stored(d) \cup {n} ELSE Stored(d)
               /\ accepted' = accepted \cup {Len(took) + 1}
               /\ UNCHANGED <<durable, lost, errors, serving, produced, deleted, faults>>
    BY <1>6, AddMessageStore
  <2>2. /\ took' \in Seq(Controller \X Record) /\ Len(took') = Len(took) + 1
        /\ took'[Len(took) + 1] = <<c, n>> /\ \A m \in 1..Len(took) : took'[m] = took[m]
    BY <1>3, <2>1, TookAppend
  <2>3. SystemTypeOK'
    <3>1. 1..(Len(took) + 1) = 1..Len(took) \cup {Len(took) + 1}
      BY <1>3
    <3>2. Len(took) + 1 \notin 1..Len(took)
      BY <1>3
    <3> QED
      BY <1>1, <2>1, <2>2, <3>1, <3>2 DEF SystemTypeOK
  <2>4. TakenIsMade'
    BY <1>1, <2>1 DEF TakenIsMade
  <2>5. TakenIsGiven'
    <3>1. Len(took) + 1 \in 1..Len(took') /\ 1..Len(took) \subseteq 1..Len(took')
      BY <1>3, <2>2
    <3>2. ASSUME NEW d \in Controller, NEW k \in Stored(d)'
          PROVE  \E m \in 1..Len(took') : took'[m] = <<d, k>>
      <4>1. CASE k \in Stored(d)
        BY <1>1, <2>2, <3>1, <4>1 DEF TakenIsGiven
      <4>2. CASE d = c /\ k = n
        BY <2>2, <3>1, <4>2
      <4> QED
        BY <2>1, <3>2, <4>1, <4>2
    <3> QED
      BY <3>2 DEF TakenIsGiven
  <2> QED
    BY <1>2, <2>3, <2>4, <2>5 DEF SystemInv
<1>7. CASE WorkerCommits \/ WorkerFails \/ Restart
  <2>1. PICK S, L : Settles(S, L)
    BY <1>7, StoreSteps
  <2>2. UNCHANGED <<stored, produced, deleted>> /\ errors' \in 0..MaxError
    <3>1. errors \in 0..MaxError
      BY <1>1 DEF SystemTypeOK
    <3> QED
      BY <1>7, <3>1, StoreSteps
  <2>3. SystemTypeOK'
    BY <1>1, <2>1, <2>2 DEF SystemTypeOK, Settles, Store!Pending
  <2>4. TakenIsMade' /\ TakenIsGiven'
    BY <1>1, <2>1, <2>2 DEF TakenIsMade, TakenIsGiven, Settles, Stored
  <2> QED
    BY <1>2, <2>3, <2>4 DEF SystemInv
<1>8. CASE UNCHANGED system
  BY <1>1, <1>2, <1>8
     DEF system, vars, store, SystemInv, SystemTypeOK, TakenIsMade, TakenIsGiven, Stored
<1> QED
  BY <1>5, <1>6, <1>7, <1>8 DEF SystemNext

\* The protocol keeps its invariant inside the system, and the store was given
\* exactly one message for each call of add_message.
THEOREM SystemInvHolds == SystemSpec => []SystemInv
BY SystemInitInv, SystemNextInv, PTL DEF SystemSpec

\* The calls of add_message are numbered without a gap; what is durable and
\* what is lost are different messages, and both were accepted.
THEOREM SystemTypeCorrect == SystemSpec => []SystemTypeOK
BY SystemInvHolds, PTL DEF SystemInv

-----------------------------------------------------------------------------
(* The order of the table.                                                 *)

\* The store was given what was taken, and as long as nothing fails the
\* records of a device in their order.
GivenInOrder ==
    /\ \A c \in Controller, n \in Record : \A m \in 1..Len(took) :
           took[m] = <<c, n>> => n \in Stored(c)
    /\ faults = 0 => \A m, n \in 1..Len(took) :
                         m < n /\ took[m][1] = took[n][1] => took[m][2] < took[n][2]

LEMMA GivenNext ==
    SystemInv /\ CalmInv /\ GivenInOrder /\ [SystemNext]_system => GivenInOrder'
<1> SUFFICES ASSUME SystemInv, CalmInv, GivenInOrder, [SystemNext]_system PROVE GivenInOrder'
  OBVIOUS
<1>1. Inv /\ TypeInv /\ (faults' = 0 => faults = 0)
  BY SystemStepsNext, FaultsGrow DEF SystemInv, Inv
<1>2. ASSUME took' = took, stored' = stored PROVE GivenInOrder'
  BY <1>1, <1>2 DEF GivenInOrder, Stored
<1>3. CASE AddMessage
  <2>1. PICK k \in Link : io.link = k
    BY <1>1 DEF TypeInv
  <2>2. PICK c \in Controller, n \in Record :
             /\ controller_id_[io.link] = c /\ Frame.first + io.added = n
             /\ \A d : Stored(d)' = IF d = c THEN Stored(d) \cup {n} ELSE Stored(d)
    BY <1>1, <1>3, GivenRecord DEF AddMessage
  <2>3. took' = Append(took, <<c, n>>) /\ took \in Seq(Controller \X Record)
    BY <1>3, <2>2 DEF AddMessage, SystemInv, SystemTypeOK
  <2>4. /\ Len(took) \in Nat /\ Len(took') = Len(took) + 1
        /\ took'[Len(took) + 1] = <<c, n>> /\ \A m \in 1..Len(took) : took'[m] = took[m]
    BY <2>3, TookAppend
  <2>5. \A m \in 1..Len(took') : m \in 1..Len(took) \/ m = Len(took) + 1
    BY <2>4
  <2>6. ASSUME NEW d \in Controller, NEW h \in Record, NEW m \in 1..Len(took'), took'[m] = <<d, h>>
        PROVE  h \in Stored(d)'
    <3>1. CASE m \in 1..Len(took)
      BY <2>2, <2>4, <2>6, <3>1 DEF GivenInOrder
    <3>2. CASE m = Len(took) + 1
      BY <2>2, <2>4, <2>6, <3>2
    <3> QED
      BY <2>5, <3>1, <3>2
  <2>7. ASSUME faults' = 0, NEW i \in 1..Len(took'), NEW j \in 1..Len(took'), i < j,
               took'[i][1] = took'[j][1]
        PROVE  took'[i][2] < took'[j][2]
    <3>1. faults = 0 /\ Calm
      BY <1>1, <2>7 DEF CalmInv
    <3>2. i \in 1..Len(took)
      BY <2>4, <2>7
    <3>3. CASE j \in 1..Len(took)
      BY <2>4, <2>7, <3>1, <3>2, <3>3 DEF GivenInOrder
    <3>4. CASE j = Len(took) + 1
      <4>1. /\ io.pc = "frame" /\ io.pos < Len(buffer_[k]) /\ Frame.last # 0
            /\ Frame.cmd # "ident"
        BY <1>3, <2>1 DEF AddMessage, StoreRecord, DataFrame, Busy, Frame
      <4>2. \A h \in Stored(k[1]) : h < Frame.first + io.added
        BY <1>1, <2>1, <3>1, <4>1, NewRecord
      <4>3. controller_id_[k] = k[1]
        BY <1>1, <2>1, <4>1, Identified
      <4>4. took'[j][1] = k[1] /\ took'[j][2] = Frame.first + io.added
        BY <2>1, <2>2, <2>4, <3>4, <4>3
      <4>5. took'[i][2] \in Stored(k[1])
        <5>1. took[i] \in Controller \X Record /\ took[i][1] = k[1]
          BY <2>3, <2>4, <2>7, <3>2, <4>4, ElementOfSeq
        <5>2. took[i] = <<k[1], took[i][2]>> /\ k[1] \in Controller /\ took[i][2] \in Record
          BY <5>1
        <5> QED
          BY <2>4, <3>2, <5>2 DEF GivenInOrder
      <4> QED
        BY <4>2, <4>4, <4>5
    <3> QED
      BY <2>5, <3>3, <3>4
  <2> QED
    BY <2>6, <2>7 DEF GivenInOrder
<1>4. CASE Session
  BY <1>1, <1>2, <1>4, SessionSteps DEF Session, store
<1>5. CASE WorkerCommits \/ WorkerFails \/ Restart
  BY <1>2, <1>5, StoreSteps DEF Settles
<1>6. CASE UNCHANGED system
  BY <1>2, <1>6 DEF system, vars, store
<1> QED
  BY <1>3, <1>4, <1>5, <1>6 DEF SystemNext

\* As long as nothing fails the table holds the records of a device in the
\* order they were made, and none twice.
THEOREM TableIsInOrder == SystemSpec => []TableInOrder
<1> DEFINE OrderInv == SystemInv /\ CalmInv /\ GivenInOrder
<1>1. SystemInit => OrderInv
  <2>1. SystemInit => GivenInOrder
    BY DEF SystemInit, GivenInOrder
  <2>2. SystemInit => CalmInv
    BY InitCalm DEF SystemInit
  <2> QED
    BY <2>1, <2>2, SystemInitInv
<1>2. OrderInv /\ [SystemNext]_system => OrderInv'
  <2>1. OrderInv /\ [SystemNext]_system => CalmInv'
    BY SystemStepsNext, NextCalm DEF SystemInv
  <2> QED
    BY <2>1, SystemNextInv, GivenNext
<1>3. OrderInv => TableInOrder
  BY DEF SystemInv, SystemTypeOK, GivenInOrder, TableInOrder
<1> QED
  BY <1>1, <1>2, <1>3, PTL DEF SystemSpec

-----------------------------------------------------------------------------
(* The ledger.                                                             *)

\* What is taken is in memory, in the table or lost.
LEMMA TakenSomewhere ==
    ASSUME SystemInv, NEW c \in Controller, NEW n \in Stored(c)
    PROVE  <<c, n>> \in Records(Store!Pending) \cup Records(durable) \cup Records(lost)
<1>1. PICK m \in 1..Len(took) : took[m] = <<c, n>>
  BY DEF SystemInv, TakenIsGiven
<1>2. m \in Store!Pending \cup durable \cup lost
  BY <1>1 DEF SystemInv, SystemTypeOK, Store!Pending
<1> QED
  BY <1>1, <1>2 DEF Records

\* What was made is kept, or was deleted after it was taken.
LEMMA MadeFacts ==
    ASSUME Inv
    PROVE  /\ \A c \in Controller : /\ deleted[c] \in Nat /\ produced[c] \in Nat
                                    /\ \A n \in 1..deleted[c] : n \in Stored(c)
           /\ \A r \in Controller \X Record : /\ r[1] \in Controller /\ r[2] \in Nat /\ r[2] >= 1
                                              /\ r = <<r[1], r[2]>>
<1>1. /\ produced \in [Controller -> 0..MaxRecord] /\ deleted \in [Controller -> 0..MaxRecord]
  BY DEF Inv, TypeInv
<1>2. \A c \in Controller : \A n \in 1..deleted[c] : n \in Stored(c)
  BY DEF Inv, DeviceInv
<1> QED
  BY <1>1, <1>2 DEF Record

LEMMA NothingMissing == SystemInv => TheLedger!NoSilentLoss
<1> SUFFICES ASSUME SystemInv, NEW r \in Made, r \notin Kept
             PROVE  r \in Records(Store!Pending) \cup Records(durable) \cup Records(lost)
  BY DEF TheLedger!NoSilentLoss
<1>1. r \in Controller \X Record /\ ~(r[2] > deleted[r[1]])
  BY DEF Made, Kept
<1>2. r[1] \in Controller /\ r[2] \in 1..deleted[r[1]] /\ r = <<r[1], r[2]>>
  BY <1>1, MadeFacts DEF SystemInv
<1>3. r[2] \in Stored(r[1])
  BY <1>2, MadeFacts DEF SystemInv
<1>4. <<r[1], r[2]>> \in Records(Store!Pending) \cup Records(durable) \cup Records(lost)
  BY <1>2, <1>3, TakenSomewhere
<1> QED
  BY <1>2, <1>4

LEMMA InitLedger == SystemInit => TheLedger!Init
<1> SUFFICES ASSUME SystemInit PROVE TheLedger!Init
  OBVIOUS
<1>1. /\ accepted = {} /\ durable = {} /\ lost = {} /\ errors = 0 /\ faults = 0
      /\ \A c \in Controller : produced[c] = 0
  BY DEF SystemInit, Init, Store!Init
<1>2. Made = {}
  BY <1>1 DEF Made, Record
<1>3. Records({}) = {} /\ Store!Pending = {}
  BY <1>1 DEF Records, Store!Pending
<1> QED
  BY <1>1, <1>2, <1>3 DEF TheLedger!Init, Kept

\* A device makes a record, and keeps it.
LEMMA ProduceMakes ==
    ASSUME SystemInv, NEW c \in Controller, Produce(c), UNCHANGED store
    PROVE  TheLedger!Next
<1> DEFINE r == <<c, produced[c] + 1>>
<1>1. Inv /\ TypeInv /\ TakenIsMade
  BY DEF SystemInv, Inv
<1>2. produced \in [Controller -> 0..MaxRecord] /\ deleted' = deleted /\ faults' = faults
  BY <1>1 DEF Produce, TypeInv
<1>3. /\ produced[c] \in Nat /\ produced[c] + 1 \in Record
      /\ produced' = [produced EXCEPT ![c] = produced[c] + 1]
  BY <1>2 DEF Produce, Record
<1>4. r \in Controller \X Record /\ r[1] = c /\ r[2] = produced[c] + 1
  BY <1>3
<1>5. deleted[c] \in Nat /\ deleted[c] <= produced[c]
  <2>1. deleted[c] \in Nat /\ \A n \in 1..deleted[c] : n \in Stored(c)
    BY <1>1, MadeFacts
  <2>2. deleted[c] # 0 => deleted[c] \in Stored(c)
    BY <2>1
  <2> QED
    BY <1>1, <1>3, <2>1, <2>2 DEF TakenIsMade
<1>6. ASSUME NEW e \in Controller \X Record
      PROVE  /\ e[2] <= produced'[e[1]] <=> e[2] <= produced[e[1]] \/ e = r
             /\ e = r => ~(e[2] <= produced[e[1]]) /\ e[2] > deleted[e[1]]
  <2>1. e[1] \in Controller /\ e[2] \in Nat /\ e = <<e[1], e[2]>> /\ produced[e[1]] \in Nat
    BY <1>1, MadeFacts
  <2>2. CASE e[1] = c
    BY <1>2, <1>3, <1>5, <2>1, <2>2
  <2>3. CASE e[1] # c
    BY <1>2, <1>3, <2>1, <2>3
  <2> QED
    BY <2>2, <2>3
<1> HIDE DEF r
<1>7. r \notin Made /\ Made' = Made \cup {r}
  BY <1>4, <1>6 DEF Made
<1>8. Kept' = Kept \cup {r}
  BY <1>2, <1>4, <1>6, <1>7 DEF Kept, Made
<1>9. UNCHANGED <<Records(Store!Pending), Records(durable), Records(lost), errors + faults>>
  BY <1>2 DEF store, Records, Store!Pending
<1>10. TheLedger!Make(r)
  BY <1>7, <1>8, <1>9 DEF TheLedger!Make
<1> QED
  BY <1>4, <1>10 DEF TheLedger!Next

\* A device gives up records that were taken.
LEMMA ObeyForgets ==
    ASSUME SystemInv, SystemInv', NEW c \in Controller, Obey(c), UNCHANGED store
    PROVE  TheLedger!Next
<1>1. Inv /\ Inv'
  BY DEF SystemInv
<1>2. produced' = produced /\ faults' = faults /\ stored' = stored
  BY DEF Obey, backend
<1>3. \A d \in Controller : deleted[d] \in Nat /\ deleted'[d] \in Nat /\ deleted'[d] >= deleted[d]
  BY <1>1, DeviceRecords
<1>4. UNCHANGED <<Records(Store!Pending), Records(durable), Records(lost), errors + faults>>
  BY <1>2 DEF store, Records, Store!Pending
<1>5. Made' = Made
  BY <1>2 DEF Made
<1>6. Kept' \subseteq Kept
  <2>1. ASSUME NEW r \in Controller \X Record, r[2] > deleted'[r[1]] PROVE r[2] > deleted[r[1]]
    <3>1. r[1] \in Controller /\ r[2] \in Nat
      BY <1>1, MadeFacts
    <3> QED
      BY <1>3, <2>1, <3>1
  <2> QED
    BY <1>5, <2>1 DEF Kept, Made
<1>7. Kept \subseteq Kept' \cup Records(Store!Pending) \cup Records(durable) \cup Records(lost)
  <2> SUFFICES ASSUME NEW r \in Kept, r \notin Kept'
               PROVE  r \in Records(Store!Pending) \cup Records(durable) \cup Records(lost)
    OBVIOUS
  <2>1. r \in Controller \X Record /\ ~(r[2] > deleted'[r[1]])
    BY <1>5 DEF Kept, Made
  <2>2. r[1] \in Controller /\ r[2] \in 1..deleted'[r[1]] /\ r = <<r[1], r[2]>>
    BY <1>1, <1>3, <2>1, MadeFacts
  <2>3. r[2] \in Stored(r[1])
    BY <1>1, <1>2, <2>2 DEF Inv, DeviceInv, Stored
  <2>4. <<r[1], r[2]>> \in Records(Store!Pending) \cup Records(durable) \cup Records(lost)
    BY <2>2, <2>3, TakenSomewhere
  <2> QED
    BY <2>2, <2>4
<1>8. TheLedger!Forget
  BY <1>4, <1>5, <1>6, <1>7 DEF TheLedger!Forget
<1> QED
  BY <1>8 DEF TheLedger!Next

\* The store is given a record that was made.
LEMMA AddMessageTakes ==
    ASSUME SystemInv, AddMessage
    PROVE  TheLedger!Next
<1>1. PICK c \in Controller, n \in Record :
               /\ n <= produced[c] /\ took' = Append(took, <<c, n>>)
               /\ \A d : Stored(d)' = IF d = c THEN Stored(d) \cup {n} ELSE Stored(d)
               /\ accepted' = accepted \cup {Len(took) + 1}
               /\ UNCHANGED <<durable, lost, errors, serving, produced, deleted, faults>>
  BY AddMessageStore
<1> DEFINE r == <<c, n>>
           k == Len(took) + 1
<1>2. r \in Controller \X Record /\ r \in Made
  BY <1>1 DEF Made
<1>3. /\ accepted = 1..Len(took) /\ durable \subseteq accepted /\ lost \subseteq accepted
      /\ took \in Seq(Controller \X Record)
  BY DEF SystemInv, SystemTypeOK
<1>4. Len(took) \in Nat /\ took'[k] = r /\ \A m \in 1..Len(took) : took'[m] = took[m]
  BY <1>1, <1>2, <1>3, TookAppend
<1>5. k \notin accepted
  BY <1>3, <1>4
<1> HIDE DEF r, k
<1>6. Store!Pending' = Store!Pending \cup {k} /\ Store!Pending \subseteq accepted
  BY <1>1, <1>3, <1>5 DEF Store!Pending, k
<1>7. \A m \in accepted : took'[m] = took[m]
  BY <1>3, <1>4
<1>8. Records(durable)' = Records(durable) /\ Records(lost)' = Records(lost)
  BY <1>1, <1>3, <1>7 DEF Records
<1>9. Records(Store!Pending)' = Records(Store!Pending) \cup {r}
  <2>1. {took'[m] : m \in Store!Pending} = {took[m] : m \in Store!Pending}
    BY <1>6, <1>7
  <2>2. {took'[m] : m \in Store!Pending \cup {k}} = {took'[m] : m \in Store!Pending} \cup {took'[k]}
    OBVIOUS
  <2>3. Records(Store!Pending)' = {took'[m] : m \in Store!Pending \cup {k}}
    BY <1>6 DEF Records
  <2> QED
    BY <1>4, <2>1, <2>2, <2>3 DEF Records
<1>10. UNCHANGED <<Made, Kept, errors + faults>>
  BY <1>1 DEF Made, Kept
<1>11. TheLedger!Take(r)
  BY <1>2, <1>8, <1>9, <1>10 DEF TheLedger!Take
<1> QED
  BY <1>2, <1>11 DEF TheLedger!Next

\* Messages are settled: their records leave the memory, but not untraced.
LEMMA SettlesRecords ==
    ASSUME NEW S, NEW L, Settles(S, L)
    PROVE  /\ Records(Store!Pending)' \subseteq Records(Store!Pending)
           /\ Records(durable)' = Records(durable) \cup Records(S)
           /\ Records(lost)' = Records(lost) \cup Records(L)
           /\ Records(S) \subseteq Records(Store!Pending)
           /\ Records(L) \subseteq Records(Store!Pending)
           /\ Records(Store!Pending) \subseteq
                  Records(Store!Pending)' \cup Records(S) \cup Records(L)
<1>1. /\ S \subseteq Store!Pending /\ L \subseteq Store!Pending
      /\ durable' = durable \cup S /\ lost' = lost \cup L /\ took' = took
      /\ Store!Pending' = Store!Pending \ (S \cup L)
  BY DEF Settles, Store!Pending
<1>2. /\ Records(durable)' = Records(durable \cup S) /\ Records(lost)' = Records(lost \cup L)
      /\ Records(Store!Pending)' = Records(Store!Pending \ (S \cup L))
  BY <1>1 DEF Records
<1>3. /\ Records(durable \cup S) = Records(durable) \cup Records(S)
      /\ Records(lost \cup L) = Records(lost) \cup Records(L)
      /\ Records(Store!Pending \ (S \cup L)) \subseteq Records(Store!Pending)
      /\ Records(S) \subseteq Records(Store!Pending) /\ Records(L) \subseteq Records(Store!Pending)
  BY <1>1, RecordsFacts
<1>4. Records(Store!Pending) \subseteq
          Records(Store!Pending \ (S \cup L)) \cup Records(S) \cup Records(L)
  BY DEF Records
<1> QED
  BY <1>2, <1>3, <1>4

LEMMA StoreStepsLedger ==
    ASSUME SystemInv, WorkerCommits \/ WorkerFails \/ Restart
    PROVE  TheLedger!Next
<1>1. PICK S, L : Settles(S, L)
  BY StoreSteps
<1>2. UNCHANGED <<produced, deleted>>
  BY StoreSteps
<1>3. UNCHANGED <<Made, Kept>>
  BY <1>2 DEF Made, Kept
<1>4. /\ Records(Store!Pending)' \subseteq Records(Store!Pending)
      /\ Records(durable)' = Records(durable) \cup Records(S)
      /\ Records(lost)' = Records(lost) \cup Records(L)
      /\ Records(S) \subseteq Records(Store!Pending)
      /\ Records(L) \subseteq Records(Store!Pending)
      /\ Records(Store!Pending) \subseteq Records(Store!Pending)' \cup Records(S) \cup Records(L)
  BY <1>1, SettlesRecords
<1>5. CASE \/ errors' = errors + 1 /\ faults' = faults
           \/ errors' = errors /\ faults' = faults + 1
  <2>1. errors \in Nat /\ faults \in Nat
    BY DEF SystemInv, SystemTypeOK, Inv, TypeInv
  <2>2. (errors + faults)' = errors + faults + 1
    BY <1>5, <2>1
  <2>3. TheLedger!Incident
    BY <1>3, <1>4, <2>2 DEF TheLedger!Incident
  <2> QED
    BY <2>3 DEF TheLedger!Next
<1>6. CASE WorkerCommits /\ lost' = lost /\ UNCHANGED <<errors, faults>>
  <2>1. Records(lost)' = Records(lost) /\ L = {}
    <3>1. took' = took /\ lost' = lost \cup L /\ L \subseteq Store!Pending
      BY <1>1 DEF Settles
    <3> QED
      BY <1>6, <3>1 DEF Records, Store!Pending
  <2>2. Records(L) = {}
    BY <2>1 DEF Records
  <2>3. TheLedger!Commit
    BY <1>3, <1>4, <1>6, <2>1, <2>2 DEF TheLedger!Commit
  <2> QED
    BY <2>3 DEF TheLedger!Next
<1> QED
  BY <1>5, <1>6, StoreSteps

LEMMA NextLedger ==
    SystemInv /\ SystemInv' /\ [SystemNext]_system => [TheLedger!Next]_(TheLedger!vars)
<1> SUFFICES ASSUME SystemInv, SystemInv', [SystemNext]_system
             PROVE  [TheLedger!Next]_(TheLedger!vars)
  OBVIOUS
<1>1. ASSUME UNCHANGED store, UNCHANGED <<produced, deleted>>
      PROVE  UNCHANGED <<Made, Kept, Records(Store!Pending), Records(durable), Records(lost)>>
  BY <1>1 DEF Made, Kept, store, Records, Store!Pending
<1>2. CASE Session
  <2>1. UNCHANGED store /\ errors' = errors
    BY <1>2 DEF Session, store
  <2>2. CASE UNCHANGED <<produced, deleted>> /\ faults' = faults
    BY <1>1, <2>1, <2>2 DEF TheLedger!vars
  <2>3. CASE UNCHANGED <<produced, deleted>> /\ faults' = faults + 1
    <3>1. errors \in Nat /\ faults \in Nat
      BY DEF SystemInv, SystemTypeOK, Inv, TypeInv
    <3>2. (errors + faults)' = errors + faults + 1
      BY <2>1, <2>3, <3>1
    <3>3. TheLedger!Incident
      BY <1>1, <2>1, <2>3, <3>2 DEF TheLedger!Incident
    <3> QED
      BY <3>3 DEF TheLedger!Next
  <2>4. CASE \E c \in Controller : Produce(c)
    BY <2>1, <2>4, ProduceMakes
  <2>5. CASE \E c \in Controller : Obey(c)
    BY <2>1, <2>5, ObeyForgets
  <2>6. TypeInv
    BY DEF SystemInv, Inv
  <2> QED
    BY <1>2, <2>2, <2>3, <2>4, <2>5, <2>6, SessionSteps DEF Session
<1>3. CASE AddMessage
  BY <1>3, AddMessageTakes
<1>4. CASE WorkerCommits \/ WorkerFails \/ Restart
  BY <1>4, StoreStepsLedger
<1>5. CASE UNCHANGED system
  <2>1. UNCHANGED store /\ UNCHANGED <<produced, deleted, errors, faults>>
    BY <1>5 DEF system, vars, store
  <2> QED
    BY <1>1, <2>1 DEF TheLedger!vars
<1> QED
  BY <1>2, <1>3, <1>4, <1>5 DEF SystemNext

\* The whole server keeps the ledger: every step makes, takes, commits or
\* forgets records as module Ledger allows, and a record leaves the memory
\* without reaching the table only in a logged error or a crash.
THEOREM SystemKeepsLedger == SystemSpec => KeepsLedger
<1>1. SystemInv /\ SystemInv' /\ [SystemNext]_system => [TheLedger!Next]_(TheLedger!vars)
  BY NextLedger
<1>2. SystemSpec => []SystemInv
  BY SystemInvHolds
<1> QED
  BY <1>1, <1>2, InitLedger, PTL DEF SystemSpec, KeepsLedger, TheLedger!Spec

\* At any time each record a device made is on that device, in the memory of
\* the server or in the table, or an error or a crash accounts for it.
THEOREM NothingLostSilently == SystemSpec => []TheLedger!NoSilentLoss
BY SystemInvHolds, NothingMissing, PTL
=============================================================================
