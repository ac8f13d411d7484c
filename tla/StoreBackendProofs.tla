-------------------------- MODULE StoreBackendProofs --------------------------
(***************************************************************************)
(* Theorems of StoreBackend, for every capacity of the queue and every     *)
(* number of calls and database failures.                                  *)
(***************************************************************************)
EXTENDS StoreBackend, SequenceTheorems, TLAPS

-----------------------------------------------------------------------------
(* Sequences of message numbers.                                           *)

Below(s, x) == \A i \in 1..Len(s) : s[i] < x
Above(x, s) == \A i \in 1..Len(s) : x < s[i]

\* Appending something larger than every element keeps a sequence increasing.
LEMMA IncreasingAppend ==
    ASSUME NEW s \in Seq(Nat), NEW x \in Nat, Increasing(s), Below(s, x)
    PROVE  Increasing(Append(s, x))
<1>1. Len(Append(s, x)) = Len(s) + 1 /\ Len(s) \in Nat
  OBVIOUS
<1>2. \A i \in 1..Len(s) + 1 : Append(s, x)[i] = IF i = Len(s) + 1 THEN x ELSE s[i]
  OBVIOUS
<1> SUFFICES ASSUME NEW i \in 1..Len(s) + 1, NEW j \in 1..Len(s) + 1, i < j
             PROVE  Append(s, x)[i] < Append(s, x)[j]
  BY <1>1 DEF Increasing
<1> QED
  BY <1>1, <1>2 DEF Increasing, Below

\* So does appending a sequence that comes after it.
LEMMA IncreasingConcat ==
    ASSUME NEW s \in Seq(Nat), NEW t \in Seq(Nat),
           Increasing(s), Increasing(t), Before(s, t)
    PROVE  Increasing(s \o t)
<1>1. Len(s \o t) = Len(s) + Len(t) /\ Len(s) \in Nat /\ Len(t) \in Nat
  OBVIOUS
<1>2. \A i \in 1..Len(s) + Len(t) :
          (s \o t)[i] = IF i <= Len(s) THEN s[i] ELSE t[i - Len(s)]
  OBVIOUS
<1> SUFFICES ASSUME NEW i \in 1..Len(s) + Len(t), NEW j \in 1..Len(s) + Len(t), i < j
             PROVE  (s \o t)[i] < (s \o t)[j]
  BY <1>1 DEF Increasing
<1>3. CASE j <= Len(s)
  BY <1>1, <1>2, <1>3 DEF Increasing
<1>4. CASE i > Len(s)
  <2>1. i - Len(s) \in 1..Len(t) /\ j - Len(s) \in 1..Len(t) /\ i - Len(s) < j - Len(s)
    BY <1>1, <1>4
  <2>2. (s \o t)[i] = t[i - Len(s)] /\ (s \o t)[j] = t[j - Len(s)]
    BY <1>1, <1>2, <1>4
  <2> QED
    BY <2>1, <2>2 DEF Increasing
<1>5. CASE i <= Len(s) /\ j > Len(s)
  <2>1. i \in 1..Len(s) /\ j - Len(s) \in 1..Len(t)
    BY <1>1, <1>5
  <2> QED
    BY <1>2, <1>5, <2>1 DEF Before
<1> QED
  BY <1>1, <1>3, <1>4, <1>5

\* "Before" distributes over concatenation on either side.
LEMMA BeforeConcat ==
    ASSUME NEW s \in Seq(Nat), NEW t \in Seq(Nat), NEW u \in Seq(Nat)
    PROVE  /\ Before(s, u) /\ Before(t, u) => Before(s \o t, u)
           /\ Before(u, s) /\ Before(u, t) => Before(u, s \o t)
<1>1. Len(s \o t) = Len(s) + Len(t) /\ Len(s) \in Nat /\ Len(t) \in Nat
  OBVIOUS
<1>2. \A i \in 1..Len(s) + Len(t) :
          \/ i \in 1..Len(s) /\ (s \o t)[i] = s[i]
          \/ i - Len(s) \in 1..Len(t) /\ (s \o t)[i] = t[i - Len(s)]
  OBVIOUS
<1> QED
  BY <1>1, <1>2 DEF Before

\* The same for one element.
LEMMA BeforeAppend ==
    ASSUME NEW s \in Seq(Nat), NEW x \in Nat, NEW u \in Seq(Nat)
    PROVE  /\ Before(s, u) /\ Above(x, u) => Before(Append(s, x), u)
           /\ Before(u, s) /\ Below(u, x) => Before(u, Append(s, x))
           /\ \A y \in Nat : Below(s, y) /\ x < y => Below(Append(s, x), y)
<1>1. Len(Append(s, x)) = Len(s) + 1 /\ Len(s) \in Nat
  OBVIOUS
<1>2. \A i \in 1..Len(s) + 1 :
          \/ i \in 1..Len(s) /\ Append(s, x)[i] = s[i]
          \/ Append(s, x)[i] = x
  OBVIOUS
<1> QED
  BY <1>1, <1>2 DEF Before, Below, Above

\* The empty sequence is in order with everything.
LEMMA EmptyOrder ==
    ASSUME NEW s \in Seq(Nat), NEW x \in Nat
    PROVE  /\ Increasing(<<>>) /\ Before(<<>>, s) /\ Before(s, <<>>)
           /\ Below(<<>>, x) /\ Above(x, <<>>)
<1>1. 1..Len(<<>>) = {}
  OBVIOUS
<1> QED
  BY <1>1 DEF Increasing, Before, Below, Above

\* The elements of a concatenation, and of a sequence with one more element.
LEMMA RangeConcat ==
    ASSUME NEW S, NEW s \in Seq(S), NEW t \in Seq(S), NEW x \in S
    PROVE  /\ Range(s \o t) = Range(s) \cup Range(t)
           /\ Range(Append(s, x)) = Range(s) \cup {x}
           /\ Range(s) \subseteq S
<1>1. Range(s \o t) = Range(s) \cup Range(t)
  BY RangeConcatenation
<1>2. Range(Append(s, x)) = Range(s) \cup {x}
  <2>1. Len(Append(s, x)) = Len(s) + 1 /\ Append(s, x)[Len(s) + 1] = x /\ Len(s) \in Nat
    OBVIOUS
  <2>2. \A i \in 1..Len(s) : Append(s, x)[i] = s[i]
    OBVIOUS
  <2>3. DOMAIN Append(s, x) = 1..Len(s) + 1 /\ DOMAIN s = 1..Len(s)
    BY <2>1
  <2> QED
    BY <2>1, <2>2, <2>3 DEF Range
<1>3. Range(s) \subseteq S
  BY DEF Range
<1> QED
  BY <1>1, <1>2, <1>3

-----------------------------------------------------------------------------
(* Type correctness.                                                       *)

\* The worker saves only while something of the batch is left: the invariant
\* TypeOK needs to keep saved within the batch.
SavesSomething == wpc = "save" => saved < Len(batch)

TypeInv == TypeOK /\ SavesSomething

USE MaxMessagesAssumption, MaxCallsAssumption, MaxErrorsAssumption

LEMMA InitTypeInv == Init => TypeInv
<1> SUFFICES ASSUME Init PROVE TypeInv
  OBVIOUS
<1>1. <<>> \in Seq(Message) /\ Len(<<>>) = 0
  BY EmptySeq
<1>2. messages_ \in Seq(Message) /\ batch \in Seq(Message) /\ txn \in Seq(Message) /\ rows \in Seq(Message)
  BY <1>1 DEF Init
<1>3. Len(messages_) <= MaxMessages /\ saved \in 0..Len(batch)
  BY <1>1 DEF Init
<1>4. /\ wpc \in WorkerPc /\ owner \in OwnerState /\ interrupted \in BOOLEAN
      /\ connected \in BOOLEAN /\ SavesSomething
  BY DEF Init, WorkerPc, OwnerState, SavesSomething
<1>5. calls \in 0..MaxCalls /\ refusals \in 0..1 /\ errors \in Nat
  BY DEF Init
<1> QED
  BY <1>2, <1>3, <1>4, <1>5 DEF TypeInv, TypeOK

LEMMA NextTypeInv == TypeInv /\ [Next]_vars => TypeInv'
<1> SUFFICES ASSUME TypeInv, [Next]_vars PROVE TypeInv'
  OBVIOUS
<1> USE DEF TypeInv, TypeOK, SavesSomething, WorkerPc, OwnerState
<1>a. <<>> \in Seq(Message) /\ Len(<<>>) = 0
  BY EmptySeq
<1>b. rows \o txn \in Seq(Message)
  BY ConcatProperties
<1>c. TerminateConnection => /\ connected' \in BOOLEAN
                             /\ txn' \in Seq(Message)
                             /\ rows' \in Seq(Message)
  BY <1>a, <1>b DEF TerminateConnection
<1>d. LogError => errors' \in Nat /\ wpc' \in WorkerPc /\ wpc' # "save"
  BY DEF LogError
<1>1. CASE AddMessage
  BY <1>1 DEF AddMessage, Message, worker, database
<1>2. CASE AddMessageOverflow
  BY <1>2 DEF AddMessageOverflow, worker, database
<1>3. CASE Start
  BY <1>3 DEF Start, shared, database
<1>4. CASE StopInterrupt \/ DestroyBase
  BY <1>4 DEF StopInterrupt, DestroyBase, shared, worker, database
<1>5. CASE StopJoin \/ StartFails \/ Serve \/ UseRuin
  BY <1>5 DEF StopJoin, StartFails, Serve, UseRuin, shared, worker, database
<1>6. CASE Destroy
  BY <1>a, <1>c, <1>6 DEF Destroy, worker
<1>7. CASE Sleep
  BY <1>7 DEF Sleep, shared, database
<1>8. CASE SleepInterrupted
  BY <1>8 DEF SleepInterrupted, shared, database
<1>9. CASE BeginBatch
  BY <1>9 DEF BeginBatch, shared
<1>10. CASE BeginBatchFails
  BY <1>c, <1>d, <1>10 DEF BeginBatchFails, DatabaseFails, shared
<1>11. CASE SwapQueue
  BY <1>a, <1>11 DEF SwapQueue, database
<1>12. CASE SaveMessage
  BY <1>12 DEF SaveMessage, shared
<1>13. CASE SaveFails
  BY <1>a, <1>d, <1>13 DEF SaveFails, DatabaseFails, shared
<1>14. CASE InterruptionPoint
  BY <1>14 DEF InterruptionPoint, shared, database
<1>15. CASE InterruptSwallowed
  BY <1>d, <1>15 DEF InterruptSwallowed, shared, database
<1>16. CASE EndBatch
  BY <1>a, <1>b, <1>16 DEF EndBatch, shared
<1>17. CASE EndBatchFails
  BY <1>a, <1>b, <1>d, <1>17 DEF EndBatchFails, DatabaseFails, shared
<1>18. CASE ConstructorThrows
  BY <1>c, <1>18 DEF ConstructorThrows, shared, worker
<1>19. CASE DestroyJoin
  BY <1>a, <1>19 DEF DestroyJoin, worker, database
<1>20. CASE BaseBatch
  BY <1>20 DEF BaseBatch, shared, database
<1>21. CASE UNCHANGED vars
  BY <1>21 DEF vars
<1> QED
  BY <1>1, <1>2, <1>3, <1>4, <1>5, <1>6, <1>7, <1>8, <1>9, <1>10, <1>11, <1>12,
     <1>13, <1>14, <1>15, <1>16, <1>17, <1>18, <1>19, <1>20, <1>21
     DEF Next, Io, Owner, Worker, Backend, Loop, Terminated

\* The variables keep their types and the queue its bound, whatever the
\* io thread, the worker, the owner and the database do.
THEOREM TypeCorrect == Spec => []TypeOK
<1>1. Spec => []TypeInv
  BY InitTypeInv, NextTypeInv, PTL DEF Spec
<1> QED
  BY <1>1, PTL DEF TypeInv

-----------------------------------------------------------------------------
(* The order of the messages.                                              *)

\* FifoOrder of four sequences, with every number at most c: the property is
\* inductive only together with the bound, because a new message gets c + 1.
Chain(r, t, f, m, c) ==
    /\ Increasing(r) /\ Increasing(t) /\ Increasing(f) /\ Increasing(m)
    /\ Before(r, t) /\ Before(r, f) /\ Before(r, m)
    /\ Before(t, f) /\ Before(t, m)
    /\ Before(f, m)
    /\ Below(r, c + 1) /\ Below(t, c + 1) /\ Below(f, c + 1) /\ Below(m, c + 1)

OrderInv == Chain(rows, txn, InFlight, messages_, calls)

\* A new message goes to the end of the queue.
LEMMA ChainAccept ==
    ASSUME NEW r \in Seq(Nat), NEW t \in Seq(Nat), NEW f \in Seq(Nat), NEW m \in Seq(Nat),
           NEW c \in Nat, Chain(r, t, f, m, c)
    PROVE  Chain(r, t, f, Append(m, c + 1), c + 1)
<1>1. \A s \in Seq(Nat) : Below(s, c + 1) => Below(s, c + 2)
  BY DEF Below
<1>2. c + 1 \in Nat /\ (c + 1) + 1 = c + 2 /\ c + 2 \in Nat /\ c + 1 < c + 2
  OBVIOUS
<1>3. Increasing(Append(m, c + 1))
  BY <1>2, IncreasingAppend DEF Chain
<1>4. /\ Before(r, Append(m, c + 1)) /\ Before(t, Append(m, c + 1))
      /\ Before(f, Append(m, c + 1))
  BY <1>2, BeforeAppend DEF Chain
<1>5. Below(Append(m, c + 1), c + 2)
  BY <1>1, <1>2, BeforeAppend DEF Chain
<1> QED
  BY <1>1, <1>2, <1>3, <1>4, <1>5 DEF Chain

\* Losing the transaction, the rest of the batch or the queue keeps the order.
LEMMA ChainDrop ==
    ASSUME NEW r \in Seq(Nat), NEW t \in Seq(Nat), NEW f \in Seq(Nat), NEW m \in Seq(Nat),
           NEW c \in Nat, Chain(r, t, f, m, c)
    PROVE  /\ Chain(r, <<>>, f, m, c)
           /\ Chain(r, t, <<>>, m, c)
           /\ Chain(r, t, f, <<>>, c)
<1>1. \A s \in Seq(Nat) : /\ Increasing(<<>>) /\ Before(<<>>, s) /\ Before(s, <<>>)
                          /\ Below(<<>>, c + 1)
  BY EmptyOrder
<1> QED
  BY <1>1 DEF Chain

\* A commit moves the transaction behind the rows.
LEMMA ChainCommit ==
    ASSUME NEW r \in Seq(Nat), NEW t \in Seq(Nat), NEW f \in Seq(Nat), NEW m \in Seq(Nat),
           NEW c \in Nat, Chain(r, t, f, m, c)
    PROVE  Chain(r \o t, <<>>, f, m, c)
<1>1. /\ <<>> \in Seq(Nat) /\ r \o t \in Seq(Nat)
      /\ Increasing(<<>>) /\ Below(<<>>, c + 1)
      /\ \A s \in Seq(Nat) : Before(<<>>, s) /\ Before(s, <<>>)
  BY EmptyOrder, EmptySeq, ConcatProperties
<1>2. Increasing(r \o t)
  BY IncreasingConcat DEF Chain
<1>3. Before(r \o t, f) /\ Before(r \o t, m)
  BY BeforeConcat DEF Chain
<1>4. Below(r \o t, c + 1)
  BY DEF Chain, Below
<1> QED
  BY <1>1, <1>2, <1>3, <1>4 DEF Chain

\* The worker takes the queue over when it holds nothing.
LEMMA ChainSwap ==
    ASSUME NEW r \in Seq(Nat), NEW t \in Seq(Nat), NEW m \in Seq(Nat),
           NEW c \in Nat, Chain(r, t, <<>>, m, c)
    PROVE  Chain(r, t, m, <<>>, c)
<1>1. \A s \in Seq(Nat) : /\ Increasing(<<>>) /\ Before(<<>>, s) /\ Before(s, <<>>)
                          /\ Below(<<>>, c + 1)
  BY EmptyOrder
<1> QED
  BY <1>1 DEF Chain

\* One insert moves the first message of the batch into the transaction.
LEMMA ChainSave ==
    ASSUME NEW r \in Seq(Nat), NEW t \in Seq(Nat), NEW f \in Seq(Nat), NEW m \in Seq(Nat),
           NEW c \in Nat, Chain(r, t, f, m, c),
           NEW g \in Seq(Nat), Len(f) = Len(g) + 1, \A i \in 1..Len(g) : g[i] = f[i + 1]
    PROVE  Chain(r, Append(t, f[1]), g, m, c)
<1>1. /\ 1 \in 1..Len(f) /\ f[1] \in Nat /\ Len(g) \in Nat
      /\ \A i \in 1..Len(g) : i + 1 \in 1..Len(f) /\ g[i] \in Nat
  OBVIOUS
<1>2. Increasing(g) /\ Above(f[1], g)
  <2>1. \A i, j \in 1..Len(f) : i < j => f[i] < f[j]
    BY DEF Chain, Increasing
  <2>2. \A i, j \in 1..Len(g) : i < j => i + 1 < j + 1
    BY <1>1
  <2>3. \A i \in 1..Len(g) : 1 < i + 1
    BY <1>1
  <2>4. Increasing(g)
    BY <1>1, <2>1, <2>2 DEF Increasing
  <2>5. Above(f[1], g)
    BY <1>1, <2>1, <2>3 DEF Above
  <2> QED
    BY <2>4, <2>5
<1>3. Before(r, g) /\ Before(t, g) /\ Before(g, m) /\ Below(g, c + 1)
  BY <1>1 DEF Chain, Before, Below
<1>4. Below(r, f[1]) /\ Below(t, f[1]) /\ Above(f[1], m) /\ f[1] < c + 1
  BY <1>1 DEF Chain, Before, Below, Above
<1>5. Append(t, f[1]) \in Seq(Nat)
  BY <1>1
<1>6. Increasing(Append(t, f[1]))
  BY <1>1, <1>4, IncreasingAppend DEF Chain
<1>7. /\ Before(r, Append(t, f[1])) /\ Before(Append(t, f[1]), g)
      /\ Before(Append(t, f[1]), m)
  BY <1>1, <1>2, <1>3, <1>4, BeforeAppend DEF Chain
<1>8. Below(Append(t, f[1]), c + 1)
  BY <1>1, <1>4, BeforeAppend DEF Chain
<1> QED
  BY <1>2, <1>3, <1>6, <1>7, <1>8 DEF Chain

\* What InFlight is in the two places of the loop over the batch.
InFlightFacts ==
    /\ InFlight \in Seq(Message)
    /\ wpc \notin {"save", "point"} => InFlight = <<>>
    /\ wpc \in {"save", "point"} =>
           /\ Len(InFlight) = Len(batch) - saved
           /\ \A i \in 1..Len(InFlight) : InFlight[i] = batch[saved + i]

LEMMA InFlightDef == TypeInv => InFlightFacts
<1> SUFFICES ASSUME TypeInv PROVE InFlightFacts
  OBVIOUS
<1> USE DEF InFlightFacts
<1>1. CASE wpc \in {"save", "point"}
  <2>1. InFlight = SubSeq(batch, saved + 1, Len(batch))
    BY <1>1 DEF InFlight
  <2>2. /\ batch \in Seq(Message) /\ Len(batch) \in Nat /\ saved \in Nat
        /\ saved <= Len(batch)
    BY DEF TypeInv, TypeOK
  <2>3. InFlight \in Seq(Message)
    BY <2>1, <2>2
  <2>4. Len(InFlight) = Len(batch) - saved
    BY <2>1, <2>2
  <2>5. \A i \in 1..Len(InFlight) : InFlight[i] = batch[saved + i]
    BY <2>1, <2>2, <2>4
  <2> QED
    BY <1>1, <2>3, <2>4, <2>5
<1>2. CASE wpc \notin {"save", "point"}
  BY <1>2, EmptySeq DEF InFlight
<1> QED
  BY <1>1, <1>2

\* Where the worker's step leaves its copy of the batch alone, so is InFlight.
LEMMA InFlightSame ==
    ASSUME UNCHANGED <<batch, saved>>,
           wpc' = wpc \/ {wpc, wpc'} = {"save", "point"}
    PROVE  InFlight' = InFlight
BY DEF InFlight

\* Message numbers are natural numbers.
LEMMA MessagesAreNumbers == Seq(Message) \subseteq Seq(Nat)
<1>1. Message \subseteq Nat
  BY DEF Message
<1> QED
  BY <1>1, SeqMonotonic

LEMMA InitOrderInv == Init => OrderInv
<1> SUFFICES ASSUME Init PROVE OrderInv
  OBVIOUS
<1>1. /\ messages_ = <<>> /\ txn = <<>> /\ rows = <<>> /\ InFlight = <<>> /\ calls = 0
  BY DEF Init, InFlight
<1>2. /\ <<>> \in Seq(Nat) /\ 0 + 1 \in Nat
  BY EmptySeq
<1>3. Increasing(<<>>) /\ Before(<<>>, <<>>) /\ Below(<<>>, 0 + 1)
  BY <1>2, EmptyOrder
<1> QED
  BY <1>1, <1>3 DEF OrderInv, Chain

LEMMA NextOrderInv == TypeInv /\ TypeInv' /\ OrderInv /\ [Next]_vars => OrderInv'
<1> SUFFICES ASSUME TypeInv, TypeInv', OrderInv, [Next]_vars PROVE OrderInv'
  OBVIOUS
<1>a. /\ rows \in Seq(Nat) /\ txn \in Seq(Nat) /\ InFlight \in Seq(Nat)
      /\ messages_ \in Seq(Nat) /\ calls \in Nat /\ InFlight' \in Seq(Nat)
      /\ <<>> \in Seq(Nat)
  <2>1. InFlightFacts /\ InFlightFacts'
    BY InFlightDef, PTL
  <2> QED
    BY <2>1, MessagesAreNumbers, EmptySeq DEF InFlightFacts, TypeInv, TypeOK
<1>b. Chain(rows, txn, InFlight, messages_, calls)
  BY DEF OrderInv
<1>c. (wpc' \notin {"save", "point"}) => InFlight' = <<>>
  BY DEF InFlight
<1> SUFFICES Chain(rows', txn', InFlight', messages_', calls')
  BY DEF OrderInv
\* What a terminated connection leaves, with or without the batch's rest.
<1>d. ASSUME NEW f \in Seq(Nat), Chain(rows, txn, f, messages_, calls), TerminateConnection
      PROVE  Chain(rows', txn', f, messages_, calls)
  <2>1. Chain(rows, <<>>, f, messages_, calls)
    BY <1>a, <1>d, ChainDrop
  <2>2. Chain(rows \o txn, <<>>, f, messages_, calls)
    BY <1>a, <1>d, ChainCommit
  <2> QED
    BY <1>d, <2>1, <2>2 DEF TerminateConnection
<1>e. LogError => InFlight' = <<>>
  BY <1>c DEF LogError
<1>f. Chain(rows, txn, <<>>, messages_, calls)
  BY <1>a, <1>b, ChainDrop
\* What a failed statement or a failed commit leaves of the transaction.
<1>g. Chain(rows, <<>>, <<>>, messages_, calls)
  BY <1>a, <1>f, ChainDrop
<1>h. Chain(rows \o txn, <<>>, <<>>, messages_, calls)
  BY <1>a, <1>f, ChainCommit
<1>1. CASE AddMessage
  <2>1. InFlight' = InFlight
    BY <1>1, InFlightSame DEF AddMessage, worker
  <2> QED
    BY <1>a, <1>b, <1>1, <2>1, ChainAccept DEF AddMessage, database
<1>2. CASE AddMessageOverflow
  <2>1. InFlight' = InFlight
    BY <1>2, InFlightSame DEF AddMessageOverflow, worker
  <2> QED
    BY <1>b, <1>2, <2>1 DEF AddMessageOverflow, database
<1>3. CASE Start
  BY <1>c, <1>f, <1>3 DEF Start, shared, database
<1>4. CASE StopInterrupt \/ DestroyBase
  <2>1. InFlight' = InFlight
    BY <1>4, InFlightSame DEF StopInterrupt, DestroyBase, worker
  <2> QED
    BY <1>b, <1>4, <2>1 DEF StopInterrupt, DestroyBase, shared, database
<1>5. CASE StopJoin \/ StartFails \/ Serve \/ UseRuin
  <2>1. InFlight' = InFlight
    BY <1>5, InFlightSame DEF StopJoin, StartFails, Serve, UseRuin, worker
  <2> QED
    BY <1>b, <1>5, <2>1 DEF StopJoin, StartFails, Serve, UseRuin, shared, database
<1>6. CASE Destroy
  <2>1. InFlight' = InFlight
    BY <1>6, InFlightSame DEF Destroy, worker
  <2>2. Chain(rows', txn', InFlight, messages_, calls)
    BY <1>a, <1>b, <1>d, <1>6 DEF Destroy
  <2>3. rows' \in Seq(Nat) /\ txn' \in Seq(Nat)
    BY MessagesAreNumbers DEF TypeInv, TypeOK
  <2> QED
    BY <1>a, <1>6, <2>1, <2>2, <2>3, ChainDrop DEF Destroy
<1>7. CASE Sleep
  BY <1>c, <1>f, <1>7 DEF Sleep, shared, database
<1>8. CASE SleepInterrupted
  BY <1>c, <1>f, <1>8 DEF SleepInterrupted, shared, database
<1>9. CASE BeginBatch
  BY <1>c, <1>f, <1>9 DEF BeginBatch, shared
<1>10. CASE BeginBatchFails
  BY <1>a, <1>d, <1>e, <1>f, <1>10 DEF BeginBatchFails, DatabaseFails, shared
<1>11. CASE SwapQueue
  <2>1. CASE messages_ = <<>>
    BY <1>c, <1>f, <1>11, <2>1 DEF SwapQueue, database
  <2>2. CASE messages_ # <<>>
    <3>1. wpc' = "save" /\ batch' = messages_ /\ saved' = 0
      BY <1>11, <2>2 DEF SwapQueue
    <3>2. InFlight' = SubSeq(messages_, 1, Len(messages_))
      BY <3>1 DEF InFlight
    <3>3. InFlight' = messages_
      BY <1>a, <3>2, SubSeqFull
    <3> QED
      BY <1>a, <1>f, <1>11, <3>3, ChainSwap DEF SwapQueue, database
  <2> QED
    BY <2>1, <2>2
<1>12. CASE SaveMessage
  <2>1. /\ wpc = "save" /\ wpc' = "point" /\ batch' = batch /\ saved' = saved + 1
        /\ saved < Len(batch) /\ saved \in Nat /\ Len(batch) \in Nat
    BY <1>12 DEF SaveMessage, TypeInv, TypeOK, SavesSomething
  <2>2. /\ Len(InFlight) = Len(batch) - saved
        /\ \A i \in 1..Len(InFlight) : InFlight[i] = batch[saved + i]
    BY <2>1, InFlightDef DEF InFlightFacts
  <2>3. /\ Len(InFlight') = Len(batch) - (saved + 1)
        /\ \A i \in 1..Len(InFlight') : InFlight'[i] = batch[(saved + 1) + i]
    <3>1. InFlightFacts'
      BY InFlightDef, PTL
    <3> QED
      BY <2>1, <3>1 DEF InFlightFacts
  <2>4. Len(InFlight) = Len(InFlight') + 1 /\ InFlight[1] = batch[saved + 1]
    BY <2>1, <2>2, <2>3
  <2>5. \A i \in 1..Len(InFlight') : InFlight'[i] = InFlight[i + 1]
    BY <2>1, <2>2, <2>3
  <2>6. Chain(rows, Append(txn, InFlight[1]), InFlight', messages_, calls)
    BY <1>a, <1>b, <2>4, <2>5, ChainSave
  <2> QED
    BY <1>12, <2>4, <2>6 DEF SaveMessage, shared
<1>13. CASE SaveFails
  BY <1>e, <1>f, <1>g, <1>13 DEF SaveFails, DatabaseFails, shared
<1>14. CASE InterruptionPoint
  <2>1. CASE saved < Len(batch)
    <3>1. InFlight' = InFlight
      BY <1>14, <2>1, InFlightSame DEF InterruptionPoint
    <3> QED
      BY <1>b, <1>14, <3>1 DEF InterruptionPoint, shared, database
  <2>2. CASE ~(saved < Len(batch))
    BY <1>c, <1>f, <1>14, <2>2 DEF InterruptionPoint, shared, database
  <2> QED
    BY <2>1, <2>2
<1>15. CASE InterruptSwallowed
  BY <1>e, <1>f, <1>15 DEF InterruptSwallowed, shared, database
<1>16. CASE EndBatch
  BY <1>c, <1>h, <1>16 DEF EndBatch, shared
<1>17. CASE EndBatchFails
  BY <1>e, <1>f, <1>g, <1>h, <1>17 DEF EndBatchFails, DatabaseFails, shared
<1>18. CASE ConstructorThrows
  <2>1. InFlight' = InFlight
    BY <1>18, InFlightSame DEF ConstructorThrows, worker
  <2> QED
    BY <1>b, <1>d, <1>18, <2>1, <1>a DEF ConstructorThrows, shared
<1>19. CASE DestroyJoin
  <2>1. InFlight' = InFlight
    BY <1>19, InFlightSame DEF DestroyJoin, worker
  <2> QED
    BY <1>a, <1>b, <1>19, <2>1, ChainDrop DEF DestroyJoin, database
<1>20. CASE BaseBatch
  BY <1>c, <1>f, <1>20 DEF BaseBatch, shared, database
<1>21. CASE UNCHANGED vars
  <2>1. InFlight' = InFlight
    BY <1>21, InFlightSame DEF vars
  <2> QED
    BY <1>b, <1>21, <2>1 DEF vars
<1> QED
  BY <1>1, <1>2, <1>3, <1>4, <1>5, <1>6, <1>7, <1>8, <1>9, <1>10, <1>11, <1>12,
     <1>13, <1>14, <1>15, <1>16, <1>17, <1>18, <1>19, <1>20, <1>21
     DEF Next, Io, Owner, Worker, Backend, Loop, Terminated

\* Whatever fails and is retried, the rows of the table, the open transaction,
\* the worker's batch and the queue hold the accepted messages in the order of
\* the add_message calls, and no message twice (work_proc).
THEOREM OrderKept == Spec => []FifoOrder
<1>1. Init => TypeInv /\ OrderInv
  BY InitTypeInv, InitOrderInv
<1>2. TypeInv /\ OrderInv /\ [Next]_vars => (TypeInv /\ OrderInv)'
  BY NextTypeInv, NextOrderInv
<1>3. OrderInv => FifoOrder
  BY DEF OrderInv, Chain, FifoOrder
<1> QED
  BY <1>1, <1>2, <1>3, PTL DEF Spec

-----------------------------------------------------------------------------
(* The life of the connection and of the backend object.                   *)

\* join() returned only because work_proc had ended, or start() threw and
\* there is no thread.
JoinedWorker == owner \in {"stopped", "gone"} => wpc \in {"none", "exited"}

\* The thread is created by start().
NotStarted == owner = "init" => wpc = "none"

\* Before run() is called nobody calls add_message, so a constructor that
\* fails destroys a backend with nothing in it.
NothingTaken ==
    owner \in {"init", "starting", "stripped", "dismantled", "undefined"} =>
        /\ calls = 0
        /\ messages_ = <<>> /\ txn = <<>> /\ rows = <<>>
        /\ wpc \notin {"save", "point"}

LifeInv == ConnectedWhileSaving /\ JoinedWorker /\ NotStarted /\ NothingTaken /\ QuietWhenGone

LEMMA InitLifeInv == Init => LifeInv
BY DEF Init, LifeInv, ConnectedWhileSaving, JoinedWorker, NotStarted, NothingTaken,
       QuietWhenGone

LEMMA NextLifeInv == LifeInv /\ [Next]_vars => LifeInv'
<1> SUFFICES ASSUME LifeInv, [Next]_vars PROVE LifeInv'
  OBVIOUS
<1> USE DEF LifeInv, ConnectedWhileSaving, JoinedWorker, NotStarted, NothingTaken,
            QuietWhenGone, Whole
<1>a. <<>> \o <<>> = <<>>
  BY ConcatEmptySeq, EmptySeq
<1>1. CASE Io
  BY <1>1 DEF Io, AddMessage, AddMessageOverflow, worker, database
<1>2. CASE Start \/ StartFails \/ Serve \/ StopInterrupt \/ StopJoin
  BY <1>2 DEF Start, StartFails, Serve, StopInterrupt, StopJoin, shared, worker, database
<1>3. CASE Destroy
  BY <1>3 DEF Destroy, TerminateConnection, worker
<1>4. CASE Whole /\ Backend
  <2>1. CASE BeginBatch
    BY <1>4, <2>1 DEF BeginBatch, shared
  <2>2. CASE BeginBatchFails
    BY <1>a, <1>4, <2>2 DEF BeginBatchFails, DatabaseFails, LogError, TerminateConnection, shared
  <2>3. CASE SaveMessage
    BY <1>4, <2>3 DEF SaveMessage, shared
  <2>4. CASE SaveFails
    BY <1>4, <2>4 DEF SaveFails, DatabaseFails, LogError, shared
  <2>5. CASE EndBatch
    BY <1>a, <1>4, <2>5 DEF EndBatch, shared
  <2>6. CASE EndBatchFails
    BY <1>a, <1>4, <2>6 DEF EndBatchFails, DatabaseFails, LogError, shared
  <2> QED
    BY <1>4, <2>1, <2>2, <2>3, <2>4, <2>5, <2>6 DEF Backend
<1>5. CASE Sleep \/ SleepInterrupted \/ InterruptionPoint
  BY <1>5 DEF Sleep, SleepInterrupted, InterruptionPoint, shared, database
<1>6. CASE SwapQueue
  BY <1>6 DEF SwapQueue, database
<1>7. CASE InterruptSwallowed
  BY <1>7 DEF InterruptSwallowed, LogError, shared, database
<1>8. CASE ConstructorThrows
  BY <1>a, <1>8 DEF ConstructorThrows, TerminateConnection, shared, worker
<1>9. CASE DestroyBase \/ DestroyJoin
  BY <1>9 DEF DestroyBase, DestroyJoin, shared, worker, database
<1>10. CASE UseRuin \/ BaseBatch
  BY <1>10 DEF UseRuin, BaseBatch, shared, worker, database
<1>11. CASE UNCHANGED vars
  BY <1>11 DEF vars
<1> QED
  BY <1>1, <1>2, <1>3, <1>4, <1>5, <1>6, <1>7, <1>8, <1>9, <1>10, <1>11
     DEF Next, Owner, Worker, Loop, Terminated

\* What the owner, the worker and the connection are to each other never
\* breaks.
LEMMA LifeInvariant == Spec => []LifeInv
BY InitLifeInv, NextLifeInv, PTL DEF Spec

\* The worker dereferences connection_ only while it holds a connection.
THEOREM ConnectionAlive == Spec => []ConnectedWhileSaving
<1>1. LifeInv => ConnectedWhileSaving
  BY DEF LifeInv
<1> QED
  BY <1>1, LifeInvariant, PTL

\* The memory of a backend is freed with no worker running and nothing left to
\* commit, after ~server_t and after a constructor of server_t that threw.
THEOREM DestroyedIsQuiet == Spec => []QuietWhenGone
<1>1. LifeInv => QuietWhenGone
  BY DEF LifeInv
<1> QED
  BY <1>1, LifeInvariant, PTL

-----------------------------------------------------------------------------
(* The backend implements AbstractStore.                                   *)

Places == Range(messages_) \cup Range(InFlight) \cup Range(txn) \cup Range(rows)

\* No accepted message is invented, and none of the transaction is committed
\* already or comes before something committed.
PlaceFacts ==
    /\ Places \subseteq accepted
    /\ Lost = accepted \ Places
    /\ \A x \in Range(txn), y \in Range(rows) : y < x /\ x # y

LEMMA PlacesOrdered == TypeInv /\ OrderInv => PlaceFacts
<1> SUFFICES ASSUME TypeInv, OrderInv PROVE PlaceFacts
  OBVIOUS
<1>1. /\ rows \in Seq(Message) /\ txn \in Seq(Message) /\ messages_ \in Seq(Message)
      /\ InFlight \in Seq(Message) /\ calls \in Nat
  BY InFlightDef DEF InFlightFacts, TypeInv, TypeOK
<1>2. ASSUME NEW s \in Seq(Message), Below(s, calls + 1)
      PROVE  Range(s) \subseteq accepted
  <2> SUFFICES ASSUME NEW i \in 1..Len(s) PROVE s[i] \in 1..calls
    BY <1>1, LenProperties DEF Range, accepted
  <2>1. s[i] \in Nat /\ 1 <= s[i] /\ s[i] < calls + 1
    BY <1>2, ElementOfSeq DEF Below, Message
  <2> QED
    BY <1>1, <2>1
<1>3. Places \subseteq accepted
  BY <1>1, <1>2 DEF Places, OrderInv, Chain
<1>4. Lost = accepted \ Places
  BY DEF Lost, Places
<1>5. \A x \in Range(txn), y \in Range(rows) : y < x /\ x # y
  <2> SUFFICES ASSUME NEW i \in 1..Len(txn), NEW j \in 1..Len(rows)
               PROVE  rows[j] < txn[i] /\ txn[i] # rows[j]
    BY <1>1, LenProperties DEF Range
  <2>1. rows[j] < txn[i]
    BY DEF OrderInv, Chain, Before
  <2>2. rows[j] \in Nat /\ txn[i] \in Nat
    BY <1>1, ElementOfSeq DEF Message
  <2> QED
    BY <2>1, <2>2
<1> QED
  BY <1>3, <1>4, <1>5 DEF PlaceFacts

LEMMA InitRefines == Init => Store!Init
<1> SUFFICES ASSUME Init PROVE Store!Init
  OBVIOUS
<1>1. Range(rows) = {} /\ accepted = {} /\ Lost = {}
  BY DEF Init, Range, accepted, Lost
<1> QED
  BY <1>1 DEF Init, Store!Init

\* A step that leaves every message in its place or moves it between places
\* other than the table is invisible.
LEMMA StutterStep ==
    ASSUME PlaceFacts, PlaceFacts', Places' = Places, calls' = calls, rows' = rows,
           errors' = errors, (owner # "gone")' = (owner # "gone")
    PROVE  UNCHANGED Store!vars
<1>1. accepted' = accepted
  BY DEF accepted
<1>2. Lost' = Lost
  BY <1>1 DEF PlaceFacts
<1> QED
  BY <1>1, <1>2 DEF Store!vars

\* A step that logs an error, and may commit the transaction and drop others.
LEMMA FailStep ==
    ASSUME PlaceFacts, PlaceFacts', owner # "gone", owner' # "gone",
           calls' = calls, errors' = errors + 1, Places' \subseteq Places,
           Range(rows') \in {Range(rows), Range(rows) \cup Range(txn)}
    PROVE  Store!Next
<1> DEFINE S == Range(rows') \ Range(rows)
           L == Places \ Places'
<1>1. accepted' = accepted
  BY DEF accepted
<1>2. S \subseteq Range(txn) /\ Range(rows') = Range(rows) \cup S
  OBVIOUS
<1>3. Range(rows) \subseteq Range(rows') /\ Range(rows') \subseteq Places'
  BY DEF Places
<1>4. S \in SUBSET Store!Pending
  BY <1>2 DEF Store!Pending, PlaceFacts, Places
<1>5. L \in SUBSET (Store!Pending \ S)
  BY <1>3 DEF Store!Pending, PlaceFacts
<1>6. Lost' = Lost \cup L
  BY <1>1 DEF PlaceFacts
<1>7. Store!InOrder(S)
  BY <1>2 DEF Store!InOrder, PlaceFacts
<1>8. Store!Fail(S, L)
  BY <1>1, <1>2, <1>6, <1>7 DEF Store!Fail
<1> QED
  BY <1>4, <1>5, <1>8 DEF Store!Next

LEMMA NextRefines ==
    TypeInv /\ TypeInv' /\ OrderInv /\ OrderInv' /\ LifeInv /\ [Next]_vars
        => [Store!Next]_(Store!vars)
<1> SUFFICES ASSUME TypeInv, TypeInv', OrderInv, OrderInv', LifeInv, [Next]_vars
             PROVE  [Store!Next]_(Store!vars)
  OBVIOUS
<1>a. PlaceFacts /\ PlaceFacts'
  BY PlacesOrdered, PTL
<1>b. /\ rows \in Seq(Message) /\ txn \in Seq(Message) /\ messages_ \in Seq(Message)
      /\ InFlight \in Seq(Message) /\ InFlight' \in Seq(Message)
      /\ rows' \in Seq(Message) /\ txn' \in Seq(Message) /\ messages_' \in Seq(Message)
  <2>1. InFlightFacts /\ InFlightFacts'
    BY InFlightDef, PTL
  <2> QED
    BY <2>1 DEF InFlightFacts, TypeInv, TypeOK
<1>c. Range(<<>>) = {}
  BY DEF Range
<1>d. wpc \in {"none", "sleep", "begin", "swap", "end", "exited"} => InFlight = <<>>
  BY DEF InFlight
<1>e. wpc' \in {"none", "sleep", "begin", "swap", "end", "exited"} => InFlight' = <<>>
  BY DEF InFlight
<1>f. Range(rows \o txn) = Range(rows) \cup Range(txn)
  BY <1>b, RangeConcatenation
<1>g. wpc \notin {"none", "exited"} => owner # "gone"
  BY DEF LifeInv, JoinedWorker
<1>1. CASE AddMessage
  <2>1. InFlight' = InFlight
    BY <1>1, InFlightSame DEF AddMessage, worker
  <2>2. /\ calls \in Nat /\ calls' = calls + 1 /\ calls' \in Message
        /\ rows' = rows /\ txn' = txn /\ errors' = errors
        /\ owner # "gone" /\ owner' # "gone"
    BY <1>1 DEF AddMessage, worker, database, TypeInv, TypeOK, Message
  <2>3. Range(messages_') = Range(messages_) \cup {calls + 1}
    BY <1>1, <1>b, <2>2, RangeConcat DEF AddMessage
  <2>4. accepted' = accepted \cup {calls + 1} /\ \A m \in accepted : m < calls + 1
    BY <2>2 DEF accepted
  <2>5. Places' = Places \cup {calls + 1}
    BY <2>1, <2>2, <2>3 DEF Places
  <2>6. Lost' = Lost
    <3>1. calls + 1 \notin accepted
      BY <2>2 DEF accepted
    <3>2. accepted' \ Places' = accepted \ Places
      BY <3>1, <2>4, <2>5
    <3> QED
      BY <1>a, <3>2 DEF PlaceFacts
  <2>7. Store!Accept(calls + 1)
    BY <2>2, <2>4, <2>6 DEF Store!Accept
  <2> QED
    BY <2>2, <2>7 DEF Store!Next
<1>2. CASE \/ AddMessageOverflow \/ StartFails \/ Serve \/ StopInterrupt \/ StopJoin
           \/ DestroyBase \/ UseRuin \/ UNCHANGED vars
  <2>1. /\ InFlight' = InFlight /\ UNCHANGED <<messages_, txn, rows, calls, errors>>
        /\ (owner # "gone")' = (owner # "gone")
    BY <1>2, InFlightSame
       DEF AddMessageOverflow, StartFails, Serve, StopInterrupt, StopJoin, DestroyBase,
           UseRuin, vars, shared, worker, database
  <2> QED
    BY <1>a, <2>1, StutterStep DEF Places
<1>3. CASE Start
  <2>1. /\ InFlight = <<>> /\ InFlight' = <<>>
        /\ UNCHANGED <<messages_, txn, rows, calls, errors>>
        /\ (owner # "gone")' = (owner # "gone")
    BY <1>3, <1>d, <1>e DEF Start, shared, database, LifeInv, NotStarted
  <2> QED
    BY <1>a, <2>1, StutterStep DEF Places
<1>4. CASE Destroy
  <2>1. /\ InFlight' = InFlight /\ calls' = calls /\ errors' = errors
        /\ owner # "gone" /\ owner' = "gone"
    BY <1>4, InFlightSame DEF Destroy, worker
  <2>2. InFlight = <<>> /\ InFlight' = <<>>
    BY <1>4, <2>1, <1>d DEF Destroy, LifeInv, JoinedWorker
  <2>3. messages_' = <<>> /\ txn' = <<>> /\ rows' \in {rows, rows \o txn}
    BY <1>4 DEF Destroy, TerminateConnection
  <2>4. Places' = Range(rows') /\ Range(rows') \in {Range(rows), Range(rows) \cup Range(txn)}
    BY <1>c, <1>f, <2>2, <2>3 DEF Places
  <2> DEFINE S == Range(rows') \ Range(rows)
  <2>5. /\ S \subseteq Range(txn) /\ Range(rows') = Range(rows) \cup S
        /\ accepted' = accepted
    BY <2>1, <2>4 DEF accepted
  <2>6. S \in SUBSET Store!Pending
    BY <1>a, <2>5 DEF Store!Pending, PlaceFacts, Places
  <2>7. Lost' = Lost \cup (Store!Pending \ S)
    <3>1. Store!Pending = Places \ Range(rows)
      BY <1>a DEF Store!Pending, PlaceFacts, Places
    <3>2. Range(rows') \subseteq Places /\ Places \subseteq accepted
      BY <1>a, <2>5 DEF Places, PlaceFacts
    <3>3. Lost = accepted \ Places /\ Lost' = accepted \ Range(rows')
      BY <1>a, <2>4, <2>5 DEF PlaceFacts
    <3> QED
      BY <2>5, <3>1, <3>2, <3>3
  <2>8. Store!InOrder(S)
    BY <1>a, <2>5 DEF Store!InOrder, PlaceFacts
  <2>9. Store!Close(S)
    BY <2>1, <2>5, <2>7, <2>8 DEF Store!Close
  <2> QED
    BY <2>6, <2>9 DEF Store!Next
<1>5. CASE Sleep \/ SleepInterrupted \/ BeginBatch \/ BaseBatch
  <2>1. /\ InFlight = <<>> /\ InFlight' = <<>>
        /\ UNCHANGED <<messages_, txn, rows, calls, errors, owner>>
    BY <1>5, <1>d, <1>e DEF Sleep, SleepInterrupted, BeginBatch, BaseBatch, shared, database
  <2> QED
    BY <1>a, <2>1, StutterStep DEF Places
<1>6. CASE SwapQueue
  <2>1. InFlight = <<>> /\ UNCHANGED <<txn, rows, calls, errors, owner>> /\ messages_' = <<>>
    BY <1>6, <1>d DEF SwapQueue, database
  <2>2. InFlight' = messages_
    <3>1. CASE messages_ = <<>>
      BY <1>6, <1>e, <3>1 DEF SwapQueue
    <3>2. CASE messages_ # <<>>
      <4>1. InFlight' = SubSeq(messages_, 1, Len(messages_))
        BY <1>6, <3>2 DEF SwapQueue, InFlight
      <4> QED
        BY <1>b, <4>1, SubSeqFull
    <3> QED
      BY <3>1, <3>2
  <2> QED
    BY <1>a, <2>1, <2>2, StutterStep DEF Places
<1>7. CASE SaveMessage
  <2>1. /\ UNCHANGED <<messages_, rows, calls, errors, owner, batch>>
        /\ saved' = saved + 1 /\ txn' = Append(txn, batch[saved + 1])
        /\ wpc = "save" /\ wpc' = "point"
        /\ saved \in Nat /\ Len(batch) \in Nat /\ saved < Len(batch)
        /\ batch[saved + 1] \in Message
    BY <1>7 DEF SaveMessage, shared, TypeInv, TypeOK, SavesSomething
  <2>2. /\ Len(InFlight) = Len(batch) - saved
        /\ \A i \in 1..Len(InFlight) : InFlight[i] = batch[saved + i]
        /\ Len(InFlight') = Len(batch) - (saved + 1)
        /\ \A i \in 1..Len(InFlight') : InFlight'[i] = batch[(saved + 1) + i]
    <3>1. InFlightFacts /\ InFlightFacts'
      BY InFlightDef, PTL
    <3> QED
      BY <2>1, <3>1 DEF InFlightFacts
  <2>3. Range(InFlight) = {batch[saved + 1]} \cup Range(InFlight')
    <3>1. Len(InFlight) = Len(InFlight') + 1 /\ InFlight[1] = batch[saved + 1]
      BY <2>1, <2>2
    <3>2. \A i \in 1..Len(InFlight') : InFlight'[i] = InFlight[i + 1] /\ i + 1 \in 1..Len(InFlight)
      BY <2>1, <2>2, SMTT(30)
    <3>3. \A i \in 1..Len(InFlight) : i = 1 \/ (i - 1 \in 1..Len(InFlight') /\ InFlight[i] = InFlight'[i - 1])
      BY <2>1, <2>2
    <3>4. DOMAIN InFlight = 1..Len(InFlight) /\ DOMAIN InFlight' = 1..Len(InFlight')
      BY <1>b, LenProperties
    <3>5. 1 \in 1..Len(InFlight)
      BY <2>1, <3>1, <2>2
    <3>6. Range(InFlight') \subseteq Range(InFlight) /\ batch[saved + 1] \in Range(InFlight)
      BY <3>1, <3>2, <3>4, <3>5 DEF Range
    <3>7. Range(InFlight) \subseteq {batch[saved + 1]} \cup Range(InFlight')
      BY <3>1, <3>3, <3>4 DEF Range
    <3> QED
      BY <3>6, <3>7
  <2>4. Range(txn') = Range(txn) \cup {batch[saved + 1]}
    BY <1>b, <2>1, RangeConcat
  <2>5. Places' = Places
    BY <2>1, <2>3, <2>4 DEF Places
  <2> QED
    BY <1>a, <2>1, <2>5, StutterStep
<1>8. CASE InterruptionPoint
  <2>1. UNCHANGED <<messages_, txn, rows, calls, errors, owner, batch, saved>>
    BY <1>8 DEF InterruptionPoint, shared, database
  <2>2. InFlight' = InFlight
    <3>1. CASE saved < Len(batch)
      BY <1>8, <2>1, <3>1, InFlightSame DEF InterruptionPoint
    <3>2. CASE ~(saved < Len(batch))
      <4>1. InFlight' = <<>>
        BY <1>8, <1>e, <3>2 DEF InterruptionPoint
      <4>2. wpc = "point" /\ saved \in Nat /\ Len(batch) \in Nat /\ saved = Len(batch)
        BY <1>8, <3>2 DEF InterruptionPoint, TypeInv, TypeOK
      <4>3. Len(InFlight) = 0
        BY <4>2, InFlightDef DEF InFlightFacts
      <4>4. InFlight = <<>>
        BY <1>b, <4>3, EmptySeq
      <4> QED
        BY <4>1, <4>4
    <3> QED
      BY <3>1, <3>2
  <2> QED
    BY <1>a, <2>1, <2>2, StutterStep DEF Places
<1>9. CASE EndBatch
  <2>1. /\ UNCHANGED <<messages_, calls, errors, owner>> /\ txn' = <<>>
        /\ rows' = rows \o txn /\ InFlight = <<>> /\ InFlight' = <<>> /\ owner # "gone"
    BY <1>9, <1>d, <1>e, <1>g DEF EndBatch, shared
  <2>2. Range(rows') = Range(rows) \cup Range(txn) /\ accepted' = accepted
    BY <1>f, <2>1 DEF accepted
  <2>3. Places' = Places
    BY <1>c, <2>1, <2>2 DEF Places
  <2>4. Lost' = Lost
    BY <1>a, <2>2, <2>3 DEF PlaceFacts
  <2>5. Range(txn) \in SUBSET Store!Pending /\ Store!InOrder(Range(txn))
    BY <1>a DEF PlaceFacts, Places, Store!Pending, Store!InOrder
  <2>6. Store!Commit(Range(txn))
    BY <2>1, <2>2, <2>4, <2>5 DEF Store!Commit
  <2> QED
    BY <2>5, <2>6 DEF Store!Next
<1>10. CASE BeginBatchFails \/ SaveFails \/ InterruptSwallowed \/ EndBatchFails
  <2>1. /\ UNCHANGED <<messages_, calls, owner>> /\ errors' = errors + 1
        /\ InFlight' = <<>> /\ owner # "gone"
    BY <1>10, <1>e, <1>g
       DEF BeginBatchFails, SaveFails, InterruptSwallowed, EndBatchFails,
           DatabaseFails, LogError, shared
  <2>2. \/ txn' = txn /\ rows' = rows
        \/ txn' = <<>> /\ rows' \in {rows, rows \o txn}
    BY <1>10
       DEF BeginBatchFails, SaveFails, InterruptSwallowed, EndBatchFails,
           TerminateConnection, database
  <2>3. Range(rows') \in {Range(rows), Range(rows) \cup Range(txn)}
    BY <1>f, <2>2
  <2>4. Places' \subseteq Places
    BY <1>c, <2>1, <2>2, <2>3 DEF Places
  <2> QED
    BY <1>a, <2>1, <2>3, <2>4, FailStep
<1>11. CASE ConstructorThrows
  <2>1. /\ InFlight' = InFlight /\ UNCHANGED <<messages_, txn, rows, calls, errors>>
        /\ owner # "gone" /\ owner' # "gone"
    <3>1. <<>> \o <<>> = <<>>
      BY ConcatEmptySeq, EmptySeq
    <3> QED
      BY <1>11, <3>1, InFlightSame
         DEF ConstructorThrows, TerminateConnection, LifeInv, NothingTaken, shared, worker
  <2> QED
    BY <1>a, <2>1, StutterStep DEF Places
<1>12. CASE DestroyJoin
  <2>1. /\ owner # "gone" /\ owner' = "gone" /\ InFlight = <<>> /\ InFlight' = <<>>
        /\ messages_ = <<>> /\ messages_' = <<>> /\ calls' = calls /\ errors' = errors
        /\ UNCHANGED <<txn, rows>>
    BY <1>12, <1>d, <1>e DEF DestroyJoin, LifeInv, NothingTaken, worker, database
  <2>2. accepted = {} /\ accepted' = {}
    BY <1>12, <2>1 DEF DestroyJoin, LifeInv, NothingTaken, accepted
  <2>3. Lost = {} /\ Lost' = {} /\ Store!Pending = {}
    BY <2>2 DEF Lost, Store!Pending
  <2>4. {} \in SUBSET Store!Pending /\ Store!InOrder({})
    BY DEF Store!InOrder
  <2>5. Store!Close({})
    BY <2>1, <2>2, <2>3, <2>4 DEF Store!Close
  <2> QED
    BY <2>4, <2>5 DEF Store!Next
<1> QED
  BY <1>1, <1>2, <1>3, <1>4, <1>5, <1>6, <1>7, <1>8, <1>9, <1>10, <1>11, <1>12
     DEF Next, Io, Owner, Worker, Backend, Loop, Terminated

\* The backend keeps AbstractStore's promise for every capacity of the queue
\* and every pattern of database failures: an accepted message is committed in
\* order, or lost with a logged error or at the destruction of the backend.
THEOREM BackendImplementsStore == Spec => ImplementsAbstractStore
<1>1. Init => TypeInv /\ OrderInv /\ LifeInv
  BY InitTypeInv, InitOrderInv, InitLifeInv
<1>2. TypeInv /\ OrderInv /\ LifeInv /\ [Next]_vars => (TypeInv /\ OrderInv /\ LifeInv)'
  BY NextTypeInv, NextOrderInv, NextLifeInv
<1>3. (TypeInv /\ OrderInv /\ LifeInv) /\ (TypeInv /\ OrderInv /\ LifeInv)' /\ [Next]_vars
          => [Store!Next]_(Store!vars)
  BY NextRefines
<1> QED
  BY <1>1, <1>2, <1>3, InitRefines, PTL DEF Spec, Store!Spec, ImplementsAbstractStore
=============================================================================
