---------------------------- MODULE AbstractStore ----------------------------
(***************************************************************************)
(* What a storage backend promises to the protocol that feeds it: a        *)
(* message taken by add_message becomes durable, in the order in which it  *)
(* was taken, or is lost; and it is lost only when the backend logs an     *)
(* error or when the process gives the backend up.  A durable message      *)
(* stays durable, a lost one never reappears.                              *)
(*                                                                         *)
(* Messages are named by the number of the call that delivered them.       *)
(***************************************************************************)
EXTENDS Naturals

CONSTANT Message         \* the numbers of the calls

VARIABLES accepted,    \* messages add_message returned normally for
          durable,     \* messages committed to the table
          lost,        \* messages that will never be committed
          errors,      \* error lines the backend wrote to the log
          serving      \* FALSE once the backend object is gone

vars == <<accepted, durable, lost, errors, serving>>

Pending == accepted \ (durable \cup lost)

Init == /\ accepted = {}
        /\ durable = {}
        /\ lost = {}
        /\ errors = 0
        /\ serving = TRUE

\* A new message is the last one taken.
Accept(m) == /\ serving
             /\ \A a \in accepted : a < m
             /\ accepted' = accepted \cup {m}
             /\ UNCHANGED <<durable, lost, errors, serving>>

\* Messages become durable in the order they were taken.
InOrder(S) == \A m \in S, d \in durable : d < m

Commit(S) == /\ serving
             /\ InOrder(S)
             /\ durable' = durable \cup S
             /\ UNCHANGED <<accepted, lost, errors, serving>>

\* One logged error may cost some messages and may leave others durable.
Fail(S, L) == /\ serving
              /\ InOrder(S)
              /\ errors' = errors + 1
              /\ durable' = durable \cup S
              /\ lost' = lost \cup L
              /\ UNCHANGED <<accepted, serving>>

\* The backend is given up: what is pending is settled one way or the other.
Close(S) == /\ serving
            /\ InOrder(S)
            /\ durable' = durable \cup S
            /\ lost' = lost \cup (Pending \ S)
            /\ serving' = FALSE
            /\ UNCHANGED <<accepted, errors>>

Next == \/ \E m \in Message : Accept(m)
        \/ \E S \in SUBSET Pending : Commit(S)
        \/ \E S \in SUBSET Pending : \E L \in SUBSET (Pending \ S) : Fail(S, L)
        \/ \E S \in SUBSET Pending : Close(S)

Spec == Init /\ [][Next]_vars
=============================================================================
