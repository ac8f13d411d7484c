---------------------------- MODULE LedgerProofs ----------------------------
(***************************************************************************)
(* The ledger of module Ledger has no silent loss, for any records.        *)
(***************************************************************************)
EXTENDS Ledger, TLAPS

\* A system that keeps the ledger, as Communicator is checked to do, has at
\* any time every record a device made on that device, in the memory of the
\* server or in the table, or an incident accounts for it.
THEOREM Accounted == Spec => []NoSilentLoss
<1>1. Init => NoSilentLoss
  BY DEF Init, NoSilentLoss
<1>2. NoSilentLoss /\ [Next]_vars => NoSilentLoss'
  <2> SUFFICES ASSUME NoSilentLoss, [Next]_vars
               PROVE  NoSilentLoss'
    OBVIOUS
  <2>1. ASSUME NEW r \in Entry, Make(r)
        PROVE  NoSilentLoss'
    BY <2>1 DEF NoSilentLoss, Make
  <2>2. ASSUME NEW r \in Entry, Take(r)
        PROVE  NoSilentLoss'
    BY <2>2 DEF NoSilentLoss, Take
  <2>3. CASE Commit
    BY <2>3 DEF NoSilentLoss, Commit
  <2>4. CASE Incident
    BY <2>4 DEF NoSilentLoss, Incident
  <2>5. CASE Forget
    BY <2>5 DEF NoSilentLoss, Forget
  <2>6. CASE UNCHANGED vars
    BY <2>6 DEF NoSilentLoss, vars
  <2> QED
    BY <2>1, <2>2, <2>3, <2>4, <2>5, <2>6 DEF Next
<1> QED
  BY <1>1, <1>2, PTL DEF Spec
=============================================================================
