------------------------------- MODULE Ledger -------------------------------
(***************************************************************************)
(* What the whole server owes the owner of the vehicles.  A record is on   *)
(* the device that made it, in the server's memory, or in the table; it    *)
(* may be in several of these places.  The device gives its copy up only   *)
(* when the server has taken the record, and the server loses what it took *)
(* only in an incident: an error it logged, or a crash.                    *)
(***************************************************************************)
EXTENDS Naturals

CONSTANT Entry          \* all records there can be

VARIABLES made,        \* records the devices have made
          kept,        \* records still on their device
          held,        \* records in the server's memory
          table,       \* records in the database
          dropped,     \* records an incident cost the server
          incidents    \* incidents so far

vars == <<made, kept, held, table, dropped, incidents>>

Init == /\ made = {} /\ kept = {} /\ held = {} /\ table = {} /\ dropped = {}
        /\ incidents = 0

Make(r) == /\ r \notin made
           /\ made' = made \cup {r} /\ kept' = kept \cup {r}
           /\ UNCHANGED <<held, table, dropped, incidents>>

\* The server takes a record, perhaps once more.
Take(r) == /\ r \in made
           /\ held' = held \cup {r}
           /\ UNCHANGED <<made, kept, table, dropped, incidents>>

\* What leaves the memory is in the table.
Commit == /\ held' \subseteq held
          /\ table \subseteq table' /\ table' \subseteq table \cup held
          /\ held \subseteq held' \cup table'
          /\ UNCHANGED <<made, kept, dropped, incidents>>

\* In an incident it may be in neither place.
Incident == /\ incidents' = incidents + 1
            /\ held' \subseteq held
            /\ table \subseteq table' /\ table' \subseteq table \cup held
            /\ dropped \subseteq dropped' /\ dropped' \subseteq dropped \cup held
            /\ held \subseteq held' \cup table' \cup dropped'
            /\ UNCHANGED <<made, kept>>

\* The device forgets what the server has taken.
Forget == /\ kept' \subseteq kept
          /\ kept \subseteq kept' \cup held \cup table \cup dropped
          /\ UNCHANGED <<made, held, table, dropped, incidents>>

Next == \/ \E r \in Entry : Make(r) \/ Take(r)
        \/ Commit \/ Incident \/ Forget

Spec == Init /\ [][Next]_vars

\* Every record is somewhere, or an incident cost it.
NoSilentLoss == made \subseteq kept \cup held \cup table \cup dropped
=============================================================================
