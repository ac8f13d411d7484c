------------------------------ MODULE MCServer ------------------------------
(***************************************************************************)
(* Server on small instances: the parameters and configuration files       *)
(* explored.                                                               *)
(***************************************************************************)
EXTENDS Server

Section(kind) == [has |-> Needed, kind |-> kind]
Without(o) == [has |-> Needed \ {o}, kind |-> "oracle"]

\* No section, another storage, an option missing in the first or in the
\* second section.
BadSections ==
    {<<>>, <<Section("redis")>>}
    \cup {<<Without(o)>> : o \in Needed}
    \cup {<<Section("oracle"), Without(o)>> : o \in Needed}

\* One of them goes into service, as a daemon: after daemonize the parameter
\* plays no part, and a second running one would double the states.
MCConfig ==
    {[param |-> "daemon", readable |-> TRUE, sections |-> <<Section("oracle"), Section("redis")>>],
     [param |-> "none", readable |-> FALSE, sections |-> <<>>],
     [param |-> "other", readable |-> TRUE, sections |-> <<Section("oracle")>>]}
    \cup {[param |-> "none", readable |-> TRUE, sections |-> s] : s \in BadSections}
=============================================================================
