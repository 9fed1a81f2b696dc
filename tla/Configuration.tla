--------------------------- MODULE Configuration ---------------------------
(***************************************************************************)
(* The connection tables of class Configuration, as the repository ships   *)
(* them.  The development is parameterised by these tables (module         *)
(* Connections); the MC modules give it the values below, so TLC evaluates *)
(* the assumptions the proofs rest on for them.  A QStringList whose order *)
(* only matters for printing is a set.                                     *)
(***************************************************************************)

\* The keys of the hash of connection configurations; drivers, hosts and
\* credentials are the libraries' concern and are left out.
ShippedConfigurations ==
  { "mysql", "mysql_alt", "mysql_mainthread", "mysql_laravel8", "sqlite",
    "sqlite_memory", "sqlite_check_exists_true", "sqlite_check_exists_false",
    "postgres" }

\* All countable connections.
ShippedCountableConnections ==
  { "mysql", "mysql_alt", "mysql_mainthread", "sqlite", "sqlite_memory",
    "postgres" }

\* Connections that can run in a thread.
ShippedRemovableConnections == { "mysql", "sqlite", "postgres" }

\* A connection and the connections a thread that tests it needs.
ShippedConnectionsMap == [c \in { "mysql" } |-> { "mysql", "mysql_alt" }]

\* A real connection and the tested connection it belongs to.
ShippedConnectionsMapReverse == [c \in { "mysql", "mysql_alt" } |-> "mysql"]

=============================================================================
