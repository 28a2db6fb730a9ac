------------------------------- MODULE MCBoot -------------------------------
(* Boot for TLC: three instances, this release and an imagined next one,   *)
(* which brings one more migration that bumps the version.                 *)
EXTENDS Boot, TLC

CONSTANTS e1, e2, e3

MCTables == TerminalTables \cup {"engine_idempotency_cache"}
MCReleases == {1, 2}
MCLastMigration == 1 :> 4 @@ 2 :> 5
MCRequired == 1 :> 1 @@ 2 :> 2

\* 0003 only writes comments; 0004 writes the marker.
MCCreated == 1 :> TerminalTables @@ 2 :> {"engine_idempotency_cache"}
             @@ 3 :> {} @@ 4 :> {} @@ 5 :> {}
MCSetsVersion == 1 :> 0 @@ 2 :> 0 @@ 3 :> 0 @@ 4 :> 1 @@ 5 :> 2

\* An empty database, TransityTerminal's, and one with other seat holds.
Database(inventory, holds) ==
  [t \in MCTables |-> CASE t = "seat_inventory" -> inventory
                        [] t = "seat_holds" -> holds
                        [] OTHER -> "absent"]
MCSchemas == {Database("absent", "absent"), Database("expected", "expected"),
              Database("expected", "other")}
=============================================================================
