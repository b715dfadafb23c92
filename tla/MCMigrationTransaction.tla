----------------------- MODULE MCMigrationTransaction -----------------------
(* A small instance of MigrationTransaction: a kind of evidence before the *)
(* package, one of the package and one of the acceptance.                  *)
EXTENDS MigrationTransaction

MCRequired ==
  [s \in Stages |-> CASE s = "packaged" -> {"package_retained"}
                      [] s = "received_complete" -> {"destination_acceptance"}
                      [] OTHER -> {}]

=============================================================================
