---------------------------- MODULE MCMigrations ----------------------------
(***************************************************************************)
(* Two replicas of the new version, with two files, and one of the old     *)
(* version, with the first of them; two faults anywhere.                   *)
(***************************************************************************)
EXTENDS Migrations, TLC

CONSTANTS old, new1, new2

MCReplicas == {old, new1, new2}
MCFiles == {1, 2}
MCEmbedded == (old :> {1}) @@ (new1 :> {1, 2}) @@ (new2 :> {1, 2})

=============================================================================
