------------------------- MODULE MCSecretMigration -------------------------
(* An instance of SecretMigration for TLC.                                 *)
EXTENDS SecretMigration
=============================================================================
