-------------------------- MODULE MCGuardianClient --------------------------
(* Small instances of GuardianClient for TLC.                               *)
EXTENDS GuardianClient
=============================================================================
