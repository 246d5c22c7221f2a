----------------------------- MODULE MCLifecycle ----------------------------
(***************************************************************************)
(* The instances of Lifecycle that TLC checks.                             *)
(***************************************************************************)
EXTENDS Lifecycle
=============================================================================
