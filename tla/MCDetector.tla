----------------------------- MODULE MCDetector -----------------------------
(***************************************************************************)
(* The instance of Detector that TLC checks.                               *)
(***************************************************************************)
EXTENDS Detector

CONSTANTS a, b
=============================================================================
