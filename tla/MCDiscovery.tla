----------------------------- MODULE MCDiscovery -----------------------------
(***************************************************************************)
(* Small instances of Discovery for TLC.                                   *)
(***************************************************************************)
EXTENDS Discovery

CONSTANTS a, b

\* The answer of a fits the buffer; that of b, whose identity is longer, does not.
MCLength == [m \in Members |-> IF m = a THEN 24 ELSE 1100]
MCTableSize == [m \in Members |-> 3]
=============================================================================
