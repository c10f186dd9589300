----------------------------- MODULE MCExporter -----------------------------
(***************************************************************************)
(* Instances of Exporter.tla for TLC.                                      *)
(***************************************************************************)
EXTENDS Exporter, TLC

CONSTANTS d1, d2, bad   \* the DSNs

\* d1 leads to the other databases of its instance: d2, and one whose name
\* makes a DSN that is not accepted.
Lists == [d \in Configured |-> IF d = d1 THEN DSN \ {d1} ELSE {}]
=============================================================================
