-------------------------- MODULE MCNamespaceCache --------------------------
(***************************************************************************)
(* Instances of NamespaceCache.tla for TLC.                                *)
(***************************************************************************)
EXTENDS NamespaceCache, TLC

CONSTANTS cached, plain   \* the namespaces

\* The namespace "cached" is cached for a second, the other is not.
Seconds == [n \in Namespace |-> IF n = cached THEN 1 ELSE 0]

Interchangeable == Permutations(Scrape)
=============================================================================
