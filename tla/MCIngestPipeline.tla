-------------------------- MODULE MCIngestPipeline --------------------------
(* Small instances of IngestPipeline for TLC.                              *)
EXTENDS IngestPipeline

CONSTANTS m1, m2, s1, s2

\* Two tenants, one hit each; and one tenant.
TwoStores == [m \in Message |-> IF m = m1 THEN s1 ELSE s2]
OneStore == [m \in Message |-> s1]

=============================================================================
