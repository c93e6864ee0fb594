-------------------------- MODULE MCDiagnosticLog --------------------------
(* Small instances of DiagnosticLog for TLC. *)
EXTENDS DiagnosticLog, FiniteSets

\* Bound: a third batch on its way goes no further.
FewOnTheirWay == Cardinality(sent) < 3
=============================================================================
