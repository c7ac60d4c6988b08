------------------------------ MODULE MCAuditLog ------------------------------
(* Small instances of AuditLog.  Loggers, sinks and the contents of        *)
(* records are told apart only by being different.                         *)
EXTENDS AuditLog, TLC

Interchangeable == Permutations(Loggers) \cup Permutations(Sinks) \cup Permutations(Bodies)
=============================================================================
