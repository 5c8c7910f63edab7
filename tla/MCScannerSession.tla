--------------------------- MODULE MCScannerSession ---------------------------
(* Model checking of ScannerSession.                                        *)
EXTENDS ScannerSession

\* The variables keep to their types, one exchange goes on at a time and the owner
\* of the command lock registered it, and no thread outlives the runtime.
NothingRunsOn == []TypeOK /\ ThreadsEnd

=============================================================================
