----------------------------- MODULE MCExamples -----------------------------
(* Small instance of Examples for TLC.                                     *)
EXTENDS Examples

\* The subscriber's limit.
Limit == [r \in Requests |-> 2]

=============================================================================
