---------------------------- MODULE MCConnection ----------------------------
(* Small instances of Connection for TLC.                                  *)
EXTENDS Connection

CONSTANTS r1, r2

\* max_msgs by request: r1 asks for a single message, r2 for all of them.
Limited == [r \in Requests |-> IF r = r1 THEN 1 ELSE None]
Unlimited == [r \in Requests |-> None]

=============================================================================
