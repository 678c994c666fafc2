---------------------------- MODULE MCWorkflows ----------------------------
(* Small instances of Workflows for TLC. *)
EXTENDS Workflows, TLC

CONSTANTS c1, c2, q1, k1, k2, issue, hold

\* Every request is of one method; another may have none.
OneMethod == [q \in Requests |-> issue]

\* Correlation ids are interchangeable, and so are the calls being served.
Symmetric == Permutations(Cids) \cup Permutations(Calls)
=============================================================================
