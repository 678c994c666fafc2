--------------------------- MODULE MCPlanApproval ---------------------------
(* Small instances of PlanApproval for TLC. *)
EXTENDS PlanApproval, TLC

CONSTANTS r1, r2

Of(op, own, ours, dest) == [op |-> op, own |-> own, ours |-> ours, dest |-> dest]

InboundTransfer == Of("transfer", TRUE, TRUE, TRUE)
InboundRelease == Of("release", TRUE, TRUE, TRUE)
OthersTransfer == Of("transfer", FALSE, TRUE, TRUE)
Hold == Of("hold", TRUE, FALSE, TRUE)
BareHold == Of("hold", TRUE, FALSE, FALSE)
Await == Of("await", TRUE, FALSE, FALSE)

\* The plans: one or two instructions of the kinds that are treated differently, and a
\* contract without an asset leg.
SmallPlans ==
    [leg : {TRUE}, instructions : {
        <<InboundTransfer>>, <<OthersTransfer>>, <<Await>>,
        <<InboundRelease, BareHold>>, <<Hold, InboundRelease>> }]
    \cup [leg : {FALSE}, instructions : {<< >>}]

\* Everything there, or one part missing.
Complete == [client |-> TRUE, hook |-> TRUE, plugin |-> TRUE, verifies |-> TRUE, oneKey |-> TRUE]
SomeSetups == {Complete, [Complete EXCEPT !.client = FALSE], [Complete EXCEPT !.hook = FALSE],
               [Complete EXCEPT !.plugin = FALSE],
               [Complete EXCEPT !.verifies = FALSE, !.oneKey = FALSE]}

Symmetric == Permutations(Requests)
=============================================================================
