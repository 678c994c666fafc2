------------------------------ MODULE Registry ------------------------------
(***************************************************************************)
(* What the operation layer promises its callers: every accepted request   *)
(* gets one operation, an operation gets at most one outcome, and whatever *)
(* is told about an operation is that outcome.  No process, no crash and   *)
(* no recovery: Workflows shows that they cannot be seen from outside when *)
(* clients wait for recovery to have read the table.                       *)
(***************************************************************************)
CONSTANTS
    Requests, Cids,
    Outcomes,
    None        \* neither a request nor an outcome

VARIABLES
    request,   \* the request of each operation, None while there is no operation
    outcome,   \* its outcome, None while it is pending
    told       \* the outcomes told to the router so far

vars == <<request, outcome, told>>

Init ==
    /\ request = [c \in Cids |-> None]
    /\ outcome = [c \in Cids |-> None]
    /\ told = {}

\* A request seen for the first time gets an operation.
Accept(c, r) ==
    /\ request[c] = None
    /\ \A d \in Cids : request[d] # r
    /\ request' = [request EXCEPT ![c] = r]
    /\ UNCHANGED <<outcome, told>>

\* A pending operation gets its one outcome.
Settle(c, o) ==
    /\ request[c] # None
    /\ outcome[c] = None
    /\ outcome' = [outcome EXCEPT ![c] = o]
    /\ UNCHANGED <<request, told>>

\* The outcome is told, as often as it is asked for.
Tell(c) ==
    /\ outcome[c] # None
    /\ told' = told \cup {<<c, outcome[c]>>}
    /\ UNCHANGED <<request, outcome>>

Next ==
    \E c \in Cids :
        \/ \E r \in Requests : Accept(c, r)
        \/ \E o \in Outcomes : Settle(c, o)
        \/ Tell(c)

Spec == Init /\ [][Next]_vars
=============================================================================
