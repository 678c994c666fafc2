-------------------------- MODULE MCVanillaService --------------------------
(* Small instances of VanillaService for TLC. *)
EXTENDS VanillaService, TLC

CONSTANTS a1, a2, p1, p2

Job(method, src, dst, n, o) ==
    [method |-> method, source |-> src, destination |-> dst, amount |-> n, operation |-> o]

Issue == Job("issue", None, a1, 3, None)
Hold == Job("hold", a1, None, 2, "o1")
Release == Job("release", a1, a2, 1, "o1")
Payout == Job("payout", a1, None, 1, None)
Parts == {Release, Job("rollback", a1, None, 1, "o1"), Job("redeem", a1, None, 1, "o1")}
Others == {Job("transfer", a1, a2, 1, None), Job("redeem", a1, None, 1, None)}
AllJobs == {Issue, Hold, Payout} \cup Parts \cup Others

\* Anything fails, the delegate changes its mind, statements outlive the process.
Rough == [outbound |-> TRUE, escrow |-> FALSE, steadfast |-> FALSE, outlives |-> TRUE,
          faults |-> TRUE, jobs |-> {Issue, Hold, Payout}]

\* Steadfast delegates and nothing worse than the process being killed: parts of a hold
\* are released, given back and redeemed while a payout wants the same funds.
Delegated == [outbound |-> TRUE, escrow |-> TRUE, steadfast |-> TRUE, outlives |-> FALSE,
              faults |-> FALSE, jobs |-> {Issue, Hold, Payout} \cup Parts]

\* No delegates: a payout fails, everything else is of this ledger.
Local == [outbound |-> FALSE, escrow |-> FALSE, steadfast |-> TRUE, outlives |-> FALSE,
          faults |-> FALSE, jobs |-> {Issue, Hold, Release, Payout} \cup Others]

AllSetups == {Rough, Delegated, Local}

Symmetric == Permutations(Clients)
=============================================================================
