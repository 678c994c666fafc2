--------------------------- MODULE MCDistribution ---------------------------
(* Small instances of Distribution for TLC. *)
EXTENDS Distribution, TLC

CONSTANTS a1, a2, c1, c2, c3, c4, omni

TwoInvestors == <<a1, a2>>

Offer(call, account, n) == [call |-> call, account |-> account, amount |-> n]

\* Both investors are issued funds, one gets more from the pool and gives some
\* back, has some on hold; the pool is synced and everybody is flushed.
Everything == {
    Offer("sync", omni, 1),
    Offer("flush", omni, 1),
    Offer("distribute", a1, 2),
    Offer("distribute", omni, 1),
    Offer("reclaim", a1, 1),
    Offer("issue", a1, 1),
    Offer("issue", a2, 1),
    Offer("hold", a1, 1) }

\* The pool is synced and distributed.
Pool == {Offer("sync", omni, 1), Offer("distribute", a1, 2)}

Symmetric == Permutations(Calls)
=============================================================================
