-------------------------- MODULE MCSampleAdapter --------------------------
(* Small instances of SampleAdapter for TLC. *)
EXTENDS SampleAdapter, TLC

CONSTANTS r1, r2, r3, r4, c1, c2, c3

\* Requests about two accounts and one hold: quantities "2.5" and "0.5", of which the
\* latter comes to nothing.  A hold is repeated, made for less and by another, and it is
\* settled for what it holds, for less, and by another.
SomeAsked ==
    LET Of(kind, source, destination, quantity, operationId) ==
            [kind |-> kind, source |-> source, destination |-> destination, quantity |-> quantity,
             operationId |-> operationId, pc |-> "due"]
    IN  {Of("createAsset", "none", "none", 0, "none"),
         Of("issue", "none", "alice", 3, "none"),
         Of("transfer", "alice", "bob", 3, "none"), Of("transfer", "bob", "alice", 1, "none"),
         Of("redeem", "alice", "none", 3, "none")}
        \cup {Of("hold", "alice", "none", n, "op") : n \in {1, 3}}
        \cup {Of("release", "alice", "bob", n, "op") : n \in {1, 3}}
        \cup {Of("rollback", "bob", "none", n, "op") : n \in {1, 3}}
        \cup {Of(kind, "bob", "none", 3, "op") : kind \in {"hold", "redeem"}}
        \cup {Of("release", "bob", "alice", 3, "op")}

\* A value as it is and in lower case, in one field or in both.
SomeSaves ==
    LET Value(lower) == [name |-> "x", lower |-> lower] IN
    {[account |-> Value(FALSE)], [account |-> Value(TRUE), network |-> Value(FALSE)]}

Symmetry == Permutations({r1, r2, r3, r4}) \cup Permutations({c1, c2, c3})
=============================================================================
