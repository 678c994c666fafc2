------------------------------ MODULE MCLedger ------------------------------
(* Small instances of Ledger for TLC. *)
EXTENDS Ledger, TLC

CONSTANTS a1, a2, p1, p2

Request(k, op) == [key |-> k, op |-> op]

\* Funds come in, are held, moved and paid out; one key is used for two
\* operations, as nothing ties a key to a method.
Mixed == {
    Request("issue", Credit(a1, 2)),
    Request("hold", Lock(a1, 1)),
    Request("settle", UnlockAndMove(a1, a2, 1)),
    Request("settle", UnlockAndDebit(a1, 1)),
    Request("rollback", Unlock(a1, 1)),
    Request("pay", Move(a1, a2, 1)) }

Symmetric == Permutations(Clients)
=============================================================================
