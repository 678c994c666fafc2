---------------------------- MODULE AtomicLedger ----------------------------
(***************************************************************************)
(* What LedgerStorage promises the services: a transaction moves its funds *)
(* in one step or not at all, and once per idempotency key.                *)
(***************************************************************************)
EXTENDS Integers

CONSTANTS Accounts, Keys, Ops, NoTx

VARIABLES
    balance,  \* what each account holds
    held,     \* the part of it that is on hold
    journal   \* the transaction of each idempotency key, NoTx while there is none

vars == <<balance, held, journal>>

\* What an operation moves to an account, and what it puts on hold there.
Moved(op, a) == (IF a = op.destination THEN op.amount ELSE 0) - (IF a = op.source THEN op.amount ELSE 0)
Kept(op, a)  == IF a = op.source THEN op.hold ELSE 0

NewBalance(op, a) == balance[a] + Moved(op, a)
NewHeld(op, a)    == held[a] + Kept(op, a)

Init ==
    /\ balance = [a \in Accounts |-> 0]
    /\ held = [a \in Accounts |-> 0]
    /\ journal = [k \in Keys |-> NoTx]

\* All of the transaction, if it leaves no account short.
Apply(k, op) ==
    /\ journal[k] = NoTx
    /\ journal' = [journal EXCEPT ![k] = op]
    /\ \A a \in Accounts : 0 <= NewHeld(op, a) /\ NewHeld(op, a) <= NewBalance(op, a)
    /\ balance' = [a \in Accounts |-> NewBalance(op, a)]
    /\ held' = [a \in Accounts |-> NewHeld(op, a)]

Next == \E k \in Keys, op \in Ops : Apply(k, op)

Spec == Init /\ [][Next]_vars
=============================================================================
