------------------------------- MODULE Ledger -------------------------------
(***************************************************************************)
(* LedgerStorage of the vanilla service: the accounts and transactions     *)
(* tables in Postgres and the one statement, transfer, that credit, debit, *)
(* lock, unlock, move, unlockAndMove and unlockAndDebit all come down to.  *)
(*                                                                         *)
(* The statement runs under READ COMMITTED.  Its snapshot, taken when it   *)
(* starts and before it asks for the advisory lock, decides what found_tx  *)
(* finds and which account rows the two UPDATEs see; the UPDATEs then work *)
(* on the latest version of those rows.  So a statement is two steps, the  *)
(* snapshot and the commit, and others may commit between them, whether or *)
(* not the plan takes the advisory lock.                                   *)
(*                                                                         *)
(* Accounts are those of one asset.  Definitions marked (Slip) are not     *)
(* part of the model: each is the definition that follows it with one      *)
(* mistake in it, and makes a property fail when put in its place.         *)
(***************************************************************************)
EXTENDS Integers, Functions

CONSTANTS
    Accounts,       \* the fin ids
    Keys,           \* the idempotency keys
    Clients,        \* who may have a statement in flight
    None,           \* no source or no destination
    NoTx,           \* no transaction
    Amounts,        \* the amounts services move
    Requests,       \* the calls services make: a key and an operation each
    AccountsFirst,  \* whether callers may, and may not, open both accounts before they move funds
    MaxFaults,      \* bound: how many statements or answers are lost
    MaxFunds        \* bound: what CommitPart may bring an account to

VARIABLES
    accountsFirst,  \* TRUE when callers open both accounts first
    opened,   \* the accounts that have a row
    balance,  \* their balances
    held,     \* the part of each balance that is on hold
    journal,  \* the transactions table, by idempotency key
    stmts,    \* the transfer statements in flight
    answers,  \* the transactions returned to callers
    refused,  \* the kinds of error thrown to callers
    faults

vars == <<accountsFirst, opened, balance, held, journal, stmts, answers, refused, faults>>
tables == <<opened, balance, held, journal>>

ASSUME LedgerAssumption ==
    /\ None \notin Accounts
    /\ Amounts \subseteq Nat
    /\ AccountsFirst \subseteq BOOLEAN
    /\ MaxFaults \in Nat
    /\ MaxFunds \in Nat

-----------------------------------------------------------------------------
(* The operations: what each method of LedgerStorage passes to transfer *)

Op(src, dst, amount, hold) ==
    [source |-> src, destination |-> dst, amount |-> amount, hold |-> hold]

Credit(dst, n)             == Op(None, dst, n, 0)
Debit(src, n)              == Op(src, None, n, 0)
Lock(src, n)               == Op(src, None, 0, n)
Unlock(src, n)             == Op(src, None, 0, -n)
Move(src, dst, n)          == Op(src, dst, n, 0)
UnlockAndMove(src, dst, n) == Op(src, dst, n, -n)
UnlockAndDebit(src, n)     == Op(src, None, n, -n)

\* move and unlockAndMove throw before they reach the database when source and
\* destination are the same.
Pairs == {p \in Accounts \X Accounts : p[1] # p[2]}

Ops ==
    {Credit(a, n) : a \in Accounts, n \in Amounts}
    \cup {Debit(a, n) : a \in Accounts, n \in Amounts}
    \cup {Lock(a, n) : a \in Accounts, n \in Amounts}
    \cup {Unlock(a, n) : a \in Accounts, n \in Amounts}
    \cup {UnlockAndDebit(a, n) : a \in Accounts, n \in Amounts}
    \cup {Move(p[1], p[2], n) : p \in Pairs, n \in Amounts}
    \cup {UnlockAndMove(p[1], p[2], n) : p \in Pairs, n \in Amounts}

ASSUME RequestsAssumption ==
    /\ Requests \subseteq [key : Keys, op : Ops]
    /\ NoTx \notin Ops

\* The accounts an operation names.
Parties(op) == {op.source, op.destination} \ {None}

-----------------------------------------------------------------------------
(* A statement in flight *)

NoStmt == [pc |-> "none"]
Errors == {"account not found", "insufficient balance", "duplicate key"}

\* The request, and what the snapshot shows: the transaction of the same key, if
\* any, and the account rows.
Running == [pc : {"running"}, key : Keys, op : Ops, found : Ops \cup {NoTx},
            seen : SUBSET Accounts]

\* The rows src_upd and dst_upd find.
Found(p) == Parties(stmts[p].op) \cap stmts[p].seen

\* What an operation moves to an account, and what it puts on hold there.
Moved(op, a) == (IF a = op.destination THEN op.amount ELSE 0) - (IF a = op.source THEN op.amount ELSE 0)
Kept(op, a)  == IF a = op.source THEN op.hold ELSE 0

NewBalance(op, a) == balance[a] + Moved(op, a)
NewHeld(op, a)    == held[a] + Kept(op, a)

\* (Slip: nothing checks that what is held is there.)
CoveredLoosely(op, rows) ==
    \A a \in rows : 0 <= NewHeld(op, a) /\ 0 <= NewBalance(op, a)

\* The CHECK constraints of the accounts table on the rows updated.
Covered(op, rows) ==
    \A a \in rows : 0 <= NewHeld(op, a) /\ NewHeld(op, a) <= NewBalance(op, a)

\* The two UPDATEs, on those of the rows that the snapshot has.
UpdateRows(op, rows) ==
    /\ balance' = [a \in Accounts |-> IF a \in rows THEN NewBalance(op, a) ELSE balance[a]]
    /\ held' = [a \in Accounts |-> IF a \in rows THEN NewHeld(op, a) ELSE held[a]]

Init ==
    /\ accountsFirst \in AccountsFirst
    /\ opened = {}
    /\ balance = [a \in Accounts |-> 0]
    /\ held = [a \in Accounts |-> 0]
    /\ journal = [k \in Keys |-> NoTx]
    /\ stmts = [p \in Clients |-> NoStmt]
    /\ answers = {}
    /\ refused = {}
    /\ faults = 0

-----------------------------------------------------------------------------
(* Actions *)

\* ensureAccount: a row with nothing in it, unless there is one.
EnsureAccount(a) ==
    /\ opened' = opened \cup {a}
    /\ accountsFirst' = accountsFirst /\ UNCHANGED <<balance, held, journal, stmts, answers, refused, faults>>

\* A statement starts: its snapshot is taken.
Begin(p, r) ==
    /\ stmts[p] = NoStmt
    /\ accountsFirst => Parties(r.op) \subseteq opened
    /\ stmts' = [stmts EXCEPT ![p] =
            [pc |-> "running", key |-> r.key, op |-> r.op, found |-> journal[r.key],
             seen |-> opened]]
    /\ accountsFirst' = accountsFirst /\ UNCHANGED <<tables, answers, refused, faults>>

Ends(p) ==
    /\ stmts[p].pc = "running"
    /\ stmts' = [stmts EXCEPT ![p] = NoStmt]
    /\ accountsFirst' = accountsFirst

Throws(why) == refused' = refused \cup {why}

\* (Slip: the UPDATEs do not ask whether found_tx has the key.)
ReturnFoundMoves(p) ==
    /\ Ends(p)
    /\ stmts[p].found # NoTx
    /\ Covered(stmts[p].op, Found(p))
    /\ UpdateRows(stmts[p].op, Found(p))
    /\ answers' = answers \cup {[key |-> stmts[p].key, tx |-> stmts[p].found]}
    /\ UNCHANGED <<opened, journal, refused, faults>>

\* found_tx has the key: nothing is updated and that transaction is returned.
ReturnFound(p) ==
    /\ Ends(p)
    /\ stmts[p].found # NoTx
    /\ answers' = answers \cup {[key |-> stmts[p].key, tx |-> stmts[p].found]}
    /\ UNCHANGED <<tables, refused, faults>>

\* (Slip: no unique index on the idempotency key.)
TransactsUnindexed(p) ==
    /\ Ends(p)
    /\ stmts[p].found = NoTx
    /\ Found(p) = Parties(stmts[p].op)
    /\ Covered(stmts[p].op, Found(p))
    /\ UpdateRows(stmts[p].op, Found(p))
    /\ journal' = [journal EXCEPT ![stmts[p].key] = stmts[p].op]
    /\ UNCHANGED opened

\* Both UPDATEs find their rows, the constraints and the unique index of the
\* idempotency key hold: the statement commits with its transaction.
Transacts(p) ==
    /\ Ends(p)
    /\ stmts[p].found = NoTx
    /\ Found(p) = Parties(stmts[p].op)
    /\ Covered(stmts[p].op, Found(p))
    /\ journal[stmts[p].key] = NoTx
    /\ UpdateRows(stmts[p].op, Found(p))
    /\ journal' = [journal EXCEPT ![stmts[p].key] = stmts[p].op]
    /\ UNCHANGED opened

\* The caller gets the transaction ...
Commit(p) ==
    /\ Transacts(p)
    /\ answers' = answers \cup {[key |-> stmts[p].key, tx |-> stmts[p].op]}
    /\ UNCHANGED <<refused, faults>>

\* ... or its connection or its process is lost after the commit.
CommitUnheard(p) ==
    /\ Transacts(p)
    /\ faults < MaxFaults
    /\ faults' = faults + 1
    /\ UNCHANGED <<answers, refused>>

\* A party of the operation has no row in the snapshot: insert_tx inserts nothing
\* and transfer throws, but the UPDATE of the other party has been committed.
CommitPart(p) ==
    /\ Ends(p)
    /\ stmts[p].found = NoTx
    /\ Found(p) # Parties(stmts[p].op)
    /\ Covered(stmts[p].op, Found(p))
    /\ \A a \in Found(p) : NewBalance(stmts[p].op, a) <= MaxFunds
    /\ UpdateRows(stmts[p].op, Found(p))
    /\ Throws("account not found")
    /\ UNCHANGED <<opened, journal, answers, faults>>

\* A CHECK constraint fails: nothing is done and transfer throws.
Short(p) ==
    /\ Ends(p)
    /\ stmts[p].found = NoTx
    /\ ~Covered(stmts[p].op, Found(p))
    /\ Throws("insufficient balance")
    /\ UNCHANGED <<tables, answers, faults>>

\* A statement with the same key has committed since the snapshot: the unique
\* index refuses the second transaction, nothing is done and the error is thrown.
KeyTaken(p) ==
    /\ Ends(p)
    /\ stmts[p].found = NoTx
    /\ Found(p) = Parties(stmts[p].op)
    /\ journal[stmts[p].key] # NoTx
    /\ Throws("duplicate key")
    /\ UNCHANGED <<tables, answers, faults>>

\* A deadlock, or a connection or a process lost before the commit.
Aborts(p) ==
    /\ Ends(p)
    /\ faults < MaxFaults
    /\ faults' = faults + 1
    /\ UNCHANGED <<tables, answers, refused>>

Step(p) ==
    \/ ReturnFound(p) \/ Commit(p) \/ CommitUnheard(p) \/ CommitPart(p)
    \/ Short(p) \/ KeyTaken(p) \/ Aborts(p)

Next ==
    \/ \E a \in Accounts : EnsureAccount(a)
    \/ \E p \in Clients, r \in Requests : Begin(p, r)
    \/ \E p \in Clients : Step(p)

Spec == Init /\ [][Next]_vars

-----------------------------------------------------------------------------
(* Properties *)

\* What a snapshot shows stays there: a transaction does not change, an account
\* row is not removed, and a caller that opened the accounts finds both.
StmtsHonest ==
    \A p \in Clients : stmts[p].pc = "running" =>
        /\ stmts[p].found # NoTx => journal[stmts[p].key] = stmts[p].found
        /\ stmts[p].seen \subseteq opened
        /\ accountsFirst => Parties(stmts[p].op) \subseteq stmts[p].seen

\* Types, and every balance covers what is held of it.
TypeOK ==
    /\ accountsFirst \in BOOLEAN
    /\ opened \subseteq Accounts
    /\ balance \in [Accounts -> Nat]
    /\ held \in [Accounts -> Nat]
    /\ \A a \in Accounts : held[a] <= balance[a]
    /\ \A a \in Accounts \ opened : balance[a] = 0
    /\ journal \in [Keys -> Ops \cup {NoTx}]
    /\ stmts \in [Clients -> Running \cup {NoStmt}]
    /\ answers \subseteq [key : Keys, tx : Ops]
    /\ refused \subseteq Errors
    /\ faults \in 0..MaxFaults

\* A caller that was given a transaction for a key was given the one transaction
\* the table has, and will ever have, for that key: however many calls with the
\* key were in flight, and whatever answers were lost.
AnswersAreJournaled ==
    \A x \in answers : journal[x.key] = x.tx

\* The keys that have a transaction.
Done == {k \in Keys : journal[k] # NoTx}

\* For callers that open the accounts first, the accounts are what the transactions
\* table says: no funds move without a transaction, and none move twice for one.
JournalExplains ==
    accountsFirst => \A a \in Accounts :
        /\ balance[a] = SumFunctionOnSet([k \in Done |-> Moved(journal[k], a)], Done)
        /\ held[a] = SumFunctionOnSet([k \in Done |-> Kept(journal[k], a)], Done)

\* transfer's comment: "Atomic CTE-based transfer operation with idempotency"
\* (storage.ts).  When it throws, no funds have moved.
RefusedMovesNothing ==
    [][refused' # refused => UNCHANGED <<balance, held>>]_vars

\* The statements are steps of an AtomicLedger when callers open the accounts first:
\* snapshots, losses and repeated calls cannot be seen.  For other callers nothing is
\* claimed: the ledger that is shown stands still.
A == INSTANCE AtomicLedger WITH
        balance <- IF accountsFirst THEN balance ELSE [a \in Accounts |-> 0],
        held <- IF accountsFirst THEN held ELSE [a \in Accounts |-> 0],
        journal <- IF accountsFirst THEN journal ELSE [k \in Keys |-> NoTx]

AtomicSpec == A!Spec
=============================================================================
