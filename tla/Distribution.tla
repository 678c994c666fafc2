---------------------------- MODULE Distribution ----------------------------
(***************************************************************************)
(* The distribution methods of the vanilla service: syncOmnibus,           *)
(* distribute, reclaim and flushDistributions, as sequences of statements  *)
(* of Ledger, with what the token and escrow services do to the same       *)
(* accounts meanwhile.  The on-chain funds of an asset are on one omnibus  *)
(* account; the ledger says how much of them is whose.                     *)
(*                                                                         *)
(* syncOmnibusBalance is one statement, and as every statement it sees the *)
(* snapshot taken before it asks for the advisory lock: the balances it    *)
(* sums are those of the snapshot, the row it then writes is the latest.   *)
(*                                                                         *)
(* Definitions marked (Slip) are not part of the model: each is the        *)
(* definition that follows it with one mistake in it.                      *)
(***************************************************************************)
EXTENDS Integers, SequencesExt

CONSTANTS
    Investors,   \* the fin ids, in the order of the database
    Omnibus,     \* OMNIBUS_FIN_ID
    Calls,       \* the requests served, each with its own connection
    Offers,      \* what a request may ask for
    None,        \* no account
    NoTx,        \* no transaction
    SyncedBefore, \* TRUE when the omnibus account has a row to begin with
    SyncAlone,   \* TRUE when nothing is moved while a sync runs
    MaxChain,    \* bound: the on-chain balance
    MaxFunds,    \* bound: see Ledger
    MaxFaults,   \* bound: how many statements are lost and delegate calls throw
    MaxCrashes   \* bound: how often the process is killed

VARIABLES
    opened, balance, held, journal, stmts, answers, refused, faults,  \* see Ledger
    onChain,   \* the balance of the omnibus account on the chain
    jobs,      \* the method that serves each request, and its outcome
    imports,   \* history: the transactions the router has imported
    owed,      \* history: the balance last synced, and what was issued since
    astray,    \* history: what statements that threw did to each account
    crashes

ledgerVars == <<opened, balance, held, journal, stmts, answers, refused, faults>>
vars == <<ledgerVars, onChain, jobs, imports, owed, astray, crashes>>

Accounts == ToSet(Investors) \cup {Omnibus}

\* distribute, reclaim and flushDistributions draw a key for every move they make,
\* issue and hold have that of the request.
Keys == Calls \X (1..Cardinality(Accounts))

ASSUME DistributionAssumption ==
    /\ Investors \in Seq(ToSet(Investors)) /\ IsInjective(Investors)
    /\ Omnibus \notin ToSet(Investors) /\ None \notin Accounts
    /\ Offers \subseteq [call : {"sync", "flush", "distribute", "reclaim", "issue", "hold"},
                         account : Accounts, amount : 1..MaxFunds]
    /\ SyncedBefore \in BOOLEAN /\ SyncAlone \in BOOLEAN
    /\ MaxChain \in Nat /\ MaxFunds \in Nat /\ MaxFaults \in Nat /\ MaxCrashes \in Nat

L == INSTANCE Ledger WITH Clients <- Calls, Amounts <- Nat, Requests <- {},
                          AccountsFirst <- {FALSE}, accountsFirst <- FALSE

ASSUME NoTransactionAssumption ==
    NoTx \notin [source : Accounts \cup {None}, destination : Accounts \cup {None},
                 amount : Nat, hold : Int]

-----------------------------------------------------------------------------
(* The methods *)

\* A job is an offer with where its method is; todo lists the accounts and amounts
\* still to be moved or put, next is the number of the move under way.
NoJob == [pc |-> "none"]

Job(o, pc, todo) ==
    [offer |-> o, pc |-> pc, todo |-> todo, next |-> 1, read |-> 0, sum |-> 0]
Ended(j, outcome) == [j EXCEPT !.pc = outcome]

\* One account, one amount: the loop of a flush has more.
Single(o) == << <<o.account, o.amount>> >>

\* Where each method starts: distribute and issue make sure of the account first.
First(o) ==
    CASE o.call = "sync"                    -> Job(o, "read", <<>>)
      [] o.call = "flush"                   -> Job(o, "list", <<>>)
      [] o.call \in {"distribute", "issue"} -> Job(o, "ensure", Single(o))
      [] OTHER                              -> Job(o, "send", Single(o))

\* The account and amount under way, and its statement.
Item(c) == jobs[c].todo[jobs[c].next]
Statement(c) ==
    CASE jobs[c].offer.call = "distribute" -> L!Move(Omnibus, Item(c)[1], Item(c)[2])
      [] jobs[c].offer.call = "issue"      -> L!Credit(Item(c)[1], Item(c)[2])
      [] jobs[c].offer.call = "hold"       -> L!Lock(Item(c)[1], Item(c)[2])
      [] OTHER                             -> L!Move(Item(c)[1], Omnibus, Item(c)[2])

Imported(j) == j.offer.call \in {"distribute", "reclaim", "flush"}

\* After a move and its import: the next account of a flush, or the end.
Onward(j) ==
    IF j.next < Len(j.todo) THEN [j EXCEPT !.next = @ + 1, !.pc = "send"] ELSE Ended(j, "ok")

\* What the investors have together.
InvestorSum == SumFunctionOnSet(balance, ToSet(Investors))

-----------------------------------------------------------------------------
(* Actions *)

Init ==
    /\ opened = IF SyncedBefore THEN {Omnibus} ELSE {}
    /\ balance = [a \in Accounts |-> 0]
    /\ held = [a \in Accounts |-> 0]
    /\ journal = [k \in Keys |-> NoTx]
    /\ stmts = [c \in Calls |-> L!NoStmt]
    /\ answers = {} /\ refused = {} /\ faults = 0
    /\ onChain = MaxChain
    /\ jobs = [c \in Calls |-> NoJob]
    /\ imports = {}
    /\ owed = 0
    /\ astray = [a \in Accounts |-> 0]
    /\ crashes = 0

\* A request arrives.
Serve(c, o) ==
    /\ jobs[c] = NoJob
    /\ jobs' = [jobs EXCEPT ![c] = First(o)]
    /\ UNCHANGED <<ledgerVars, onChain, imports, owed, astray, crashes>>

Goes(c, pc) == jobs' = [jobs EXCEPT ![c].pc = pc]

\* ensureAccount, for the investor or for the omnibus account.
Ensure(c) ==
    /\ jobs[c].pc \in {"ensure", "ensure omnibus"}
    /\ IF jobs[c].pc = "ensure"
       THEN L!EnsureAccount(Item(c)[1]) /\ Goes(c, "send")
       ELSE L!EnsureAccount(Omnibus) /\ Goes(c, "sum")
    /\ UNCHANGED <<onChain, imports, owed, astray, crashes>>

InOrder(found) ==
    \E place \in [DOMAIN found -> DOMAIN Investors] :
        /\ \A i \in DOMAIN found : found[i] = Investors[place[i]]
        /\ \A i, k \in DOMAIN found : i < k => place[i] < place[k]

\* listDistributedAccounts: the accounts with a balance, whatever of it is held, in order.
ListAccounts(c) ==
    /\ jobs[c].pc = "list"
    /\ \E found \in SetToSeqs({a \in ToSet(Investors) : balance[a] > 0}) :
        /\ InOrder(found)
        /\ jobs' = [jobs EXCEPT ![c].todo = [i \in DOMAIN found |-> <<found[i], balance[found[i]]>>],
                                ![c].pc = IF found = <<>> THEN "ok" ELSE "send"]
    /\ UNCHANGED <<ledgerVars, onChain, imports, owed, astray, crashes>>

\* Syncs whose statement is running.
Syncing == {c \in Calls : jobs[c].pc = "set"}
Moving == {c \in Calls : stmts[c] # L!NoStmt}

\* A move from the omnibus account to itself throws before it reaches the database.
SendsNothing(c) ==
    /\ jobs[c].pc = "send"
    /\ Imported(jobs[c]) /\ Item(c)[1] = Omnibus
    /\ Goes(c, "conflict")
    /\ UNCHANGED <<ledgerVars, onChain, imports, owed, astray, crashes>>

\* (Slip: the router is told of the transaction before it is made.)
SendImporting(c) ==
    /\ jobs[c].pc = "send"
    /\ Imported(jobs[c]) => Item(c)[1] # Omnibus
    /\ SyncAlone => Syncing = {}
    /\ L!Begin(c, [key |-> <<c, jobs[c].next>>, op |-> Statement(c)])
    /\ Goes(c, "sent")
    /\ imports' = imports \cup {<<c, jobs[c].next>>}
    /\ UNCHANGED <<onChain, owed, astray, crashes>>

\* The statement of the move under way is sent, under a key of its own ...
Send(c) ==
    /\ jobs[c].pc = "send"
    /\ Imported(jobs[c]) => Item(c)[1] # Omnibus
    /\ SyncAlone => Syncing = {}
    /\ L!Begin(c, [key |-> <<c, jobs[c].next>>, op |-> Statement(c)])
    /\ Goes(c, "sent")
    /\ UNCHANGED <<onChain, imports, owed, astray, crashes>>

\* A statement that has committed: what came in from outside is owed from now on,
\* and what a statement without a transaction did to the accounts is astray.
Committed(c) == owed' = owed + (IF stmts[c].op.source = None THEN stmts[c].op.amount ELSE 0)
                /\ UNCHANGED astray
PartCommitted == astray' = [a \in Accounts |-> astray[a] + balance'[a] - balance[a]]
                 /\ UNCHANGED owed
Undone == UNCHANGED <<owed, astray>>

\* ... and returns its transaction ...
Moved(c) ==
    /\ jobs[c].pc = "sent"
    /\ L!Commit(c) /\ Committed(c)
    /\ jobs' = [jobs EXCEPT ![c] = IF Imported(@) THEN [@ EXCEPT !.pc = "import"]
                                                  ELSE Ended(@, "ok")]
    /\ UNCHANGED <<onChain, imports, crashes>>

\* (Slip: a flush goes on with the next account when one cannot be reclaimed.)
ThrewGoesOn(c) ==
    /\ jobs[c].pc = "sent"
    /\ \/ L!CommitPart(c) /\ PartCommitted
       \/ L!Short(c) /\ Undone
       \/ L!Aborts(c) /\ Undone
       \/ L!CommitUnheard(c) /\ Committed(c)
    /\ jobs' = [jobs EXCEPT ![c] = Onward(@)]
    /\ UNCHANGED <<onChain, imports, crashes>>

\* ... or throws, which ends the method, in the middle of a flush too.
\* BusinessError is answered with 409, everything else with 500.
Threw(c) ==
    /\ jobs[c].pc = "sent"
    /\ \/ L!CommitPart(c) /\ PartCommitted /\ Goes(c, "conflict")
       \/ L!Short(c) /\ Undone /\ Goes(c, "conflict")
       \/ L!Aborts(c) /\ Undone /\ Goes(c, "error")
       \/ L!CommitUnheard(c) /\ Committed(c) /\ Goes(c, "error")
    /\ UNCHANGED <<onChain, imports, crashes>>

\* importTransaction: the router hears of the transaction or, as every error is
\* only logged, does not; the method goes on.
Import(c) ==
    /\ jobs[c].pc = "import"
    /\ imports' \in {imports, imports \cup {<<c, jobs[c].next>>}}
    /\ jobs' = [jobs EXCEPT ![c] = Onward(@)]
    /\ UNCHANGED <<ledgerVars, onChain, owed, astray, crashes>>

\* syncOmnibus: the delegate is asked for the balance on the chain ...
ReadChain(c) ==
    /\ jobs[c].pc = "read"
    /\ jobs' = [jobs EXCEPT ![c].pc = "ensure omnibus", ![c].read = onChain]
    /\ UNCHANGED <<ledgerVars, onChain, imports, owed, astray, crashes>>

\* ... or throws ...
ReadFails(c) ==
    /\ jobs[c].pc = "read"
    /\ faults < MaxFaults
    /\ faults' = faults + 1
    /\ Goes(c, "error")
    /\ UNCHANGED <<opened, balance, held, journal, stmts, answers, refused,
                   onChain, imports, owed, astray, crashes>>

\* (Slip: the funds on hold are left out of the sum.)
SumDistributedAvailable(c) ==
    /\ jobs[c].pc = "sum"
    /\ SyncAlone => Moving = {}
    /\ jobs' = [jobs EXCEPT ![c].pc = "set",
                    ![c].sum = SumFunctionOnSet([a \in Accounts |-> balance[a] - held[a]],
                                                        ToSet(Investors))]
    /\ UNCHANGED <<ledgerVars, onChain, imports, owed, astray, crashes>>

\* ... the statement starts, and its snapshot says what the others have ...
SumDistributed(c) ==
    /\ jobs[c].pc = "sum"
    /\ SyncAlone => Moving = {}
    /\ jobs' = [jobs EXCEPT ![c].pc = "set", ![c].sum = InvestorSum]
    /\ UNCHANGED <<ledgerVars, onChain, imports, owed, astray, crashes>>

\* (Slip: the accounts table has no CHECK constraint.)
SetOmnibusUnchecked(c) ==
    /\ jobs[c].pc = "set"
    /\ balance' = [balance EXCEPT ![Omnibus] = jobs[c].read - jobs[c].sum]
    /\ owed' = jobs[c].read
    /\ astray' = [a \in Accounts |-> 0]
    /\ Goes(c, "ok")
    /\ UNCHANGED <<opened, held, journal, stmts, answers, refused, faults,
                   onChain, imports, crashes>>

\* ... and the omnibus account is given the rest ...
SetOmnibus(c) ==
    /\ jobs[c].pc = "set"
    /\ jobs[c].read - jobs[c].sum >= held[Omnibus]
    /\ balance' = [balance EXCEPT ![Omnibus] = jobs[c].read - jobs[c].sum]
    /\ owed' = jobs[c].read
    /\ astray' = [a \in Accounts |-> 0]
    /\ Goes(c, "ok")
    /\ UNCHANGED <<opened, held, journal, stmts, answers, refused, faults,
                   onChain, imports, crashes>>

\* ... unless that is not enough: a BusinessError.
SetFails(c) ==
    /\ jobs[c].pc = "set"
    /\ jobs[c].read - jobs[c].sum < held[Omnibus]
    /\ Goes(c, "conflict")
    /\ UNCHANGED <<ledgerVars, onChain, imports, owed, astray, crashes>>

\* Somebody pays into the omnibus account on the chain, or out of it.
ChainMoves ==
    /\ onChain' \in (0..MaxChain) \ {onChain}
    /\ UNCHANGED <<ledgerVars, jobs, imports, owed, astray, crashes>>

Over == {"none", "ok", "conflict", "error", "dead"}

\* The process is killed; the statements in flight stay with the database ...
Crash ==
    /\ crashes < MaxCrashes
    /\ crashes' = crashes + 1
    /\ jobs' = [c \in Calls |-> IF jobs[c].pc \in Over THEN jobs[c] ELSE Ended(jobs[c], "dead")]
    /\ UNCHANGED <<ledgerVars, onChain, imports, owed, astray>>

\* ... which ends them, and nobody hears of it.
Orphaned(c) ==
    /\ jobs[c].pc = "dead"
    /\ \/ L!Commit(c) /\ Committed(c)
       \/ L!CommitPart(c) /\ PartCommitted
       \/ L!Short(c) /\ Undone
    /\ UNCHANGED <<onChain, jobs, imports, crashes>>

JobStep(c) ==
    \/ Ensure(c) \/ ListAccounts(c) \/ SendsNothing(c) \/ Send(c)
    \/ Moved(c) \/ Threw(c) \/ Import(c)
    \/ ReadChain(c) \/ ReadFails(c) \/ SumDistributed(c) \/ SetOmnibus(c) \/ SetFails(c)
    \/ Orphaned(c)

Next ==
    \/ \E c \in Calls, o \in Offers : Serve(c, o)
    \/ \E c \in Calls : JobStep(c)
    \/ ChainMoves \/ Crash

Spec == Init /\ [][Next]_vars

-----------------------------------------------------------------------------
(* Properties *)

Steps == Over \cup {"read", "list", "ensure", "ensure omnibus", "send", "sent", "import",
                    "sum", "set"}

\* Types, no account overdrawn, and a job waits for a statement exactly while it has
\* one in flight.
TypeOK ==
    /\ opened \subseteq Accounts
    /\ \A a \in Accounts : 0 <= held[a] /\ held[a] <= balance[a]
    /\ onChain \in 0..MaxChain
    /\ \A c \in Calls :
        /\ jobs[c].pc \in Steps
        /\ jobs[c] # NoJob => jobs[c].offer \in Offers /\ jobs[c].read \in 0..MaxChain
                              /\ jobs[c].sum \in Nat
        /\ jobs[c].pc # "dead" => (jobs[c].pc = "sent" <=> stmts[c] # L!NoStmt)
    /\ imports \subseteq Keys
    /\ owed \in Nat
    /\ astray \in [Accounts -> Int]
    /\ crashes \in 0..MaxCrashes

\* syncOmnibusBalance's comment (storage.ts): "Atomically reconcile the omnibus DB
\* account with the on-chain balance", and "sync and balance mutations for the same
\* asset are serialized".  The accounts together hold the balance last synced and
\* what was issued since, but for what statements that threw did: no distribution,
\* reclaim or flush creates or loses funds, and none of them slips past a sync.
TotalIsOwed ==
    balance[Omnibus] + InvestorSum = owed + SumFunctionOnSet(astray, Accounts)

\* The moves of a request that have a transaction.
DoneOf(c) == {i \in DOMAIN jobs[c].todo : journal[<<c, i>>] # NoTx}

\* What the caller is told is what was done: after 200 every move of the request was
\* made, once, after 409 those before the one refused; after a 500 or a crash at
\* most the move under way besides.  A flush that fails is so half done, and a
\* request repeated is done again, under other keys.
RepliesAreTrue ==
    \A c \in Calls :
        /\ jobs[c].pc = "ok"       => DoneOf(c) = DOMAIN jobs[c].todo
        /\ jobs[c].pc = "conflict" => DoneOf(c) = 1..(jobs[c].next - 1) \cap DOMAIN jobs[c].todo
        /\ jobs[c].pc \in {"error", "dead"} =>
            /\ 1..(jobs[c].next - 1) \cap DOMAIN jobs[c].todo \subseteq DoneOf(c)
            /\ DoneOf(c) \subseteq 1..jobs[c].next

\* The router imports only transactions that were made, whatever becomes of the
\* request; it may miss any of them.
ImportsWereMade == \A k \in imports : journal[k] # NoTx
=============================================================================
