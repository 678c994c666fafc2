-------------------------- MODULE InMemoryLedger --------------------------
(***************************************************************************)
(* The ledger of the sample adapter: accounts, holds and transactions kept *)
(* in the memory of the process, behind the proxy that stores operations   *)
(* in a table and runs the pending ones again after a restart.             *)
(*                                                                         *)
(* A method runs up to its only await, that of the proof of the receipt,   *)
(* in one step of the event loop: it changes the accounts and registers a  *)
(* transaction, or throws.  The proof then comes or fails.  A crash ends   *)
(* the memory and not the table: what was pending runs again on an empty   *)
(* ledger.                                                                 *)
(*                                                                         *)
(* Definitions marked (Slip) are not part of the model: each is the        *)
(* definition that follows it with one mistake in it.                      *)
(***************************************************************************)
EXTENDS Naturals, FiniteSets, Functions

CONSTANTS
    Accounts,    \* finIds
    Operations,  \* operation ids of holds
    Requests,    \* the requests of the router
    Quantities,  \* quantities, in halves: "1" is 2 and "2.5" is 5
    Asked,       \* what the router asks
    MaxCrashes   \* bound: crashes of the process

VARIABLES
    asset,         \* whether the asset is known (storage.assets)
    known,         \* the accounts there are (storage.accounts)
    balances,      \* what is on each, 0 while it is not there
    holdOperations,
    transactions,  \* the transaction each request has registered
    requests,      \* the requests and the rows of the operations table
    crashes

vars == <<asset, known, balances, holdOperations, transactions, requests, crashes>>

None == "none"

\* Only the whole part of a quantity is kept on an account.
parseInt(quantity) == quantity \div 2

NoHold == [finId |-> None, quantity |-> 0]
HoldOperation == [finId : Accounts, quantity : Quantities]

\* A rollback is registered as a release without a destination.
Transaction == [type : {"issue", "transfer", "redeem", "hold", "release"},
                source : Accounts \cup {None}, destination : Accounts \cup {None},
                quantity : Quantities, operationId : Operations \cup {None}]
NoTransaction == [type |-> None]

Kinds == {"createAsset", "issue", "transfer", "redeem", "hold", "release", "rollback"}

NoRequest == [pc |-> "unsent"]
Request == [kind : Kinds, source : Accounts \cup {None}, destination : Accounts \cup {None},
            quantity : Quantities \cup {0}, operationId : Operations \cup {None},
            pc : {"due", "proof", "succeeded", "failed"}]

At(r, pc) == requests[r].pc = pc
Goes(r, pc) == requests' = [requests EXCEPT ![r].pc = pc]

Init ==
    /\ asset = TRUE
    /\ known = {}
    /\ balances = [a \in Accounts |-> 0]
    /\ holdOperations = [o \in Operations |-> NoHold]
    /\ transactions = [r \in Requests |-> NoTransaction]
    /\ requests = [r \in Requests |-> NoRequest]
    /\ crashes = 0

-----------------------------------------------------------------------------
(* The router *)

Ask(kinds, sources, destinations, quantities, operationIds) ==
    [kind : kinds, source : sources, destination : destinations, quantity : quantities,
     operationId : operationIds, pc : {"due"}]

\* What the router may ask, any of it at any time and repeatedly: of a hold that was not
\* made, or is settled, or is another account's, for more than it holds, or for less.
Askable ==
    LET no == {None} IN
    Ask({"createAsset"}, no, no, {0}, no)
        \cup Ask({"issue"}, no, Accounts, Quantities, no)
        \cup Ask({"transfer"}, Accounts, Accounts, Quantities, no)
        \cup Ask({"redeem"}, Accounts, no, Quantities, Operations \cup no)
        \cup Ask({"hold", "rollback"}, Accounts, no, Quantities, Operations)
        \cup Ask({"release"}, Accounts, Accounts, Quantities, Operations)

\* A row is stored for the request, and its method is started.
Serve(r) ==
    /\ requests[r] = NoRequest
    /\ \E q \in Asked : requests' = [requests EXCEPT ![r] = q]
    /\ UNCHANGED <<asset, known, balances, holdOperations, transactions, crashes>>

-----------------------------------------------------------------------------
(* TokenServiceImpl and EscrowServiceImpl *)

Credit(funds, to, quantity) == [funds EXCEPT ![to] = @ + parseInt(quantity)]
Debit(funds, from, quantity) == [funds EXCEPT ![from] = @ - parseInt(quantity)]

\* An account is opened by the first credit to it.
Opens(to) == known' = known \cup {to}

\* (Slip: the check of the balance is off by one.)
CoversLoosely(from, quantity) == from \in known /\ balances[from] + 1 >= parseInt(quantity)

\* The account is there, and has the funds.
Covers(from, quantity) == from \in known /\ balances[from] >= parseInt(quantity)

Held(r) == holdOperations[requests[r].operationId]

\* Whether the method throws a BusinessError: the asset, the account, the funds, or the
\* hold are missing, or the hold is another account's.
Throws(r) == LET q == requests[r] IN
    CASE q.kind = "createAsset" -> FALSE
      [] q.kind = "issue" -> ~asset
      [] q.kind \in {"transfer", "hold"} -> ~asset \/ ~Covers(q.source, q.quantity)
      [] q.kind = "redeem" -> IF q.operationId = None THEN ~asset \/ ~Covers(q.source, q.quantity)
                                                      ELSE Held(r) = NoHold
      [] q.kind = "release" -> ~asset \/ Held(r) = NoHold \/ Held(r).finId # q.source
      [] q.kind = "rollback" -> ~asset \/ Held(r) = NoHold

\* The method of a kind of request runs and does not throw.
Runs(r, kind) == At(r, "due") /\ requests[r].kind = kind /\ ~Throws(r)

\* The transaction is registered and its proof awaited.
Registers(r, type, source, destination) ==
    /\ transactions' = [transactions EXCEPT ![r] =
           [type |-> type, source |-> source, destination |-> destination,
            quantity |-> requests[r].quantity, operationId |-> requests[r].operationId]]
    /\ Goes(r, "proof")
    /\ UNCHANGED <<asset, crashes>>

SavesHold(r) ==
    holdOperations' = [holdOperations EXCEPT ![requests[r].operationId] =
                          [finId |-> requests[r].source, quantity |-> requests[r].quantity]]
RemovesHold(r) ==
    holdOperations' = [holdOperations EXCEPT ![requests[r].operationId] = NoHold]

createAsset(r) ==
    /\ Runs(r, "createAsset")
    /\ asset' = TRUE
    /\ Goes(r, "succeeded")
    /\ UNCHANGED <<known, balances, holdOperations, transactions, crashes>>

issue(r) == LET q == requests[r] IN
    /\ Runs(r, "issue")
    /\ Opens(q.destination)
    /\ balances' = Credit(balances, q.destination, q.quantity)
    /\ Registers(r, "issue", None, q.destination)
    /\ UNCHANGED holdOperations

transfer(r) == LET q == requests[r] IN
    /\ Runs(r, "transfer")
    /\ Opens(q.destination)
    /\ balances' = Credit(Debit(balances, q.source, q.quantity), q.destination, q.quantity)
    /\ Registers(r, "transfer", q.source, q.destination)
    /\ UNCHANGED holdOperations

\* (Slip: what was held is debited again.)
redeemTwice(r) == LET q == requests[r] IN
    /\ Runs(r, "redeem")
    /\ IF q.operationId = None THEN UNCHANGED holdOperations ELSE RemovesHold(r)
    /\ balances' = Debit(balances, q.source, q.quantity)
    /\ Registers(r, "redeem", q.source, None)
    /\ UNCHANGED known

\* The account is debited unless its funds are held: they left it with the hold.
redeem(r) == LET q == requests[r] IN
    /\ Runs(r, "redeem")
    /\ IF q.operationId = None
       THEN balances' = Debit(balances, q.source, q.quantity) /\ UNCHANGED holdOperations
       ELSE RemovesHold(r) /\ UNCHANGED balances
    /\ Registers(r, "redeem", q.source, None)
    /\ UNCHANGED known

hold(r) == LET q == requests[r] IN
    /\ Runs(r, "hold")
    /\ SavesHold(r)
    /\ balances' = Debit(balances, q.source, q.quantity)
    /\ Registers(r, "hold", q.source, None)
    /\ UNCHANGED known

\* (Slip: the hold is left.)
releaseKeeping(r) == LET q == requests[r] IN
    /\ Runs(r, "release")
    /\ Opens(q.destination)
    /\ balances' = Credit(balances, q.destination, q.quantity)
    /\ Registers(r, "release", Held(r).finId, q.destination)
    /\ UNCHANGED holdOperations

release(r) == LET q == requests[r] IN
    /\ Runs(r, "release")
    /\ Opens(q.destination)
    /\ balances' = Credit(balances, q.destination, q.quantity)
    /\ RemovesHold(r)
    /\ Registers(r, "release", Held(r).finId, q.destination)

\* The holder gets back what the request names.
rollback(r) == LET q == requests[r] IN
    /\ Runs(r, "rollback")
    /\ Opens(Held(r).finId)
    /\ balances' = Credit(balances, Held(r).finId, q.quantity)
    /\ RemovesHold(r)
    /\ Registers(r, "release", Held(r).finId, None)

\* A method throws before it changes anything, but for hold: it has saved its record.
BusinessError(r) ==
    /\ At(r, "due") /\ Throws(r)
    /\ IF requests[r].kind = "hold" THEN SavesHold(r) ELSE UNCHANGED holdOperations
    /\ Goes(r, "failed")
    /\ UNCHANGED <<asset, known, balances, transactions, crashes>>

\* The proof comes, or cannot be made: the operation is stored as failed, its
\* transaction being registered.
ledgerProof(r) ==
    /\ At(r, "proof")
    /\ \E outcome \in {"succeeded", "failed"} : Goes(r, outcome)
    /\ UNCHANGED <<asset, known, balances, holdOperations, transactions, crashes>>

\* The memory is lost; the rows that were pending are run again.
Crash ==
    /\ crashes < MaxCrashes
    /\ crashes' = crashes + 1
    /\ asset' = FALSE
    /\ known' = {}
    /\ balances' = [a \in Accounts |-> 0]
    /\ holdOperations' = [o \in Operations |-> NoHold]
    /\ transactions' = [r \in Requests |-> NoTransaction]
    /\ requests' = [r \in Requests |-> IF At(r, "proof") THEN [requests[r] EXCEPT !.pc = "due"]
                                                         ELSE requests[r]]

Next ==
    \/ \E r \in Requests :
          \/ Serve(r) \/ createAsset(r) \/ issue(r) \/ transfer(r) \/ redeem(r)
          \/ hold(r) \/ release(r) \/ rollback(r) \/ BusinessError(r) \/ ledgerProof(r)
    \/ Crash

Spec == Init /\ [][Next]_vars

-----------------------------------------------------------------------------
(* Properties *)

\* Types, and no account is overdrawn.
TypeOK ==
    /\ asset \in BOOLEAN
    /\ known \subseteq Accounts
    /\ balances \in [Accounts -> Nat]
    /\ holdOperations \in [Operations -> HoldOperation \cup {NoHold}]
    /\ transactions \in [Requests -> Transaction \cup {NoTransaction}]
    /\ requests \in [Requests -> Request \cup {NoRequest}]
    /\ crashes \in 0..MaxCrashes

Receipts == {r \in Requests : transactions[r] # NoTransaction}

\* What the transactions of some requests amount to.
Amount(rs) == SumFunctionOnSet([r \in rs |-> parseInt(transactions[r].quantity)], rs)

Brings(tx, a) ==
    /\ tx.type \in {"issue", "transfer", "release"}
    /\ IF tx.type = "release" /\ tx.destination = None THEN tx.source = a ELSE tx.destination = a

Takes(tx, a) ==
    /\ tx.source = a
    /\ tx.type \in {"transfer", "hold"} \/ (tx.type = "redeem" /\ tx.operationId = None)

BringingTo(a) == {r \in Receipts : Brings(transactions[r], a)}
TakingFrom(a) == {r \in Receipts : Takes(transactions[r], a)}

\* The receipts explain the accounts, whatever fails after a transaction is registered,
\* is replayed on an empty ledger or is rounded: a balance is what the transactions of
\* this life of the process have brought, less what they have taken.
ReceiptsExplainBalances ==
    \A a \in Accounts : balances[a] + Amount(TakingFrom(a)) = Amount(BringingTo(a))

\* The receipts that name an operation, those of its holds and those that settle one,
\* and its holds that were refused.
HoldsOf(o) ==
    {r \in Requests : requests[r] # NoRequest /\ requests[r].kind = "hold"
                      /\ requests[r].operationId = o}
About(o) == {r \in Receipts : transactions[r].operationId = o}
HoldsAbout(o) == {r \in About(o) : transactions[r].type = "hold"}
Settling(o) == About(o) \ HoldsAbout(o)
Refused(o) == {r \in HoldsOf(o) : At(r, "failed") /\ r \notin Receipts}

\* What is held under an operation, and what its refused holds would have held.
Kept(o) == parseInt(holdOperations[o].quantity)
AmountRefused(o) ==
    SumFunctionOnSet([r \in Refused(o) |-> parseInt(requests[r].quantity)], Refused(o))

\* What was held under an operation and what settled it name one quantity.
OneQuantity(o) ==
    \A r, s \in About(o) \cup Refused(o) : requests[r].quantity = requests[s].quantity

\* The funds of a hold come back, in whatever order, by whomever and however often it is
\* settled.  Nothing compares what a settlement names with what was held, so this is
\* about an operation for which they name one quantity.  What was given back or redeemed,
\* with what is still held, is then no more than was taken, but for the holds that were
\* refused, whose records were saved before their accounts were debited; and it is no
\* less, unless the operation was held again, over a record that was there.
HeldComesBack ==
    \A o \in Operations : OneQuantity(o) =>
        /\ Amount(Settling(o)) + Kept(o) <= Amount(HoldsAbout(o)) + AmountRefused(o)
        /\ (\A r, s \in HoldsOf(o) : r = s)
              => Amount(HoldsAbout(o)) <= Amount(Settling(o)) + Kept(o)
=============================================================================
