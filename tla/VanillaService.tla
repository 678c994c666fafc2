--------------------------- MODULE VanillaService ---------------------------
(***************************************************************************)
(* The token and escrow methods of the vanilla service: issue, transfer,   *)
(* redeem, hold, release and rollback, as sequences of statements of       *)
(* Ledger and calls of the delegates, run again when the process dies      *)
(* before their outcome is stored.  A transfer to a destination outside    *)
(* the local ledger is called payout here.                                 *)
(*                                                                         *)
(* Each statement of a method has a key derived from the request's         *)
(* idempotency key, so that a second run finds what the first has done.    *)
(* The delegates have no such memory in this code.                         *)
(*                                                                         *)
(* Definitions marked (Slip) are not part of the model: each is the        *)
(* definition that follows it with one mistake in it.                      *)
(***************************************************************************)
EXTENDS Integers, FiniteSets, Functions

CONSTANTS
    Accounts,        \* the fin ids
    Jobs,            \* the requests the router may send, each with its own idempotency key
    Clients,         \* the connections to the database, one for each run under way
    None,            \* no account, no operation
    NoTx,            \* no transaction
    Setups,          \* how the service may be set up, and what may go wrong
    MaxCrashes,      \* bound: how often the process is killed
    MaxFaults,       \* bound: how many statements are lost and delegate calls throw
    MaxFunds         \* bound: see Ledger

VARIABLES
    opened, balance, held, journal, stmts, answers, refused, faults,  \* see Ledger
    setup,      \* the setup
    up,         \* whether the process is running
    runs,       \* the run each connection serves
    outcome,    \* the operations table: what is stored of each job
    sent,       \* the jobs a delegate has carried out outside the ledger
    denied,     \* the jobs a delegate has refused
    crashes

ledgerVars == <<opened, balance, held, journal, stmts, answers, refused, faults>>
vars == <<ledgerVars, setup, up, runs, outcome, sent, denied, crashes>>

\* outbound and escrow: whether there is a transfer and an escrow delegate; steadfast:
\* a delegate asked twice gives its first answer again; outlives: a statement may outlive
\* the process and its restart; faults: statements are lost and delegates throw; jobs:
\* what the router may ask for.
SetupType == [outbound : BOOLEAN, escrow : BOOLEAN, steadfast : BOOLEAN, outlives : BOOLEAN,
              faults : BOOLEAN, jobs : SUBSET Jobs]

Methods == {"issue", "transfer", "payout", "redeem", "hold", "release", "rollback"}

\* release, rollback and redeem name the operation of the hold they use.
UsesHold(j) == j.method \in {"release", "rollback", "redeem"} /\ j.operation # None

\* The router names an operation for each hold.
ASSUME ServiceAssumption ==
    /\ None \notin Accounts
    /\ IsFiniteSet(Jobs)
    /\ \A j \in Jobs :
        /\ j.method \in Methods
        /\ j.source \in Accounts <=> j.method # "issue"
        /\ j.destination \in Accounts <=> j.method \in {"issue", "transfer", "release"}
        /\ j.source # j.destination
        /\ j.method \in {"hold", "release", "rollback"} => j.operation # None
        /\ j.amount \in Nat
    /\ \A j, k \in Jobs : j.method = "hold" /\ k.method = "hold" /\ j.operation = k.operation => j = k
    /\ Setups \subseteq SetupType
    /\ MaxCrashes \in Nat /\ MaxFaults \in Nat /\ MaxFunds \in Nat

-----------------------------------------------------------------------------
(* The statements of a job.  A job's own key is that of its main statement;   *)
(* the others add a suffix.                                                   *)

Steps == {"main", "hold", "unlock", "debit"}

L == INSTANCE Ledger WITH
        Keys <- Jobs \X Steps,
        Amounts <- {j.amount : j \in Jobs},
        Requests <- {},
        AccountsFirst <- {FALSE}, accountsFirst <- FALSE

ASSUME NoTransactionAssumption == NoTx \notin L!Ops

Main(j) ==
    CASE j.method = "issue"    -> L!Credit(j.destination, j.amount)
      [] j.method = "transfer" -> L!Move(j.source, j.destination, j.amount)
      [] j.method = "hold"     -> L!Lock(j.source, j.amount)
      [] j.method = "release"  -> L!UnlockAndMove(j.source, j.destination, j.amount)
      [] j.method = "rollback" -> L!Unlock(j.source, j.amount)
      [] j.method = "redeem" /\ UsesHold(j) -> L!UnlockAndDebit(j.source, j.amount)
      [] OTHER                 -> L!Debit(j.source, j.amount)

Statement(j, step) ==
    CASE step = "main"   -> Main(j)
      [] step = "hold"   -> L!Lock(j.source, j.amount)
      [] step = "unlock" -> L!Unlock(j.source, j.amount)
      [] step = "debit"  -> L!UnlockAndDebit(j.source, j.amount)

Done(j, step) == journal[<<j, step>>] # NoTx

-----------------------------------------------------------------------------
(* A run of a method: where it is, and what it has returned or thrown.        *)

NoRun == [pc |-> "none"]
At(j, pc) == [job |-> j, pc |-> pc, out |-> "pending"]
Returned(j, out) == [job |-> j, pc |-> "end", out |-> out]
Threw(j) == Returned(j, "error")

\* (Slip: transfer calls the delegate before it locks.)
FirstDelegates(j) ==
    CASE j.method \in {"issue", "transfer"} -> At(j, "ensure")
      [] j.method = "payout"                -> At(j, "delegate")
      [] j.method = "release" /\ ~setup.escrow    -> At(j, "ensure")
      [] j.method \in {"release", "rollback"} /\ setup.escrow -> At(j, "delegate")
      [] OTHER                              -> At(j, "main")

\* Where a method starts: what it does before its first await.
First(j) ==
    CASE j.method \in {"issue", "transfer"} -> At(j, "ensure")
      [] j.method = "payout" /\ setup.outbound    -> At(j, "hold")
      [] j.method = "payout" /\ ~setup.outbound   -> Returned(j, "failure")
      [] j.method = "release" /\ ~setup.escrow    -> At(j, "ensure")
      [] j.method \in {"release", "rollback"} /\ setup.escrow -> At(j, "delegate")
      [] OTHER                              -> At(j, "main")

\* (Slip: transfer does not return once it has unlocked.)
AfterStatementGoesOn(j, step) ==
    CASE step = "hold"                                    -> At(j, "delegate")
      [] step = "main" /\ j.method = "hold" /\ setup.escrow     -> At(j, "delegate")
      [] step = "unlock" /\ j.method = "payout"           -> At(j, "debit")
      [] step = "unlock"                                  -> Returned(j, "failure")
      [] OTHER                                            -> Returned(j, "success")

\* What follows a statement that has returned its transaction.
AfterStatement(j, step) ==
    CASE step = "hold"                                    -> At(j, "delegate")
      [] step = "main" /\ j.method = "hold" /\ setup.escrow     -> At(j, "delegate")
      [] step = "unlock"                                  -> Returned(j, "failure")
      [] OTHER                                            -> Returned(j, "success")

\* (Slip: hold returns the delegate's failure and keeps its lock.)
AfterDelegateKeepsLock(j, ok) ==
    CASE ok  /\ j.method = "payout"              -> At(j, "debit")
      [] ok  /\ j.method = "hold"                -> Returned(j, "success")
      [] ok  /\ j.method = "release"             -> At(j, "ensure")
      [] ok  /\ j.method = "rollback"            -> At(j, "main")
      [] ~ok /\ j.method = "payout"              -> At(j, "unlock")
      [] OTHER                                   -> Returned(j, "failure")

\* (Slip: the result of outboundTransfer is not looked at.)
AfterDelegateDebits(j, ok) ==
    CASE j.method = "payout"                     -> At(j, "debit")
      [] ok  /\ j.method = "hold"                -> Returned(j, "success")
      [] ok  /\ j.method = "release"             -> At(j, "ensure")
      [] ok  /\ j.method = "rollback"            -> At(j, "main")
      [] ~ok /\ j.method = "hold"                -> At(j, "unlock")
      [] OTHER                                   -> Returned(j, "failure")

\* What follows the delegate's answer.
AfterDelegate(j, ok) ==
    CASE ok  /\ j.method = "payout"              -> At(j, "debit")
      [] ok  /\ j.method = "hold"                -> Returned(j, "success")
      [] ok  /\ j.method = "release"             -> At(j, "ensure")
      [] ok  /\ j.method = "rollback"            -> At(j, "main")
      [] ~ok /\ j.method \in {"payout", "hold"}  -> At(j, "unlock")
      [] OTHER                                   -> Returned(j, "failure")

-----------------------------------------------------------------------------
Init ==
    /\ L!Init
    /\ setup \in Setups
    /\ up = TRUE
    /\ runs = [p \in Clients |-> NoRun]
    /\ outcome = [j \in Jobs |-> "unsent"]
    /\ sent = {}
    /\ denied = {}
    /\ crashes = 0

Free(p) == runs[p] = NoRun /\ stmts[p] = L!NoStmt

\* The jobs that use an operation's hold, and what they may take of it as the router
\* sees it: a failed one has taken nothing.
Users(o) == {j \in Jobs : UsesHold(j) /\ j.operation = o}
Claims(o) == {j \in Users(o) : outcome[j] \in {"pending", "success"}}

Amount(jobs) == SumFunctionOnSet([j \in jobs |-> j.amount], jobs)
Claimed(o) == Amount(Claims(o))

\* The router uses a hold once it was told of its success, in its own amounts.
Legal(j) ==
    UsesHold(j) => \E h \in Jobs :
        /\ h.method = "hold" /\ h.operation = j.operation /\ h.source = j.source
        /\ outcome[h] = "success"
        /\ Claimed(j.operation) + j.amount <= h.amount

\* A request arrives: its row is saved and its method starts.
Serve(p, j) ==
    /\ up /\ Free(p)
    /\ j \in setup.jobs /\ outcome[j] = "unsent"
    /\ Legal(j)
    /\ outcome' = [outcome EXCEPT ![j] = "pending"]
    /\ runs' = [runs EXCEPT ![p] = First(j)]
    /\ UNCHANGED <<ledgerVars, setup, up, sent, denied, crashes>>

\* Recovery runs a pending operation again.
Recover(p, j) ==
    /\ up /\ Free(p)
    /\ outcome[j] = "pending"
    /\ j \notin {runs[q].job : q \in {c \in Clients : runs[c] # NoRun}}
    /\ runs' = [runs EXCEPT ![p] = First(j)]
    /\ UNCHANGED <<ledgerVars, setup, up, outcome, sent, denied, crashes>>

\* ensureAccount for the destination.
Ensure(p) ==
    /\ runs[p].pc = "ensure"
    /\ L!EnsureAccount(runs[p].job.destination)
    /\ runs' = [runs EXCEPT ![p].pc = "main"]
    /\ UNCHANGED <<setup, up, outcome, sent, denied, crashes>>

\* The next statement is sent to the database ...
Send(p) ==
    /\ runs[p].pc \in Steps
    /\ L!Begin(p, [key |-> <<runs[p].job, runs[p].pc>>,
                   op |-> Statement(runs[p].job, runs[p].pc)])
    /\ UNCHANGED <<setup, up, runs, outcome, sent, denied, crashes>>

\* ... and returns a transaction ...
Returns(p) ==
    /\ runs[p] # NoRun
    /\ L!ReturnFound(p) \/ L!Commit(p)
    /\ runs' = [runs EXCEPT ![p] = AfterStatement(@.job, @.pc)]
    /\ UNCHANGED <<setup, up, outcome, sent, denied, crashes>>

\* ... or throws, which ends the method.
Throws(p) ==
    /\ runs[p] # NoRun
    /\ \/ L!CommitPart(p) \/ L!Short(p) \/ L!KeyTaken(p)
       \/ setup.faults /\ (L!CommitUnheard(p) \/ L!Aborts(p))
    /\ runs' = [runs EXCEPT ![p] = Threw(@.job)]
    /\ UNCHANGED <<setup, up, outcome, sent, denied, crashes>>

\* The delegate carries out the call or refuses it.
DelegateAnswers(p, ok) ==
    /\ runs[p].pc = "delegate"
    /\ LET j == runs[p].job IN
        /\ setup.steadfast => j \notin (IF ok THEN denied ELSE sent)
        /\ sent' = IF ok THEN sent \cup {j} ELSE sent
        /\ denied' = IF ok THEN denied ELSE denied \cup {j}
        /\ runs' = [runs EXCEPT ![p] = AfterDelegate(j, ok)]
    /\ UNCHANGED <<ledgerVars, setup, up, outcome, crashes>>

\* The delegate throws, before or after it has carried out the call.
DelegateThrows(p) ==
    /\ runs[p].pc = "delegate"
    /\ setup.faults /\ faults < MaxFaults
    /\ faults' = faults + 1
    /\ \/ sent' = sent
       \/ (setup.steadfast => runs[p].job \notin denied) /\ sent' = sent \cup {runs[p].job}
    /\ runs' = [runs EXCEPT ![p] = Threw(@.job)]
    /\ UNCHANGED <<opened, balance, held, journal, stmts, answers, refused,
                   setup, up, outcome, denied, crashes>>

\* The outcome of the run is stored.
Finish(p) ==
    /\ runs[p].pc = "end"
    /\ outcome' = [outcome EXCEPT ![runs[p].job] = runs[p].out]
    /\ runs' = [runs EXCEPT ![p] = NoRun]
    /\ UNCHANGED <<ledgerVars, setup, up, sent, denied, crashes>>

\* The process is killed; the statements in flight stay with the database ...
Crash ==
    /\ up
    /\ crashes < MaxCrashes
    /\ up' = FALSE
    /\ runs' = [p \in Clients |-> NoRun]
    /\ crashes' = crashes + 1
    /\ UNCHANGED <<ledgerVars, setup, outcome, sent, denied>>

\* ... which ends them, and nobody hears of it.
Orphaned(p) ==
    /\ runs[p] = NoRun
    /\ L!Step(p)
    /\ setup.faults \/ faults' = faults
    /\ UNCHANGED <<setup, up, runs, outcome, sent, denied, crashes>>

Restart ==
    /\ ~up
    /\ setup.outlives \/ \A p \in Clients : stmts[p] = L!NoStmt
    /\ up' = TRUE
    /\ UNCHANGED <<ledgerVars, setup, runs, outcome, sent, denied, crashes>>

RunStep(p) ==
    \/ Ensure(p) \/ Send(p) \/ Returns(p) \/ Throws(p)
    \/ \E ok \in BOOLEAN : DelegateAnswers(p, ok)
    \/ DelegateThrows(p) \/ Finish(p)

Next ==
    \/ \E p \in Clients, j \in Jobs : Serve(p, j) \/ Recover(p, j)
    \/ \E p \in Clients : RunStep(p) \/ Orphaned(p)
    \/ Crash \/ Restart

Spec == Init /\ [][Next]_vars

-----------------------------------------------------------------------------
(* Properties *)

Run == {At(j, pc) : j \in Jobs, pc \in Steps \cup {"ensure", "delegate"}}
       \cup {Returned(j, out) : j \in Jobs, out \in {"success", "failure", "error"}}

\* Types, and that a connection's statement is the one its run waits for.
TypeOK ==
    /\ L!TypeOK
    /\ setup \in SetupType
    /\ up \in BOOLEAN
    /\ runs \in [Clients -> Run \cup {NoRun}]
    /\ outcome \in [Jobs -> {"unsent", "pending", "success", "failure", "error"}]
    /\ sent \subseteq Jobs /\ denied \subseteq Jobs
    /\ crashes \in 0..MaxCrashes
    /\ \A p \in Clients : runs[p] # NoRun /\ stmts[p] # L!NoStmt =>
        stmts[p].key = <<runs[p].job, runs[p].pc>>

Locks(j) == j.method \in {"payout", "hold"}
LockStep(j) == IF j.method = "payout" THEN "hold" ELSE "main"
NeedsDelegate(j) ==
    \/ j.method = "payout"
    \/ setup.escrow /\ j.method \in {"hold", "release", "rollback"}

\* A success is backed by its transactions and by the delegate, and funds leave
\* for the outside only when the delegate has carried the transfer out: whatever
\* fails, is killed, or is run again.
SuccessIsBacked ==
    \A j \in Jobs :
        /\ outcome[j] = "success" =>
            /\ Done(j, IF j.method = "payout" THEN "debit" ELSE "main")
            /\ NeedsDelegate(j) => j \in sent
        /\ Done(j, "debit") => Done(j, "hold") /\ j \in sent

\* Delegates keep their word, nothing is lost and no statement outlives the process.
Calm == setup.steadfast /\ ~setup.outlives /\ ~setup.faults

\* In calm what the router is told is what happened: a success keeps its lock or has used
\* it, and a failure the method itself returned has undone it and left nothing behind,
\* wherever the process was killed.
OutcomesAreTrue ==
    Calm => \A j \in Jobs :
        /\ outcome[j] = "success" => ~Done(j, "unlock")
        /\ outcome[j] = "failure" =>
            /\ j \notin sent /\ ~Done(j, "debit")
            /\ IF Locks(j) THEN Done(j, LockStep(j)) <=> Done(j, "unlock")
                           ELSE ~Done(j, "main")

\* What has been given back of the lock of j, by j itself or by the jobs that use
\* its hold.
OwnSteps(j) == {s \in {"unlock", "debit"} : Done(j, s)}
UsersDone(j) == IF j.method = "hold" THEN {u \in Users(j.operation) : Done(u, "main")} ELSE {}
GivenBack(j) == Cardinality(OwnSteps(j)) * j.amount + Amount(UsersDone(j))

\* A lock is used up once, in calm: with a router that uses a hold in its own amounts,
\* crashes and repeated runs never give back more than was locked.
LocksUsedOnce ==
    Calm => \A j \in Jobs : Locks(j) =>
        GivenBack(j) <= (IF Done(j, LockStep(j)) THEN j.amount ELSE 0)

\* In calm a statement that gives back what was locked never runs short: nobody else can
\* have taken it.
LockedFundsAreThere ==
    Calm => \A p \in Clients :
        stmts[p] # L!NoStmt /\ stmts[p].op.hold < 0 /\ stmts[p].found = NoTx
            => L!Covered(stmts[p].op, L!Found(p)) \/ journal[stmts[p].key] # NoTx
=============================================================================
