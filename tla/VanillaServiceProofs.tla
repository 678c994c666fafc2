------------------------ MODULE VanillaServiceProofs ------------------------
(***************************************************************************)
(* Theorems about VanillaService, for any accounts, jobs, connections,     *)
(* setups and bounds: no account is overdrawn, a success is backed by its  *)
(* transactions and its delegate, outcomes are true in calm, and in calm a *)
(* lock is used up once and is there when it is given back.                *)
(***************************************************************************)
EXTENDS VanillaService, Sums

-----------------------------------------------------------------------------
(* The invariant *)

Running(p) == stmts[p].pc = "running"
JobOf(p) == stmts[p].key[1]
StepOf(p) == stmts[p].key[2]

Ledger == L!TypeOK /\ L!StmtsHonest /\ L!AnswersAreJournaled

\* The stages of a method, and what is true for good when a job has come to one of them:
\* whatever is run again comes to it again.
Fits(j, pc) ==
    /\ pc = "ensure" => j.method \in {"issue", "transfer", "release"}
    /\ pc = "main" => j.method # "payout"
    /\ pc \in {"hold", "debit"} => j.method = "payout"
    /\ pc = "unlock" => j.method \in {"payout", "hold"}
    /\ pc = "delegate" => NeedsDelegate(j)
    /\ j.method = "payout" /\ pc # "end" => setup.outbound

Ready(j, pc) ==
    /\ pc = "main" /\ j.method \in {"issue", "transfer", "release"} => j.destination \in opened
    /\ pc \in {"delegate", "unlock"} /\ Locks(j) => Done(j, LockStep(j))
    /\ pc = "debit" => Done(j, "hold") /\ j \in sent
    /\ pc = "unlock" => j \in denied
    /\ pc \in {"ensure", "main"} /\ j.method \in {"release", "rollback"} /\ setup.escrow => j \in sent

Reached(j, pc) == Fits(j, pc) /\ Ready(j, pc)

\* Runs, statements, transactions and calls of the delegates are at their stages.
RunsReached == \A p \in Clients : runs[p] # NoRun => Reached(runs[p].job, runs[p].pc)

StmtsReached ==
    \A p \in Clients : Running(p) =>
        /\ stmts[p].op = Statement(JobOf(p), StepOf(p))
        /\ Reached(JobOf(p), StepOf(p))
        /\ StepOf(p) = "main" /\ JobOf(p).method \in {"issue", "transfer", "release"}
              => JobOf(p).destination \in stmts[p].seen
        /\ outcome[JobOf(p)] # "unsent"

JournalReached ==
    \A j \in Jobs, s \in Steps : Done(j, s) =>
        journal[<<j, s>>] = Statement(j, s) /\ Reached(j, s) /\ outcome[j] # "unsent"

DelegatesReached == \A j \in sent \cup denied : Reached(j, "delegate")

\* What a success is backed by.
Backed(j) ==
    /\ Done(j, IF j.method = "payout" THEN "debit" ELSE "main")
    /\ NeedsDelegate(j) => j \in sent

SuccessesBacked ==
    /\ \A j \in Jobs : outcome[j] = "success" => Backed(j)
    /\ \A p \in Clients : runs[p].pc = "end" /\ runs[p].out = "success" => Backed(runs[p].job)

\* One run of a job that is pending, while the process is running.
Single ==
    /\ \A p \in Clients : runs[p] # NoRun => up /\ outcome[runs[p].job] = "pending"
    /\ \A p, q \in Clients :
          runs[p] # NoRun /\ runs[q] # NoRun /\ runs[p].job = runs[q].job => p = q

\* What uses a hold uses one that the router was told of, and no more than it holds.
Backing(j, h) == h.method = "hold" /\ h.operation = j.operation /\ h.source = j.source /\ outcome[h] = "success"
UsersLegal == \A u \in Jobs : UsesHold(u) /\ outcome[u] # "unsent" => \E h \in Jobs : Backing(u, h)
Budget == \A h \in Jobs : h.method = "hold" => Claimed(h.operation) <= h.amount

\* In calm: a failure has undone what it did; an error has done nothing with a hold; a
\* statement in flight is the only one of a job that is pending.
Undone(j) ==
    /\ j \notin sent /\ ~Done(j, "debit")
    /\ IF Locks(j) THEN Done(j, LockStep(j)) <=> Done(j, "unlock") ELSE ~Done(j, "main")

Failed(j, out) ==
    /\ out = "failure" => Undone(j)
    /\ out = "error" /\ UsesHold(j) => ~Done(j, "main")

Unmixed == sent \cap denied = {}

InFlight ==
    /\ \A p \in Clients : Running(p) =>
          /\ outcome[JobOf(p)] = "pending"
          /\ up => runs[p] # NoRun
          /\ stmts[p].found = journal[stmts[p].key]
    /\ \A p, q \in Clients : Running(p) /\ Running(q) /\ JobOf(p) = JobOf(q) => p = q

Outcomes ==
    /\ \A j \in Jobs : Failed(j, outcome[j])
    /\ \A p \in Clients : runs[p].pc = "end" => Failed(runs[p].job, runs[p].out)

\* What is on hold is what was locked and not given back.
LocksOf(a) == {l \in Jobs : Locks(l) /\ l.source = a}
Outstanding(l) == (IF Done(l, LockStep(l)) THEN l.amount ELSE 0) - GivenBack(l)
HeldExplained ==
    \A a \in Accounts : held[a] = SumFunctionOnSet([l \in LocksOf(a) |-> Outstanding(l)], LocksOf(a))
-----------------------------------------------------------------------------
(* The ledger: LedgerProofs says what its steps keep *)

LP == INSTANCE LedgerProofs WITH
        Keys <- Jobs \X Steps,
        Amounts <- {j.amount : j \in Jobs},
        Requests <- {},
        AccountsFirst <- {FALSE}, accountsFirst <- FALSE

LEMMA SameOps == LP!Ops = L!Ops
BY DEF LP!Ops, L!Ops, LP!Op, L!Op, LP!Credit, L!Credit, LP!Debit, L!Debit, LP!Lock, L!Lock,
       LP!Unlock, L!Unlock, LP!Move, L!Move, LP!UnlockAndMove, L!UnlockAndMove,
       LP!UnlockAndDebit, L!UnlockAndDebit, LP!Pairs, L!Pairs

LEMMA LedgerAssumptions == LP!LedgerAssumption /\ LP!RequestsAssumption
BY SameOps, ServiceAssumption, NoTransactionAssumption DEF LP!LedgerAssumption, LP!RequestsAssumption

LEMMA SameInvariant == (Ledger <=> LP!IInv) /\ (Ledger' <=> LP!IInv')
BY SameOps
   DEF Ledger, LP!IInv, LP!TypeOK, L!TypeOK, LP!StmtsHonest, L!StmtsHonest,
       LP!AnswersAreJournaled, L!AnswersAreJournaled, LP!Running, L!Running, LP!NoStmt, L!NoStmt,
       LP!Errors, L!Errors, LP!Parties, L!Parties

LEMMA SameSteps ==
  ASSUME NEW p \in Clients
  PROVE  /\ \A a : L!EnsureAccount(a) => LP!EnsureAccount(a)
         /\ \A r : L!Begin(p, r) => LP!Begin(p, r)
         /\ L!Step(p) => LP!Step(p)
         /\ L!Transacts(p) => LP!Transacts(p)
BY SameOps
   DEF LP!EnsureAccount, L!EnsureAccount, LP!Begin, L!Begin, LP!Step, L!Step, LP!ReturnFound,
       L!ReturnFound, LP!Commit, L!Commit, LP!CommitUnheard, L!CommitUnheard, LP!CommitPart,
       L!CommitPart, LP!Short, L!Short, LP!KeyTaken, L!KeyTaken, LP!Aborts, L!Aborts,
       LP!Transacts, L!Transacts, LP!Ends, L!Ends, LP!Throws, L!Throws, LP!NoStmt, L!NoStmt,
       LP!Parties, L!Parties, LP!Found, L!Found, LP!Covered, L!Covered, LP!UpdateRows, L!UpdateRows,
       LP!NewBalance, L!NewBalance, LP!NewHeld, L!NewHeld, LP!Moved, L!Moved, LP!Kept, L!Kept,
       LP!tables, L!tables

LEMMA EnsureLedger ==
  ASSUME Ledger, NEW a \in Accounts, NEW p \in Clients, L!EnsureAccount(a)
  PROVE  Ledger'
BY LedgerAssumptions, SameInvariant, SameSteps, LP!EnsureIInv

LEMMA BeginLedger ==
  ASSUME Ledger, NEW p \in Clients, NEW r \in [key : Jobs \X Steps, op : L!Ops], L!Begin(p, r)
  PROVE  Ledger'
BY LedgerAssumptions, SameInvariant, SameSteps, SameOps, LP!BeginIInv

LEMMA EndLedger ==
  ASSUME Ledger, NEW p \in Clients, L!Step(p)
  PROVE  Ledger'
BY LedgerAssumptions, SameInvariant, SameSteps, LP!EndIInv

\* A transaction is one more, under the key of its statement.
LEMMA TransactMoves ==
  ASSUME Ledger, NEW p \in Clients, L!Transacts(p)
  PROVE  /\ stmts[p].key \in Jobs \X Steps /\ stmts[p].op \in L!Ops /\ stmts[p].op # NoTx
         /\ journal[stmts[p].key] = NoTx
         /\ journal'[stmts[p].key] = stmts[p].op
         /\ \A k \in Jobs \X Steps : k # stmts[p].key => journal'[k] = journal[k]
<1>1. stmts[p].pc = "running"
  BY DEF L!Transacts, L!Ends
<1>2. stmts[p].key \in Jobs \X Steps /\ stmts[p].op \in L!Ops
  BY <1>1 DEF Ledger, L!TypeOK, L!Running, L!NoStmt
<1>3. journal[stmts[p].key] = NoTx /\ journal' = [journal EXCEPT ![stmts[p].key] = stmts[p].op]
  BY DEF L!Transacts
<1>4. DOMAIN journal = Jobs \X Steps
  BY DEF Ledger, L!TypeOK
<1> QED BY <1>2, <1>3, <1>4, NoTransactionAssumption

\* The end of a statement.
LEMMA EndMoves ==
  ASSUME Ledger, NEW p \in Clients, L!Step(p)
  PROVE  /\ Running(p) /\ stmts[p].key \in Jobs \X Steps
         /\ stmts'[p] = L!NoStmt /\ ~Running(p)'
         /\ \A q \in Clients \ {p} : stmts'[q] = stmts[q]
         /\ opened' = opened
         /\ journal' = journal \/ L!Transacts(p)
<1>1. L!Ends(p) /\ opened' = opened /\ (journal' = journal \/ L!Transacts(p))
  BY DEF L!Step, L!ReturnFound, L!Commit, L!CommitUnheard, L!CommitPart, L!Short, L!KeyTaken,
         L!Aborts, L!Transacts, L!tables
<1>2. Running(p) /\ stmts' = [stmts EXCEPT ![p] = L!NoStmt] /\ DOMAIN stmts = Clients
  BY <1>1 DEF Running, L!Ends, Ledger, L!TypeOK
<1>3. stmts[p].key \in Jobs \X Steps
  BY <1>2 DEF Running, Ledger, L!TypeOK, L!Running, L!NoStmt
<1>4. stmts'[p] = L!NoStmt
  BY <1>2
<1>5. ~Running(p)'
  BY <1>4 DEF Running, L!NoStmt
<1> QED BY <1>1, <1>2, <1>3, <1>4, <1>5

-----------------------------------------------------------------------------
(* What a step does *)

\* What has happened stays so.
Grow ==
    /\ setup' = setup
    /\ opened \subseteq opened' /\ sent \subseteq sent' /\ denied \subseteq denied'
    /\ \A j \in Jobs, s \in Steps : Done(j, s) => journal'[<<j, s>>] = journal[<<j, s>>]
    /\ \A j \in Jobs : outcome[j] # "unsent" => outcome'[j] # "unsent"

\* A run goes on from its stage, or throws: by a fault, or a statement that does nothing
\* to the transactions.
Fails(q, j) ==
    setup.faults \/ \E s \in Steps : /\ Running(q) /\ stmts[q].key = <<j, s>> /\ stmts[q].found = NoTx
                                   /\ journal' = journal
GoesOn(q, j) ==
    \/ runs[q].pc = "ensure" /\ j.destination \in opened' /\ runs'[q] = At(j, "main")
    \/ \E s \in Steps : runs[q].pc = s /\ Done(j, s)' /\ runs'[q] = AfterStatement(j, s)
    \/ Fails(q, j) /\ runs'[q] = Threw(j)
    \/ \E ok \in BOOLEAN : /\ runs[q].pc = "delegate" /\ j \in (IF ok THEN sent' ELSE denied')
                           /\ runs'[q] = AfterDelegate(j, ok)
RunMoves(q) ==
    \/ runs'[q] = runs[q]
    \/ runs'[q] = NoRun
    \/ runs[q] = NoRun /\ \E j \in Jobs : runs'[q] = First(j)
    \/ runs[q] # NoRun /\ \E j \in Jobs : runs[q].job = j /\ GoesOn(q, j)

\* A statement in flight is sent by its run.
Sends(q) ==
    /\ runs[q].pc \in Steps
    /\ stmts'[q] = [pc |-> "running", key |-> <<runs[q].job, runs[q].pc>>,
                    op |-> Statement(runs[q].job, runs[q].pc),
                    found |-> journal[<<runs[q].job, runs[q].pc>>], seen |-> opened]
StmtMoves(q) == Running(q)' => (Running(q) /\ stmts'[q] = stmts[q]) \/ Sends(q)

\* A transaction is that of a statement in flight, a call of a delegate that of a run, and
\* an outcome that of a run at its end.
JournalMoves(j, s) ==
    Done(j, s)' => Done(j, s) \/ \E q \in Clients :
        Running(q) /\ stmts[q].key = <<j, s>> /\ journal'[<<j, s>>] = stmts[q].op
DelegateMoves(j) ==
    \/ (j \in sent' => j \in sent) /\ (j \in denied' => j \in denied)
    \/ \E q \in Clients : runs[q].pc = "delegate" /\ runs[q].job = j
OutcomeMoves(j) ==
    \/ outcome'[j] = outcome[j]
    \/ outcome[j] = "unsent" /\ outcome'[j] = "pending" /\ Legal(j)
    \/ \E q \in Clients : runs[q].pc = "end" /\ runs[q].job = j /\ outcome'[j] = runs[q].out

Moves ==
    /\ Grow
    /\ \A q \in Clients : RunMoves(q) /\ StmtMoves(q)
    /\ \A j \in Jobs : (\A s \in Steps : JournalMoves(j, s)) /\ DelegateMoves(j) /\ OutcomeMoves(j)

\* Runs are as TypeOK says: the record of a stage, or of an end.
LEMMA RunTypes ==
  ASSUME TypeOK, NEW p \in Clients, runs[p] # NoRun
  PROVE  /\ runs[p] \in Run /\ runs[p].job \in Jobs
         /\ runs[p].pc \in Steps \cup {"ensure", "delegate", "end"}
         /\ runs[p].pc = "end" => runs[p].out \in {"success", "failure", "error"}
         /\ runs[p].pc # "end" => runs[p] = At(runs[p].job, runs[p].pc)
         /\ runs[p] = [job |-> runs[p].job, pc |-> runs[p].pc, out |-> runs[p].out]
<1>1. runs[p] \in Run
  BY DEF TypeOK
<1> QED BY <1>1 DEF Run, At, Returned, Steps

LEMMA StageTypes ==
  ASSUME NEW j \in Jobs
  PROVE  /\ First(j) \in Run /\ Threw(j) \in Run /\ At(j, "main") \in Run
         /\ \A s \in Steps : AfterStatement(j, s) \in Run
         /\ \A ok \in BOOLEAN : AfterDelegate(j, ok) \in Run
BY DEF Run, First, Threw, AfterStatement, AfterDelegate, Steps, At, Returned

LEMMA JobFields ==
  ASSUME NEW j \in Jobs
  PROVE  /\ First(j).job = j /\ Threw(j).job = j /\ At(j, "main").job = j
         /\ \A s \in Steps : AfterStatement(j, s).job = j
         /\ \A ok \in BOOLEAN : AfterDelegate(j, ok).job = j
BY DEF First, Threw, AfterStatement, AfterDelegate, Steps, At, Returned

LEMMA SomeRun == \A p \in Clients : runs[p].pc # "none" => runs[p] # NoRun
BY DEF NoRun

\* Only the run of p changes.
OneRun(p, run) ==
    /\ runs' = [runs EXCEPT ![p] = run]
    /\ \A q \in Clients \ {p} : runs'[q] = runs[q]
    /\ runs'[p] = run

LEMMA OneRunChanges ==
  ASSUME TypeOK, NEW p \in Clients, NEW run, runs' = [runs EXCEPT ![p] = run]
  PROVE  OneRun(p, run)
BY DEF TypeOK, OneRun

\* A step that leaves the ledger alone.
LEMMA LedgerStays ==
  ASSUME UNCHANGED <<opened, journal, stmts>>
  PROVE  /\ \A q \in Clients : StmtMoves(q)
         /\ \A j \in Jobs, s \in Steps : JournalMoves(j, s)
BY DEF StmtMoves, JournalMoves, Running, Done

LEMMA StartMoves ==
  ASSUME TypeOK, NEW p \in Clients, NEW j \in Jobs, Serve(p, j) \/ Recover(p, j)
  PROVE  Moves
<1>1. runs[p] = NoRun /\ runs' = [runs EXCEPT ![p] = First(j)]
      /\ UNCHANGED <<ledgerVars, setup, up, sent, denied, crashes>>
  BY DEF Serve, Recover, Free
<1>2. OneRun(p, First(j))
  BY <1>1, OneRunChanges
<1>3. \A q \in Clients : RunMoves(q)
  BY <1>1, <1>2 DEF RunMoves, OneRun
<1>4. \A x \in Jobs : outcome'[x] = outcome[x] \/
         (outcome[x] = "unsent" /\ outcome'[x] = "pending" /\ Legal(x))
  BY DEF Serve, Recover, TypeOK
<1>5. UNCHANGED <<opened, journal, stmts>>
  BY <1>1 DEF ledgerVars
<1>6. Grow
  BY <1>1, <1>4, <1>5 DEF Grow
<1> QED BY <1>1, <1>3, <1>4, <1>5, <1>6, LedgerStays DEF Moves, DelegateMoves, OutcomeMoves

LEMMA EnsureMoves ==
  ASSUME TypeOK, NEW p \in Clients, Ensure(p)
  PROVE  Moves
<1>1. runs[p] # NoRun /\ runs[p].pc = "ensure" /\ opened' = opened \cup {runs[p].job.destination}
      /\ UNCHANGED <<journal, stmts, setup, outcome, sent, denied>>
  BY SomeRun DEF Ensure, L!EnsureAccount
<1>2. runs[p] = At(runs[p].job, "ensure")
  BY <1>1, RunTypes
<1>3. runs' = [runs EXCEPT ![p] = At(runs[p].job, "main")]
  <2>1. [runs[p] EXCEPT !.pc = "main"] = At(runs[p].job, "main")
    BY <1>2 DEF At
  <2>2. runs' = [runs EXCEPT ![p] = [runs[p] EXCEPT !.pc = "main"]]
    BY DEF Ensure
  <2> QED BY <2>1, <2>2
<1>4. OneRun(p, At(runs[p].job, "main"))
  BY <1>3, OneRunChanges
<1>5. \A q \in Clients : RunMoves(q)
  BY <1>1, <1>4, RunTypes DEF RunMoves, GoesOn, OneRun
<1>6. Grow
  BY <1>1 DEF Grow
<1> QED BY <1>1, <1>5, <1>6
        DEF Moves, DelegateMoves, OutcomeMoves, StmtMoves, JournalMoves, Running, Done

LEMMA SendMoves ==
  ASSUME TypeOK, NEW p \in Clients, Send(p)
  PROVE  Moves
<1>1. /\ runs[p].pc \in Steps
      /\ stmts' = [stmts EXCEPT ![p] =
                     [pc |-> "running", key |-> <<runs[p].job, runs[p].pc>>,
                      op |-> Statement(runs[p].job, runs[p].pc),
                      found |-> journal[<<runs[p].job, runs[p].pc>>], seen |-> opened]]
      /\ UNCHANGED <<opened, journal, runs, setup, outcome, sent, denied>>
  BY DEF Send, L!Begin, L!tables
<1>2. Sends(p) /\ \A q \in Clients \ {p} : stmts'[q] = stmts[q]
  BY <1>1 DEF Sends, TypeOK, L!TypeOK
<1>3. \A q \in Clients : StmtMoves(q)
  BY <1>2 DEF StmtMoves, Running
<1>4. Grow
  BY <1>1 DEF Grow
<1> QED BY <1>1, <1>3, <1>4 DEF Moves, RunMoves, DelegateMoves, OutcomeMoves, JournalMoves, Done

\* The end of a statement, whatever becomes of its run.
LEMMA EndingMoves ==
  ASSUME TypeOK, Ledger, NEW p \in Clients, L!Step(p), UNCHANGED <<setup, outcome, sent, denied>>,
         \A q \in Clients : RunMoves(q)
  PROVE  Moves
<1>1. /\ Running(p) /\ ~Running(p)' /\ \A q \in Clients \ {p} : stmts'[q] = stmts[q]
      /\ opened' = opened /\ (journal' = journal \/ L!Transacts(p))
  BY EndMoves
<1>2. \A q \in Clients : StmtMoves(q)
  BY <1>1 DEF StmtMoves, Running
<1>3. ASSUME NEW j \in Jobs, NEW s \in Steps
      PROVE  JournalMoves(j, s) /\ (Done(j, s) => journal'[<<j, s>>] = journal[<<j, s>>])
  <2>1. CASE journal' = journal
    BY <2>1 DEF JournalMoves, Done
  <2>2. CASE L!Transacts(p)
    BY <1>1, <2>2, TransactMoves DEF JournalMoves, Done
  <2> QED BY <1>1, <2>1, <2>2
<1>4. Grow
  BY <1>1, <1>3 DEF Grow
<1> QED BY <1>2, <1>3, <1>4 DEF Moves, DelegateMoves, OutcomeMoves

\* A statement of a run is that of its stage.
LEMMA RunsStatement ==
  ASSUME TypeOK, NEW p \in Clients, runs[p] # NoRun, Running(p)
  PROVE  stmts[p].key = <<runs[p].job, runs[p].pc>> /\ stmts[p].key \in Jobs \X Steps
         /\ runs[p].pc \in Steps /\ JobOf(p) = runs[p].job /\ StepOf(p) = runs[p].pc
<1>1. stmts[p] # L!NoStmt
  BY DEF Running, L!NoStmt
<1>2. stmts[p].key = <<runs[p].job, runs[p].pc>>
  BY <1>1 DEF TypeOK
<1>3. stmts[p].key \in Jobs \X Steps
  BY DEF Running, TypeOK, L!TypeOK, L!Running, L!NoStmt
<1> QED BY <1>2, <1>3 DEF JobOf, StepOf

LEMMA ReturnsMoves ==
  ASSUME TypeOK, Ledger, NEW p \in Clients, Returns(p)
  PROVE  Moves
<1>1. /\ runs[p] # NoRun /\ (L!ReturnFound(p) \/ L!Commit(p)) /\ L!Step(p)
      /\ UNCHANGED <<setup, outcome, sent, denied>>
      /\ runs' = [runs EXCEPT ![p] = AfterStatement(runs[p].job, runs[p].pc)]
  BY DEF Returns, L!Step
<1>2. Running(p)
  BY <1>1, EndMoves
<1>3. stmts[p].key = <<runs[p].job, runs[p].pc>> /\ runs[p].pc \in Steps
  BY <1>1, <1>2, RunsStatement
<1>4. \E j \in Jobs, s \in Steps : runs[p].job = j /\ runs[p].pc = s /\ Done(j, s)'
  <2>1. journal'[stmts[p].key] # NoTx
    <3>1. CASE L!ReturnFound(p)
      BY <1>2, <3>1 DEF L!ReturnFound, L!tables, Ledger, L!StmtsHonest, Running
    <3>2. CASE L!Commit(p)
      BY <3>2, TransactMoves DEF L!Commit
    <3> QED BY <1>1, <3>1, <3>2
  <2>2. PICK j \in Jobs, s \in Steps : j = runs[p].job /\ s = runs[p].pc
    BY <1>1, <1>3, RunTypes
  <2>3. Done(j, s)'
    BY <1>3, <2>1, <2>2 DEF Done
  <2> QED BY <2>2, <2>3
<1>5. OneRun(p, AfterStatement(runs[p].job, runs[p].pc))
  BY <1>1, OneRunChanges
<1>6. \A q \in Clients : RunMoves(q)
  BY <1>1, <1>3, <1>4, <1>5, RunTypes DEF RunMoves, GoesOn, OneRun
<1> QED BY <1>1, <1>6, EndingMoves

LEMMA ThrowsMoves ==
  ASSUME TypeOK, Ledger, NEW p \in Clients, Throws(p)
  PROVE  Moves
<1>1. /\ runs[p] # NoRun /\ L!Step(p) /\ UNCHANGED <<setup, outcome, sent, denied>>
      /\ runs' = [runs EXCEPT ![p] = Threw(runs[p].job)]
  BY DEF Throws, L!Step
<1>2. OneRun(p, Threw(runs[p].job))
  BY <1>1, OneRunChanges
<1>3. Fails(p, runs[p].job)
  <2>1. setup.faults \/ (stmts[p].found = NoTx /\ journal' = journal)
    BY DEF Throws, L!CommitPart, L!Short, L!KeyTaken, L!tables
  <2>2. Running(p) /\ stmts[p].key = <<runs[p].job, runs[p].pc>> /\ runs[p].pc \in Steps
    BY <1>1, EndMoves, RunsStatement
  <2> QED BY <2>1, <2>2 DEF Fails
<1>4. \A q \in Clients : RunMoves(q)
  BY <1>1, <1>2, <1>3, RunTypes DEF RunMoves, GoesOn, OneRun
<1> QED BY <1>1, <1>4, EndingMoves

LEMMA OrphanMoves ==
  ASSUME TypeOK, Ledger, NEW p \in Clients, Orphaned(p)
  PROVE  Moves
<1>1. L!Step(p) /\ UNCHANGED <<setup, outcome, sent, denied, runs>>
  BY DEF Orphaned
<1> QED BY <1>1, EndingMoves DEF RunMoves

LEMMA DelegateCallMoves ==
  ASSUME TypeOK, NEW p \in Clients, (\E ok \in BOOLEAN : DelegateAnswers(p, ok)) \/ DelegateThrows(p)
  PROVE  Moves
<1>1. runs[p].pc = "delegate" /\ runs[p] # NoRun
      /\ UNCHANGED <<opened, journal, stmts, setup, outcome>>
  BY SomeRun DEF DelegateAnswers, DelegateThrows, ledgerVars
<1>2. /\ sent' \in {sent, sent \cup {runs[p].job}} /\ denied' \in {denied, denied \cup {runs[p].job}}
      /\ \/ setup.faults /\ runs' = [runs EXCEPT ![p] = Threw(runs[p].job)]
         \/ \E ok \in BOOLEAN : runs' = [runs EXCEPT ![p] = AfterDelegate(runs[p].job, ok)]
                                /\ runs[p].job \in (IF ok THEN sent' ELSE denied')
  BY DEF DelegateAnswers, DelegateThrows
<1>3. \A q \in Clients : RunMoves(q)
  <2>1. CASE setup.faults /\ runs' = [runs EXCEPT ![p] = Threw(runs[p].job)]
    <3>1. OneRun(p, Threw(runs[p].job))
      BY <2>1, OneRunChanges
    <3> QED BY <1>1, <2>1, <3>1, RunTypes, ZenonT(30) DEF RunMoves, GoesOn, Fails, OneRun
  <2>2. ASSUME NEW ok \in BOOLEAN, runs' = [runs EXCEPT ![p] = AfterDelegate(runs[p].job, ok)],
               runs[p].job \in (IF ok THEN sent' ELSE denied')
        PROVE  \A q \in Clients : RunMoves(q)
    <3>1. OneRun(p, AfterDelegate(runs[p].job, ok))
      BY <2>2, OneRunChanges
    <3> QED BY <1>1, <2>2, <3>1, RunTypes DEF RunMoves, GoesOn, OneRun
  <2> QED BY <1>2, <2>1, <2>2
<1>4. Grow
  BY <1>1, <1>2 DEF Grow
<1>5. \A j \in Jobs : DelegateMoves(j)
  BY <1>1, <1>2 DEF DelegateMoves
<1> QED BY <1>1, <1>3, <1>4, <1>5, LedgerStays DEF Moves, OutcomeMoves

LEMMA FinishMoves ==
  ASSUME TypeOK, NEW p \in Clients, Finish(p)
  PROVE  Moves
<1>1. /\ runs[p].pc = "end" /\ runs[p] # NoRun
      /\ UNCHANGED <<opened, journal, stmts, setup, sent, denied>>
      /\ outcome' = [outcome EXCEPT ![runs[p].job] = runs[p].out]
      /\ runs' = [runs EXCEPT ![p] = NoRun]
  BY SomeRun DEF Finish, ledgerVars
<1>2. runs[p].out \in {"success", "failure", "error"} /\ runs[p].job \in Jobs
  BY <1>1, RunTypes
<1>3. OneRun(p, NoRun)
  BY <1>1, OneRunChanges
<1>4. \A q \in Clients : RunMoves(q)
  BY <1>3, RunTypes DEF RunMoves, OneRun
<1>5. \A j \in Jobs : outcome'[j] = IF j = runs[p].job THEN runs[p].out ELSE outcome[j]
  BY <1>1 DEF TypeOK
<1>6. Grow
  BY <1>1, <1>2, <1>5 DEF Grow
<1>7. \A j \in Jobs : OutcomeMoves(j)
  BY <1>1, <1>5 DEF OutcomeMoves
<1> QED BY <1>1, <1>4, <1>6, <1>7, LedgerStays DEF Moves, DelegateMoves

LEMMA ProcessMoves ==
  ASSUME TypeOK, Crash \/ Restart \/ UNCHANGED vars
  PROVE  Moves
<1>1. UNCHANGED <<opened, journal, stmts, setup, outcome, sent, denied>>
  BY DEF Crash, Restart, vars, ledgerVars
<1>2. \A q \in Clients : RunMoves(q)
  BY DEF Crash, Restart, vars, RunMoves
<1>3. Grow
  BY <1>1 DEF Grow
<1> QED BY <1>1, <1>2, <1>3, LedgerStays DEF Moves, DelegateMoves, OutcomeMoves

LEMMA StepMoves == TypeOK /\ Ledger /\ [Next]_vars => Moves
<1> SUFFICES ASSUME TypeOK, Ledger, [Next]_vars PROVE Moves
  OBVIOUS
<1> QED
  BY StartMoves, EnsureMoves, SendMoves, ReturnsMoves, ThrowsMoves, OrphanMoves,
     DelegateCallMoves, FinishMoves, ProcessMoves
     DEF Next, RunStep

-----------------------------------------------------------------------------
(* Types *)

\* What a job asks of the ledger is one of its operations.
LEMMA StatementOps ==
  ASSUME NEW j \in Jobs, NEW s \in Steps, Fits(j, s)
  PROVE  Statement(j, s) \in L!Ops
<1>1. /\ j.method \in Methods /\ (j.method # "issue" => j.source \in Accounts)
      /\ (j.method \in {"issue", "transfer", "release"} => j.destination \in Accounts)
      /\ j.source # j.destination
  BY ServiceAssumption
<1>2. \A a \in Accounts :
        /\ L!Credit(a, j.amount) \in L!Ops /\ L!Debit(a, j.amount) \in L!Ops
        /\ L!Lock(a, j.amount) \in L!Ops /\ L!Unlock(a, j.amount) \in L!Ops
        /\ L!UnlockAndDebit(a, j.amount) \in L!Ops
  BY DEF L!Ops
<1>3. \A a, b \in Accounts : a # b =>
        L!Move(a, b, j.amount) \in L!Ops /\ L!UnlockAndMove(a, b, j.amount) \in L!Ops
  <2> SUFFICES ASSUME NEW a \in Accounts, NEW b \in Accounts, a # b
               PROVE  L!Move(a, b, j.amount) \in L!Ops /\ L!UnlockAndMove(a, b, j.amount) \in L!Ops
    OBVIOUS
  <2>1. <<a, b>> \in L!Pairs
    BY DEF L!Pairs
  <2>2. L!Move(<<a, b>>[1], <<a, b>>[2], j.amount) \in L!Ops
    BY <2>1 DEF L!Ops
  <2>3. L!UnlockAndMove(<<a, b>>[1], <<a, b>>[2], j.amount) \in L!Ops
    BY <2>1 DEF L!Ops
  <2> QED BY <2>2, <2>3
<1>4. CASE s = "main"
  <2>1. j.method # "payout"
    BY <1>4 DEF Fits
  <2> HIDE DEF L!Ops
  <2>2. Main(j) \in L!Ops
    BY <1>1, <1>2, <1>3, <2>1 DEF Main, Methods, UsesHold
  <2> QED BY <1>4, <2>2 DEF Statement
<1>5. CASE s # "main"
  <2>1. j.source \in Accounts
    BY <1>1, <1>5 DEF Fits, Steps
  <2> QED BY <1>2, <1>5, <2>1 DEF Statement, Steps
<1> QED BY <1>4, <1>5

LEMMA LedgerKept ==
  ASSUME Ledger, UNCHANGED <<opened, balance, held, journal, stmts, answers, refused>>,
         faults' \in 0..MaxFaults
  PROVE  Ledger'
BY DEF Ledger, L!TypeOK, L!StmtsHonest, L!AnswersAreJournaled

LEMMA StepLedger == TypeOK /\ Ledger /\ RunsReached /\ [Next]_vars => Ledger'
<1> SUFFICES ASSUME TypeOK, Ledger, RunsReached, [Next]_vars PROVE Ledger'
  OBVIOUS
<1>1. CASE UNCHANGED ledgerVars
  BY <1>1, LedgerKept DEF ledgerVars, Ledger, L!TypeOK
<1>2. ASSUME NEW p \in Clients, Ensure(p) PROVE Ledger'
  <2>1. runs[p] # NoRun /\ runs[p].pc = "ensure" /\ L!EnsureAccount(runs[p].job.destination)
    BY <1>2, SomeRun DEF Ensure
  <2>2. runs[p].job \in Jobs /\ Fits(runs[p].job, "ensure")
    BY <2>1, RunTypes DEF RunsReached, Reached
  <2>3. runs[p].job.destination \in Accounts
    BY <2>2, ServiceAssumption DEF Fits
  <2> QED BY <2>1, <2>3, EnsureLedger
<1>3. ASSUME NEW p \in Clients, Send(p) PROVE Ledger'
  <2>1. runs[p].pc \in Steps /\ runs[p] # NoRun
    BY <1>3, SomeRun DEF Send, Steps
  <2>2. runs[p].job \in Jobs /\ Fits(runs[p].job, runs[p].pc)
    BY <2>1, RunTypes DEF RunsReached, Reached
  <2> DEFINE r == [key |-> <<runs[p].job, runs[p].pc>>, op |-> Statement(runs[p].job, runs[p].pc)]
  <2>3. r \in [key : Jobs \X Steps, op : L!Ops]
    BY <2>1, <2>2, StatementOps
  <2>4. L!Begin(p, r)
    BY <1>3 DEF Send
  <2> HIDE DEF r
  <2> QED BY <2>3, <2>4, BeginLedger
<1>4. ASSUME NEW p \in Clients, Returns(p) \/ Throws(p) \/ Orphaned(p) PROVE Ledger'
  <2>1. L!Step(p)
    BY <1>4 DEF Returns, Throws, Orphaned, L!Step
  <2> QED BY <2>1, EndLedger
<1>5. ASSUME NEW p \in Clients, DelegateThrows(p) PROVE Ledger'
  <2>1. faults' \in 0..MaxFaults
    BY <1>5, ServiceAssumption DEF DelegateThrows, Ledger, L!TypeOK
  <2> QED BY <1>5, <2>1, LedgerKept DEF DelegateThrows
<1> QED
  BY <1>1, <1>2, <1>3, <1>4, <1>5
     DEF Next, RunStep, Serve, Recover, DelegateAnswers, Finish, Crash, Restart, vars

\* A run that has no statement in flight: what its stage says.
LEMMA NoStatement ==
  ASSUME TypeOK, NEW p \in Clients, runs[p] # NoRun, runs[p].pc \notin Steps
  PROVE  stmts[p] = L!NoStmt /\ ~Running(p)
<1>1. ~Running(p)
  BY RunsStatement
<1> QED BY <1>1 DEF TypeOK, L!TypeOK, Running, L!Running

Outs == {"unsent", "pending", "success", "failure", "error"}

LEMMA StepTypes == TypeOK /\ Ledger /\ Ledger' /\ [Next]_vars => TypeOK'
<1> SUFFICES ASSUME TypeOK, Ledger, Ledger', [Next]_vars PROVE TypeOK'
  OBVIOUS
<1>1. L!TypeOK'
  BY DEF Ledger
<1>2. /\ setup \in SetupType /\ up \in BOOLEAN /\ runs \in [Clients -> Run \cup {NoRun}]
      /\ outcome \in [Jobs -> Outs] /\ sent \subseteq Jobs /\ denied \subseteq Jobs
      /\ crashes \in 0..MaxCrashes
      /\ \A q \in Clients : runs[q] # NoRun /\ stmts[q] # L!NoStmt =>
            stmts[q].key = <<runs[q].job, runs[q].pc>>
  BY DEF TypeOK, Outs
<1> HIDE DEF Run, NoRun, L!NoStmt, SetupType, Outs
\* one run changes, and has no statement in flight then
<1>3. ASSUME NEW p \in Clients, NEW run \in Run \cup {NoRun}, runs' = [runs EXCEPT ![p] = run],
             \A q \in Clients \ {p} : stmts'[q] = stmts[q], run = NoRun \/ stmts'[p] = L!NoStmt,
             UNCHANGED <<setup, up, crashes>>, outcome' \in [Jobs -> Outs],
             sent' \subseteq Jobs, denied' \subseteq Jobs
      PROVE  TypeOK'
  <2>1. runs' \in [Clients -> Run \cup {NoRun}] /\ OneRun(p, run)
    BY <1>2, <1>3, OneRunChanges
  <2>2. \A q \in Clients : runs'[q] # NoRun /\ stmts'[q] # L!NoStmt =>
            stmts'[q].key = <<runs'[q].job, runs'[q].pc>>
    BY <1>2, <1>3, <2>1 DEF OneRun
  <2> QED BY <1>1, <1>2, <1>3, <2>1, <2>2 DEF TypeOK, Outs
<1>4. ASSUME NEW p \in Clients, NEW j \in Jobs, Serve(p, j) \/ Recover(p, j) PROVE TypeOK'
  <2>1. outcome' \in [Jobs -> Outs]
    BY <1>2, <1>4 DEF Serve, Recover, Outs
  <2> QED BY <1>2, <1>3, <1>4, <2>1, StageTypes DEF Serve, Recover, Free, ledgerVars
<1>5. ASSUME NEW p \in Clients, Ensure(p) PROVE TypeOK'
  <2>1. runs[p] # NoRun /\ runs[p].pc = "ensure" /\ runs[p].job \in Jobs
        /\ runs[p] = At(runs[p].job, "ensure")
    BY <1>5, SomeRun, RunTypes DEF Ensure
  <2>2. [runs[p] EXCEPT !.pc = "main"] = At(runs[p].job, "main")
    BY <2>1 DEF At
  <2>3. runs' = [runs EXCEPT ![p] = At(runs[p].job, "main")]
    BY <1>5, <2>2 DEF Ensure
  <2>4. stmts[p] = L!NoStmt
    BY <2>1, NoStatement DEF Steps
  <2> QED BY <1>2, <1>3, <1>5, <2>1, <2>3, <2>4, StageTypes DEF Ensure, L!EnsureAccount
<1>6. ASSUME NEW p \in Clients, Send(p) PROVE TypeOK'
  <2>1. \A q \in Clients \ {p} : stmts'[q] = stmts[q]
    BY <1>6 DEF Send, L!Begin, TypeOK, L!TypeOK
  <2>2. stmts'[p].key = <<runs[p].job, runs[p].pc>>
    BY <1>6 DEF Send, L!Begin, TypeOK, L!TypeOK
  <2> QED BY <1>1, <1>2, <1>6, <2>1, <2>2 DEF Send, TypeOK, Outs
<1>7. ASSUME NEW p \in Clients, Returns(p) \/ Throws(p) PROVE TypeOK'
  <2>1. L!Step(p) /\ runs[p] # NoRun /\ UNCHANGED <<setup, up, outcome, sent, denied, crashes>>
        /\ \E run \in {Threw(runs[p].job), AfterStatement(runs[p].job, runs[p].pc)} :
               runs' = [runs EXCEPT ![p] = run]
    BY <1>7 DEF Returns, Throws, L!Step
  <2>2. stmts'[p] = L!NoStmt /\ \A q \in Clients \ {p} : stmts'[q] = stmts[q]
    BY <2>1, EndMoves
  <2>3. runs[p].job \in Jobs /\ runs[p].pc \in Steps
    BY <2>1, EndMoves, RunsStatement, RunTypes
  <2>4. PICK run \in {Threw(runs[p].job), AfterStatement(runs[p].job, runs[p].pc)} :
            runs' = [runs EXCEPT ![p] = run]
    BY <2>1
  <2>5. run \in Run \cup {NoRun}
    BY <2>3, <2>4, StageTypes
  <2>6. outcome' \in [Jobs -> Outs] /\ sent' \subseteq Jobs /\ denied' \subseteq Jobs
        /\ UNCHANGED <<setup, up, crashes>>
    BY <1>2, <2>1
  <2> QED BY <1>3, <2>2, <2>4, <2>5, <2>6
<1>8. ASSUME NEW p \in Clients, (\E ok \in BOOLEAN : DelegateAnswers(p, ok)) \/ DelegateThrows(p)
      PROVE  TypeOK'
  <2>1. runs[p].pc = "delegate" /\ runs[p] # NoRun /\ UNCHANGED <<stmts, setup, up, outcome, crashes>>
    BY <1>8, SomeRun DEF DelegateAnswers, DelegateThrows, ledgerVars
  <2>2. stmts[p] = L!NoStmt /\ runs[p].job \in Jobs
    BY <2>1, NoStatement, RunTypes DEF Steps
  <2>3. PICK run \in Run : runs' = [runs EXCEPT ![p] = run]
    BY <1>8, <2>2, StageTypes DEF DelegateAnswers, DelegateThrows
  <2>4. sent' \subseteq Jobs /\ denied' \subseteq Jobs
    BY <1>2, <1>8, <2>2 DEF DelegateAnswers, DelegateThrows
  <2> QED BY <1>2, <1>3, <2>1, <2>2, <2>3, <2>4
<1>9. ASSUME NEW p \in Clients, Finish(p) PROVE TypeOK'
  <2>1. runs[p].out \in Outs /\ runs[p].job \in Jobs
    BY <1>9, SomeRun, RunTypes DEF Finish, Outs
  <2>2. outcome' \in [Jobs -> Outs]
    BY <1>2, <1>9, <2>1 DEF Finish
  <2> QED BY <1>2, <1>3, <1>9, <2>2 DEF Finish, ledgerVars
<1>10. CASE Crash
  <2>1. runs' \in [Clients -> Run \cup {NoRun}] /\ \A q \in Clients : runs'[q] = NoRun
    BY <1>10 DEF Crash
  <2>2. crashes' \in 0..MaxCrashes
    <3>1. crashes \in 0..MaxCrashes /\ MaxCrashes \in Nat
      BY <1>2, ServiceAssumption
    <3>2. crashes < MaxCrashes /\ crashes' = crashes + 1
      BY <1>10 DEF Crash
    <3> QED BY ONLY <3>1, <3>2
  <2>3. up' \in BOOLEAN
    BY <1>10 DEF Crash
  <2> QED BY <1>1, <1>2, <1>10, <2>1, <2>2, <2>3 DEF Crash, TypeOK, Outs
<1>11. ASSUME NEW p \in Clients, Orphaned(p) PROVE TypeOK'
  <2>1. \A q \in Clients \ {p} : stmts'[q] = stmts[q]
    BY <1>11, EndMoves DEF Orphaned
  <2> QED BY <1>1, <1>2, <1>11, <2>1 DEF Orphaned, TypeOK, Outs
<1>12. CASE Restart \/ UNCHANGED vars
  BY <1>1, <1>2, <1>12 DEF Restart, vars, ledgerVars, TypeOK, Outs
<1> QED
  BY <1>4, <1>5, <1>6, <1>7, <1>8, <1>9, <1>10, <1>11, <1>12 DEF Next, RunStep

-----------------------------------------------------------------------------
(* Stages *)

LEMMA ReachedStays ==
  ASSUME Grow, NEW j \in Jobs, NEW pc, Reached(j, pc)
  PROVE  Reached(j, pc)'
<1>1. \A s \in Steps : Done(j, s) => Done(j, s)'
  BY DEF Grow, Done
<1>2. LockStep(j) \in Steps /\ "hold" \in Steps
  BY DEF LockStep, Steps
<1>3. Fits(j, pc)'
  BY DEF Grow, Reached, Fits, NeedsDelegate
<1>4. Ready(j, pc)'
  BY <1>1, <1>2 DEF Grow, Reached, Ready
<1> QED BY <1>3, <1>4 DEF Reached

LEMMA FirstReached ==
  ASSUME NEW j \in Jobs
  PROVE  Reached(j, First(j).pc)
BY ServiceAssumption DEF Methods, First, Reached, Fits, Ready, At, Returned, NeedsDelegate, Locks

LEMMA EndReached == \A j \in Jobs : Reached(j, "end")'
BY DEF Reached, Fits, Ready

LEMMA MainReached ==
  ASSUME NEW j \in Jobs, Reached(j, "ensure")', j.destination \in opened'
  PROVE  Reached(j, "main")'
BY DEF Reached, Fits, Ready, Locks

LEMMA StatementReached ==
  ASSUME Grow, NEW j \in Jobs, NEW s \in Steps, Reached(j, s)', Done(j, s)',
         NEW pc, pc = AfterStatement(j, s).pc
  PROVE  Reached(j, pc)'
<1>1. CASE pc = "end"
  BY <1>1, EndReached
<1>2. CASE pc # "end"
  <2>1. pc = "delegate" /\ (s = "hold" \/ (s = "main" /\ j.method = "hold" /\ setup'.escrow))
    BY <1>2 DEF AfterStatement, At, Returned, Grow
  <2>2. Fits(j, "delegate")'
    BY <2>1 DEF Reached, Fits, NeedsDelegate
  <2>3. Ready(j, "delegate")'
    BY <2>1 DEF Ready, Locks, LockStep, Reached, Fits
  <2> QED BY <2>1, <2>2, <2>3 DEF Reached
<1> QED BY <1>1, <1>2

LEMMA DelegateReached ==
  ASSUME Grow, NEW j \in Jobs, NEW ok \in BOOLEAN, Reached(j, "delegate")',
         j \in (IF ok THEN sent' ELSE denied'), NEW pc, pc = AfterDelegate(j, ok).pc
  PROVE  Reached(j, pc)'
<1>1. CASE pc = "end"
  BY <1>1, EndReached
<1>2. CASE pc # "end"
  <2>1. \/ ok /\ j.method = "payout" /\ pc = "debit"
        \/ ok /\ j.method = "release" /\ pc = "ensure"
        \/ ok /\ j.method = "rollback" /\ pc = "main"
        \/ ~ok /\ j.method \in {"payout", "hold"} /\ pc = "unlock"
    BY <1>2 DEF AfterDelegate, At, Returned
  <2> QED BY <2>1 DEF Reached, Fits, Ready, Locks, LockStep, NeedsDelegate
<1> QED BY <1>1, <1>2

LEMMA StepRunsReached == TypeOK /\ RunsReached /\ Moves => RunsReached'
<1> SUFFICES ASSUME TypeOK, RunsReached, Moves, NEW q \in Clients, runs'[q] # NoRun
             PROVE  Reached(runs[q].job, runs[q].pc)'
  BY DEF RunsReached
<1>1. Grow /\ RunMoves(q)
  BY DEF Moves
<1>2. CASE runs'[q] = runs[q]
  <2>1. runs[q].job \in Jobs /\ Reached(runs[q].job, runs[q].pc)
    BY <1>2, RunTypes DEF RunsReached
  <2>2. PICK j, pc : j \in Jobs /\ j = runs[q].job /\ pc = runs[q].pc
    BY <2>1
  <2>3. Reached(j, pc)'
    BY <1>1, <2>1, <2>2, ReachedStays
  <2> QED BY <1>2, <2>2, <2>3
<1>3. ASSUME NEW j \in Jobs, runs'[q] = First(j)
      PROVE  Reached(runs[q].job, runs[q].pc)'
  <2>1. PICK pc : pc = First(j).pc
    OBVIOUS
  <2>2. Reached(j, pc)'
    BY <1>1, <2>1, FirstReached, ReachedStays
  <2> QED BY <1>3, <2>1, <2>2, JobFields
<1>4. ASSUME NEW j \in Jobs, runs[q].job = j, runs[q] # NoRun, GoesOn(q, j)
      PROVE  Reached(runs[q].job, runs[q].pc)'
  <2> PICK pc : pc = runs[q].pc
    OBVIOUS
  <2>1. Reached(j, pc)'
    BY <1>1, <1>4, ReachedStays DEF RunsReached
  <2>2. runs'[q].job = j
    BY <1>4, JobFields DEF GoesOn
  <2>3. PICK to : to = runs'[q].pc
    OBVIOUS
  <2>4. Reached(j, to)'
    <3>1. CASE runs[q].pc = "ensure" /\ j.destination \in opened' /\ runs'[q] = At(j, "main")
      BY <2>1, <2>3, <3>1, MainReached DEF At
    <3>2. CASE \E s \in Steps : runs[q].pc = s /\ Done(j, s)' /\ runs'[q] = AfterStatement(j, s)
      BY <1>1, <2>1, <2>3, <3>2, StatementReached
    <3>3. CASE runs'[q] = Threw(j)
      BY <2>3, <3>3, EndReached DEF Threw, Returned
    <3>4. CASE \E ok \in BOOLEAN : /\ runs[q].pc = "delegate" /\ j \in (IF ok THEN sent' ELSE denied')
                                   /\ runs'[q] = AfterDelegate(j, ok)
      BY <1>1, <2>1, <2>3, <3>4, DelegateReached
    <3> QED BY <1>4, <3>1, <3>2, <3>3, <3>4 DEF GoesOn
  <2> QED BY <2>2, <2>3, <2>4
<1> QED BY <1>1, <1>2, <1>3, <1>4 DEF RunMoves

LEMMA StepStmtsReached ==
  TypeOK /\ RunsReached /\ StmtsReached /\ Single /\ Moves => StmtsReached'
<1> SUFFICES ASSUME TypeOK, RunsReached, StmtsReached, Single, Moves, NEW q \in Clients, Running(q)'
             PROVE  /\ stmts'[q].op = Statement(JobOf(q)', StepOf(q)')
                    /\ Reached(JobOf(q), StepOf(q))'
                    /\ StepOf(q)' = "main" /\ JobOf(q)'.method \in {"issue", "transfer", "release"}
                          => JobOf(q)'.destination \in stmts'[q].seen
                    /\ outcome'[JobOf(q)'] # "unsent"
  BY DEF StmtsReached, Statement, Main, UsesHold
<1>1. Grow /\ StmtMoves(q)
  BY DEF Moves
<1>2. PICK j \in Jobs, s \in Steps :
        /\ JobOf(q)' = j /\ StepOf(q)' = s /\ stmts'[q].op = Statement(j, s) /\ Reached(j, s)
        /\ s = "main" /\ j.method \in {"issue", "transfer", "release"} => j.destination \in stmts'[q].seen
        /\ outcome[j] # "unsent"
  <2>1. CASE Running(q) /\ stmts'[q] = stmts[q]
    <3>1. stmts[q].key \in Jobs \X Steps
      BY <2>1 DEF Running, TypeOK, L!TypeOK, L!Running, L!NoStmt
    <3>2. JobOf(q) \in Jobs /\ StepOf(q) \in Steps /\ JobOf(q)' = JobOf(q) /\ StepOf(q)' = StepOf(q)
      BY <2>1, <3>1 DEF JobOf, StepOf
    <3> QED BY <2>1, <3>2 DEF StmtsReached
  <2>2. CASE Sends(q)
    <3>1. runs[q] # NoRun /\ runs[q].pc \in Steps
      BY <2>2, SomeRun DEF Sends, Steps
    <3>2. /\ runs[q].job \in Jobs /\ Reached(runs[q].job, runs[q].pc)
          /\ outcome[runs[q].job] = "pending"
      BY <3>1, RunTypes DEF RunsReached, Single
    <3>3. JobOf(q)' = runs[q].job /\ StepOf(q)' = runs[q].pc /\ stmts'[q].seen = opened
          /\ stmts'[q].op = Statement(runs[q].job, runs[q].pc)
      BY <2>2 DEF Sends, JobOf, StepOf
    <3> QED BY <3>1, <3>2, <3>3 DEF Reached, Ready
  <2> QED BY <1>1, <2>1, <2>2 DEF StmtMoves
<1>3. Reached(j, s)'
  BY <1>1, <1>2, ReachedStays
<1> QED BY <1>1, <1>2, <1>3 DEF Grow

LEMMA RunningTypes ==
  ASSUME TypeOK, NEW p \in Clients, Running(p)
  PROVE  /\ stmts[p].key = <<JobOf(p), StepOf(p)>> /\ stmts[p].key \in Jobs \X Steps
         /\ JobOf(p) \in Jobs /\ StepOf(p) \in Steps
<1>1. stmts[p].key \in Jobs \X Steps
  BY DEF Running, TypeOK, L!TypeOK, L!Running, L!NoStmt
<1> QED BY <1>1 DEF JobOf, StepOf

LEMMA StepJournalReached == TypeOK /\ StmtsReached /\ JournalReached /\ Moves => JournalReached'
<1> SUFFICES ASSUME TypeOK, StmtsReached, JournalReached, Moves,
                    NEW j \in Jobs, NEW s \in Steps, Done(j, s)'
             PROVE  journal'[<<j, s>>] = Statement(j, s) /\ Reached(j, s)' /\ outcome'[j] # "unsent"
  BY DEF JournalReached, Statement, Main, UsesHold
<1>1. Grow /\ JournalMoves(j, s)
  BY DEF Moves
<1>2. journal'[<<j, s>>] = Statement(j, s) /\ Reached(j, s) /\ outcome[j] # "unsent"
  <2>1. CASE Done(j, s)
    BY <1>1, <2>1 DEF Grow, JournalReached
  <2>2. ASSUME NEW q \in Clients, Running(q), stmts[q].key = <<j, s>>,
               journal'[<<j, s>>] = stmts[q].op
        PROVE  journal'[<<j, s>>] = Statement(j, s) /\ Reached(j, s) /\ outcome[j] # "unsent"
    <3>1. JobOf(q) = j /\ StepOf(q) = s
      BY <2>2 DEF JobOf, StepOf
    <3> QED BY <2>2, <3>1 DEF StmtsReached
  <2> QED BY <1>1, <2>1, <2>2 DEF JournalMoves
<1>3. Reached(j, s)'
  BY <1>1, <1>2, ReachedStays
<1> QED BY <1>1, <1>2, <1>3 DEF Grow

LEMMA StepDelegatesReached ==
  TypeOK /\ TypeOK' /\ RunsReached /\ DelegatesReached /\ Moves => DelegatesReached'
<1> SUFFICES ASSUME TypeOK, RunsReached, DelegatesReached, Moves, TypeOK',
                    NEW j \in sent' \cup denied', j \in Jobs
             PROVE  Reached(j, "delegate")'
  BY DEF DelegatesReached, TypeOK
<1>1. Grow /\ DelegateMoves(j)
  BY DEF Moves
<1>2. Reached(j, "delegate")
  BY <1>1, SomeRun DEF DelegateMoves, DelegatesReached, RunsReached
<1> QED BY <1>1, <1>2, ReachedStays

-----------------------------------------------------------------------------
(* Successes, and one run of a job *)

LEMMA BackedStays ==
  ASSUME Grow, NEW j \in Jobs, Backed(j)
  PROVE  Backed(j)'
<1>1. \A s \in Steps : Done(j, s) => Done(j, s)'
  BY DEF Grow, Done
<1> QED BY <1>1 DEF Grow, Backed, NeedsDelegate, Steps

\* What ends in success was at the stage that backs it.
LEMMA StatementBacks ==
  ASSUME Grow, NEW j \in Jobs, NEW s \in Steps, Reached(j, s)', Done(j, s)',
         NEW run, run = AfterStatement(j, s), run.pc = "end", run.out = "success"
  PROVE  Backed(j)'
<1>1. s \in {"main", "debit"} /\ ~(s = "main" /\ j.method = "hold" /\ setup'.escrow)
  BY DEF AfterStatement, At, Returned, Grow, Steps
<1> QED BY <1>1 DEF Backed, Reached, Fits, Ready, NeedsDelegate, Steps

LEMMA DelegateBacks ==
  ASSUME NEW j \in Jobs, NEW ok \in BOOLEAN, Reached(j, "delegate")',
         j \in (IF ok THEN sent' ELSE denied'),
         NEW run, run = AfterDelegate(j, ok), run.pc = "end", run.out = "success"
  PROVE  Backed(j)'
<1>1. ok /\ j.method = "hold"
  BY DEF AfterDelegate, At, Returned
<1> QED BY <1>1 DEF Backed, Reached, Ready, Locks, LockStep

LEMMA FirstFails == \A j \in Jobs : First(j).pc = "end" => First(j) = Returned(j, "failure")
BY DEF First, At, Returned

LEMMA StepSuccessesBacked ==
  TypeOK /\ RunsReached /\ SuccessesBacked /\ Moves => SuccessesBacked'
<1> SUFFICES ASSUME TypeOK, RunsReached, SuccessesBacked, Moves PROVE SuccessesBacked'
  OBVIOUS
<1>1. ASSUME NEW j \in Jobs, outcome'[j] = "success" PROVE Backed(j)'
  <2>1. Grow /\ OutcomeMoves(j)
    BY DEF Moves
  <2>2. Backed(j)
    BY <1>1, <2>1 DEF OutcomeMoves, SuccessesBacked
  <2> QED BY <2>1, <2>2, BackedStays
<1>2. ASSUME NEW q \in Clients, runs'[q].pc = "end", runs'[q].out = "success"
      PROVE  Backed(runs[q].job)'
  <2>1. Grow /\ RunMoves(q)
    BY DEF Moves
  <2>2. CASE runs'[q] = runs[q]
    <3>1. runs[q].job \in Jobs /\ Backed(runs[q].job)
      BY <1>2, <2>2, SomeRun, RunTypes DEF SuccessesBacked
    <3>2. PICK j \in Jobs : j = runs[q].job
      BY <3>1
    <3>3. Backed(j)'
      BY <2>1, <3>1, <3>2, BackedStays
    <3> QED BY <2>2, <3>2, <3>3
  <2>3. CASE runs[q] # NoRun /\ \E j \in Jobs : runs[q].job = j /\ GoesOn(q, j)
    <3>1. PICK j, pc, run : j \in Jobs /\ j = runs[q].job /\ pc = runs[q].pc /\ run = runs'[q] /\ run.job = j
      BY <2>3, JobFields DEF GoesOn
    <3>2. Reached(j, pc)'
      BY <2>1, <2>3, <3>1, ReachedStays DEF RunsReached
    <3>3. \/ \E s \in Steps : pc = s /\ Done(j, s)' /\ run = AfterStatement(j, s)
          \/ \E ok \in BOOLEAN : /\ pc = "delegate" /\ j \in (IF ok THEN sent' ELSE denied')
                                 /\ run = AfterDelegate(j, ok)
      BY <1>2, <2>3, <3>1 DEF GoesOn, At, Threw, Returned
    <3>4. Backed(j)'
      BY <1>2, <2>1, <3>1, <3>2, <3>3, StatementBacks, DelegateBacks
    <3> QED BY <3>1, <3>4
  <2>4. ~ \E j \in Jobs : runs'[q] = First(j)
    <3>1. \A j \in Jobs : Returned(j, "failure").out # "success"
      BY DEF Returned
    <3> QED BY <1>2, <3>1, FirstFails
  <2> QED BY <1>2, <2>1, <2>2, <2>3, <2>4 DEF RunMoves, NoRun
<1> QED BY <1>1, <1>2 DEF SuccessesBacked

\* The run of p is done with, goes on or starts; the others stay.
LEMMA StepSingle == TypeOK /\ Ledger /\ Single /\ [Next]_vars => Single'
<1> SUFFICES ASSUME TypeOK, Ledger, Single, [Next]_vars PROVE Single'
  OBVIOUS
<1>1. ASSUME NEW p \in Clients, NEW run, runs' = [runs EXCEPT ![p] = run], UNCHANGED <<up, outcome>>,
             runs[p] # NoRun, run.job = runs[p].job
      PROVE  Single'
  BY <1>1, OneRunChanges DEF OneRun, Single
<1>2. ASSUME NEW p \in Clients, NEW j \in Jobs, Serve(p, j) \/ Recover(p, j) PROVE Single'
  <2>1. up' /\ outcome'[j] = "pending" /\ (\A x \in Jobs \ {j} : outcome'[x] = outcome[x])
    BY <1>2 DEF Serve, Recover, TypeOK
  <2>2. OneRun(p, First(j)) /\ First(j).job = j
    BY <1>2, OneRunChanges, JobFields DEF Serve, Recover
  <2>3. \A q \in Clients : runs[q] # NoRun => runs[q].job \in Jobs \ {j} /\ up
    BY <1>2, RunTypes DEF Serve, Recover, Single
  <2>4. up' = up
    BY <1>2 DEF Serve, Recover
  <2> QED BY <2>1, <2>2, <2>3, <2>4 DEF OneRun, Single
<1>3. ASSUME NEW p \in Clients, Ensure(p) PROVE Single'
  <2>1. runs[p] # NoRun /\ runs[p].pc = "ensure"
    BY <1>3, SomeRun DEF Ensure
  <2>2. [runs[p] EXCEPT !.pc = "main"].job = runs[p].job
    BY <2>1, RunTypes DEF At
  <2>3. runs' = [runs EXCEPT ![p] = [runs[p] EXCEPT !.pc = "main"]]
    BY <1>3 DEF Ensure
  <2> QED BY <1>1, <1>3, <2>1, <2>2, <2>3 DEF Ensure
<1>4. ASSUME NEW p \in Clients, Returns(p) \/ Throws(p) PROVE Single'
  <2>1. L!Step(p) /\ runs[p] # NoRun /\ UNCHANGED <<up, outcome>>
        /\ \E run \in {Threw(runs[p].job), AfterStatement(runs[p].job, runs[p].pc)} :
               runs' = [runs EXCEPT ![p] = run]
    BY <1>4 DEF Returns, Throws, L!Step
  <2>2. runs[p].job \in Jobs /\ runs[p].pc \in Steps
    BY <2>1, EndMoves, RunsStatement, RunTypes
  <2>3. PICK run \in {Threw(runs[p].job), AfterStatement(runs[p].job, runs[p].pc)} :
            runs' = [runs EXCEPT ![p] = run]
    BY <2>1
  <2>4. run.job = runs[p].job
    BY <2>2, <2>3, JobFields
  <2> QED BY <1>1, <2>1, <2>3, <2>4
<1>5. ASSUME NEW p \in Clients, (\E ok \in BOOLEAN : DelegateAnswers(p, ok)) \/ DelegateThrows(p)
      PROVE  Single'
  <2>1. runs[p] # NoRun /\ runs[p].job \in Jobs /\ UNCHANGED <<up, outcome>>
    BY <1>5, SomeRun, RunTypes DEF DelegateAnswers, DelegateThrows
  <2>2. \/ runs' = [runs EXCEPT ![p] = Threw(runs[p].job)]
        \/ \E ok \in BOOLEAN : runs' = [runs EXCEPT ![p] = AfterDelegate(runs[p].job, ok)]
    BY <1>5 DEF DelegateAnswers, DelegateThrows
  <2> QED BY <1>1, <2>1, <2>2, JobFields
<1>6. ASSUME NEW p \in Clients, Finish(p) PROVE Single'
  <2>1. runs[p] # NoRun /\ OneRun(p, NoRun) /\ up' = up
        /\ \A x \in Jobs : x # runs[p].job => outcome'[x] = outcome[x]
    BY <1>6, SomeRun, OneRunChanges DEF Finish, TypeOK
  <2>2. \A q \in Clients \ {p} : runs[q] # NoRun => runs[q].job # runs[p].job /\ runs[q].job \in Jobs
    BY <2>1, RunTypes DEF Single
  <2> QED BY <2>1, <2>2 DEF OneRun, Single
<1>7. CASE Crash
  BY <1>7 DEF Crash, Single
<1>8. ASSUME UNCHANGED <<runs, outcome>>, up' = up \/ up' = TRUE PROVE Single'
  BY <1>8 DEF Single
<1> QED
  BY <1>2, <1>3, <1>4, <1>5, <1>6, <1>7, <1>8
     DEF Next, RunStep, Send, Orphaned, Restart, vars

-----------------------------------------------------------------------------
(* The first theorems *)

Base ==
    /\ TypeOK /\ Ledger /\ RunsReached /\ StmtsReached /\ JournalReached /\ DelegatesReached
    /\ SuccessesBacked /\ Single

LEMMA InitBase == Init => Base
<1> SUFFICES ASSUME Init PROVE Base
  OBVIOUS
<1>1. L!Init /\ up = TRUE /\ runs = [p \in Clients |-> NoRun] /\ outcome = [j \in Jobs |-> "unsent"]
      /\ sent = {} /\ denied = {} /\ crashes = 0 /\ setup \in Setups
  BY DEF Init
<1>2. \A p \in Clients : runs[p] = NoRun /\ stmts[p] = L!NoStmt /\ ~Running(p) /\ runs[p].pc # "end"
  BY <1>1 DEF L!Init, Running, L!NoStmt, NoRun
<1>3. \A j \in Jobs, s \in Steps : ~Done(j, s)
  BY <1>1 DEF L!Init, Done
<1>4. Ledger
  <2>1. LP!Init
    BY <1>1 DEF L!Init, LP!Init, LP!NoStmt, L!NoStmt
  <2> QED BY <2>1, LedgerAssumptions, SameInvariant, LP!InitIInv
<1>5. TypeOK
  <2>1. setup \in SetupType /\ up \in BOOLEAN /\ crashes \in 0..MaxCrashes
    BY <1>1, ServiceAssumption
  <2>2. outcome \in [Jobs -> {"unsent", "pending", "success", "failure", "error"}]
    BY <1>1
  <2>3. runs \in [Clients -> Run \cup {NoRun}]
    BY <1>1
  <2> QED BY <1>1, <1>2, <1>4, <2>1, <2>2, <2>3 DEF TypeOK, Ledger
<1> QED
  BY <1>1, <1>2, <1>3, <1>4, <1>5
     DEF Base, RunsReached, StmtsReached, JournalReached, DelegatesReached, SuccessesBacked, Single

LEMMA StepBase == Base /\ [Next]_vars => Base'
<1> SUFFICES ASSUME Base, [Next]_vars PROVE Base'
  OBVIOUS
<1>1. Moves
  BY StepMoves DEF Base
<1>2. Ledger'
  BY StepLedger DEF Base
<1>3. TypeOK'
  BY <1>2, StepTypes DEF Base
<1> QED
  BY <1>1, <1>2, <1>3, StepRunsReached, StepStmtsReached, StepJournalReached,
     StepDelegatesReached, StepSuccessesBacked, StepSingle DEF Base

LEMMA BaseInvariant == Spec => []Base
BY InitBase, StepBase, PTL DEF Spec

LEMMA BaseBacked == Base => SuccessIsBacked
<1> SUFFICES ASSUME Base, NEW j \in Jobs
             PROVE  /\ outcome[j] = "success" => Backed(j)
                    /\ Done(j, "debit") => Done(j, "hold") /\ j \in sent
  BY DEF SuccessIsBacked, Backed
<1>1. Done(j, "debit") => Reached(j, "debit")
  BY DEF Base, JournalReached, Steps
<1> QED BY <1>1 DEF Base, SuccessesBacked, Reached, Ready

\* The CHECK constraints and transfer: no account is overdrawn by any method, whatever
\* delegates, faults and crashes do, and a run is at a stage of its method.
THEOREM TypeCorrect == Spec => []TypeOK
<1>1. Base => TypeOK
  BY DEF Base
<1> QED BY <1>1, BaseInvariant, PTL

\* The methods answer a success only after their transactions and their delegate, and
\* transfer debits a payout only when the delegate has made it, in every setup.
THEOREM BackedCorrect == Spec => []SuccessIsBacked
BY BaseBacked, BaseInvariant, PTL

-----------------------------------------------------------------------------
(* In calm: what is in flight *)

LEMMA CalmStays == Moves => (Calm' <=> Calm)
BY DEF Moves, Grow, Calm

LEMMA StepUnmixed == TypeOK /\ Calm /\ Unmixed /\ [Next]_vars => Unmixed'
<1> SUFFICES ASSUME TypeOK, Calm, Unmixed, [Next]_vars PROVE Unmixed'
  OBVIOUS
<1>1. ASSUME NEW p \in Clients, NEW ok \in BOOLEAN, DelegateAnswers(p, ok) PROVE Unmixed'
  <2>1. \E j : /\ j \notin (IF ok THEN denied ELSE sent)
               /\ sent' = IF ok THEN sent \cup {j} ELSE sent
               /\ denied' = IF ok THEN denied ELSE denied \cup {j}
    BY <1>1 DEF DelegateAnswers, Calm
  <2> QED BY <2>1 DEF Unmixed
<1>2. ASSUME NEW p \in Clients PROVE ~DelegateThrows(p)
  BY DEF DelegateThrows, Calm
<1>3. CASE UNCHANGED <<sent, denied>>
  BY <1>3 DEF Unmixed
<1> QED
  BY <1>1, <1>2, <1>3
     DEF Next, RunStep, Serve, Recover, Ensure, Send, Returns, Throws, Finish, Orphaned, Crash, Restart, vars

\* While the process is running, a statement in flight is that of the run of its job.
LEMMA RunOfStatement ==
  ASSUME TypeOK, Single, InFlight, NEW p \in Clients, NEW q \in Clients, runs[p] # NoRun,
         Running(q), JobOf(q) = runs[p].job
  PROVE  q = p /\ runs[p].pc \in Steps
<1>1. up /\ runs[q] # NoRun
  BY DEF Single, InFlight
<1>2. runs[q].job = runs[p].job
  BY <1>1, RunsStatement
<1>3. q = p
  BY <1>1, <1>2 DEF Single
<1> QED BY <1>3, RunsStatement

LEMMA StepInFlight == Base /\ Calm /\ InFlight /\ [Next]_vars => InFlight'
<1> SUFFICES ASSUME Base, Calm, InFlight, [Next]_vars PROVE InFlight'
  OBVIOUS
<1> USE DEF Base
<1>1. ASSUME UNCHANGED <<stmts, journal>>,
             \A q \in Clients : Running(q) =>
                outcome'[JobOf(q)] = outcome[JobOf(q)] /\ (up' => runs'[q] # NoRun)
      PROVE  InFlight'
  BY <1>1 DEF InFlight, Running, JobOf
<1>2. ASSUME NEW p \in Clients, NEW j \in Jobs, Serve(p, j) \/ Recover(p, j) PROVE InFlight'
  <2>1. UNCHANGED <<stmts, journal, up>> /\ OneRun(p, First(j)) /\ ~Running(p)
        /\ \A x \in Jobs : outcome[x] # "unsent" => outcome'[x] = outcome[x]
    BY <1>2, OneRunChanges DEF Serve, Recover, Free, ledgerVars, Running, L!NoStmt, TypeOK
  <2> QED BY <1>1, <2>1, RunningTypes DEF OneRun, InFlight
<1>3. ASSUME NEW p \in Clients, Ensure(p) PROVE InFlight'
  <2>1. UNCHANGED <<stmts, journal, up, outcome>> /\ runs[p] # NoRun /\ ~Running(p)
    BY <1>3, SomeRun, NoStatement DEF Ensure, L!EnsureAccount, Steps
  <2>2. \A q \in Clients \ {p} : runs'[q] = runs[q]
    BY <1>3 DEF Ensure, TypeOK
  <2> QED BY <1>1, <2>1, <2>2 DEF InFlight
<1>4. ASSUME NEW p \in Clients, Send(p) PROVE InFlight'
  <2>1. runs[p] # NoRun /\ runs[p].pc \in Steps /\ UNCHANGED <<journal, up, outcome, runs>>
        /\ \A q \in Clients \ {p} : stmts'[q] = stmts[q]
    BY <1>4, SomeRun DEF Send, Steps, L!Begin, L!tables, TypeOK, L!TypeOK
  <2>2. /\ stmts'[p].key = <<runs[p].job, runs[p].pc>>
        /\ stmts'[p].found = journal[<<runs[p].job, runs[p].pc>>]
        /\ stmts[p] = L!NoStmt
    BY <1>4 DEF Send, L!Begin, TypeOK, L!TypeOK
  <2>3. ~Running(p) /\ outcome[runs[p].job] = "pending"
    BY <2>1, <2>2 DEF Running, L!NoStmt, Single
  <2>4. \A q \in Clients \ {p} : Running(q) => JobOf(q) # runs[p].job
    BY <2>1, <2>3, RunOfStatement
  <2>5. JobOf(p)' = runs[p].job /\ (\A q \in Clients \ {p} : JobOf(q)' = JobOf(q) /\ (Running(q)' <=> Running(q)))
    BY <2>1, <2>2 DEF JobOf, Running
  <2> QED BY <2>1, <2>2, <2>3, <2>4, <2>5 DEF InFlight
<1>5. ASSUME NEW p \in Clients, L!Step(p), UNCHANGED <<up, outcome>>,
             \A q \in Clients \ {p} : runs'[q] = runs[q]
      PROVE  InFlight'
  <2>1. /\ Running(p) /\ ~Running(p)' /\ \A q \in Clients \ {p} : stmts'[q] = stmts[q]
        /\ journal' = journal \/ L!Transacts(p)
    BY <1>5, EndMoves
  <2>2. \A q \in Clients \ {p} : JobOf(q)' = JobOf(q) /\ (Running(q)' <=> Running(q))
    BY <2>1 DEF JobOf, Running
  <2>3. ASSUME NEW q \in Clients \ {p}, Running(q) PROVE journal'[stmts[q].key] = journal[stmts[q].key]
    <3>1. JobOf(q) # JobOf(p)
      BY <2>1, <2>3 DEF InFlight
    <3>2. stmts[q].key # stmts[p].key /\ stmts[q].key \in Jobs \X Steps
      BY <2>1, <2>3, <3>1, RunningTypes
    <3> QED BY <2>1, <3>2, TransactMoves
  <2> QED BY <1>5, <2>1, <2>2, <2>3 DEF InFlight
<1>6. ASSUME NEW p \in Clients, Returns(p) \/ Throws(p) \/ Orphaned(p) PROVE InFlight'
  <2>1. L!Step(p) /\ UNCHANGED <<up, outcome>>
    BY <1>6 DEF Returns, Throws, Orphaned, L!Step
  <2>2. \A q \in Clients \ {p} : runs'[q] = runs[q]
    BY <1>6 DEF Returns, Throws, Orphaned, TypeOK
  <2> QED BY <1>5, <2>1, <2>2
<1>7. ASSUME NEW p \in Clients, \E ok \in BOOLEAN : DelegateAnswers(p, ok) PROVE InFlight'
  <2>1. UNCHANGED <<stmts, journal, up, outcome>> /\ runs[p] # NoRun /\ ~Running(p)
    BY <1>7, SomeRun, NoStatement DEF DelegateAnswers, ledgerVars, Steps
  <2>2. \A q \in Clients \ {p} : runs'[q] = runs[q]
    BY <1>7 DEF DelegateAnswers, TypeOK
  <2> QED BY <1>1, <2>1, <2>2 DEF InFlight
<1>8. ASSUME NEW p \in Clients, Finish(p) PROVE InFlight'
  <2>1. UNCHANGED <<stmts, journal, up>> /\ runs[p] # NoRun /\ runs[p].pc = "end"
        /\ (\A x \in Jobs : x # runs[p].job => outcome'[x] = outcome[x])
        /\ (\A q \in Clients \ {p} : runs'[q] = runs[q])
    BY <1>8, SomeRun DEF Finish, ledgerVars, TypeOK
  <2>2. \A q \in Clients : Running(q) => JobOf(q) # runs[p].job /\ JobOf(q) \in Jobs /\ q # p
    BY <2>1, RunOfStatement, RunningTypes, RunsStatement DEF Steps
  <2> QED BY <1>1, <2>1, <2>2 DEF InFlight
<1>9. CASE Crash
  BY <1>1, <1>9 DEF Crash, ledgerVars
<1>10. CASE Restart
  BY <1>1, <1>10 DEF Restart, ledgerVars, Calm, Running, L!NoStmt
<1>11. CASE UNCHANGED vars
  BY <1>1, <1>11 DEF vars, ledgerVars, InFlight
<1>12. ASSUME NEW p \in Clients PROVE ~DelegateThrows(p)
  BY DEF DelegateThrows, Calm
<1> QED
  BY <1>2, <1>3, <1>4, <1>6, <1>7, <1>8, <1>9, <1>10, <1>11, <1>12 DEF Next, RunStep

-----------------------------------------------------------------------------
(* In calm: outcomes *)

\* Nothing happens to a job that has its outcome, or that a run has ended.
LEMMA JobStays ==
  ASSUME Base, InFlight, Moves, NEW j \in Jobs,
         outcome[j] # "pending" \/ \E q \in Clients : runs[q].pc = "end" /\ runs[q].job = j
  PROVE  (\A s \in Steps : Done(j, s)' <=> Done(j, s)) /\ (j \in sent' <=> j \in sent)
<1> USE DEF Base
<1>1. Grow /\ DelegateMoves(j) /\ \A s \in Steps : JournalMoves(j, s)
  BY DEF Moves
<1>2. ASSUME NEW q \in Clients, Running(q), JobOf(q) = j PROVE FALSE
  <2>1. outcome[j] = "pending"
    BY <1>2 DEF InFlight
  <2>2. PICK p \in Clients : runs[p].pc = "end" /\ runs[p].job = j
    BY <2>1
  <2> QED BY <1>2, <2>2, SomeRun, RunOfStatement DEF Steps
<1>3. ASSUME NEW q \in Clients, runs[q].pc = "delegate", runs[q].job = j PROVE FALSE
  <2>1. runs[q] # NoRun /\ outcome[j] = "pending"
    BY <1>3, SomeRun DEF Single
  <2>2. PICK p \in Clients : runs[p].pc = "end" /\ runs[p].job = j
    BY <2>1
  <2> QED BY <1>3, <2>1, <2>2, SomeRun DEF Single
<1>4. \A s \in Steps : Done(j, s)' <=> Done(j, s)
  BY <1>1, <1>2 DEF JournalMoves, JobOf, Grow, Done
<1> QED BY <1>1, <1>3, <1>4 DEF DelegateMoves, Grow

LEMMA FailedStays ==
  ASSUME NEW j \in Jobs, NEW out, Failed(j, out),
         \A s \in Steps : Done(j, s)' <=> Done(j, s), j \in sent' <=> j \in sent
  PROVE  Failed(j, out)'
<1>1. LockStep(j) \in Steps /\ {"main", "debit", "unlock"} \subseteq Steps
  BY DEF LockStep, Steps
<1> QED BY <1>1 DEF Failed, Undone

\* A method that never started has done nothing, ...
LEMMA UnstartedFailed ==
  ASSUME Base', NEW j \in Jobs, j.method = "payout", ~setup'.outbound
  PROVE  \A out : Failed(j, out)'
<1>1. j \notin sent'
  BY DEF Base, DelegatesReached, Reached, Fits
<1>2. \A s \in Steps : ~Done(j, s)'
  BY DEF Base, JournalReached, Reached, Fits, Steps
<1> QED BY <1>1, <1>2 DEF Failed, Undone, Locks, LockStep, UsesHold, Steps

\* ... one that returns after its unlock has undone its lock, for a delegate that refused, ...
LEMMA StatementFailed ==
  ASSUME Base', Unmixed', NEW j \in Jobs, NEW s \in Steps, Reached(j, s)', Done(j, s)',
         NEW run, run = AfterStatement(j, s), run.pc = "end"
  PROVE  Failed(j, run.out)'
<1>1. run.out = "success" \/ (run.out = "failure" /\ s = "unlock")
  BY DEF AfterStatement, At, Returned
<1>2. CASE s = "unlock"
  <2>1. j \in denied' /\ Locks(j) /\ Done(j, LockStep(j))'
    BY <1>2 DEF Reached, Fits, Ready, Locks
  <2>2. j \notin sent'
    BY <2>1 DEF Unmixed
  <2>3. ~Done(j, "debit")'
    BY <2>2 DEF Base, JournalReached, Reached, Ready, Steps
  <2> QED BY <1>1, <1>2, <2>1, <2>2, <2>3 DEF Failed, Undone
<1> QED BY <1>1, <1>2 DEF Failed

\* ... and one whose delegate refused the use of a hold has not used it.
LEMMA DelegateFailed ==
  ASSUME Base', Unmixed', NEW j \in Jobs, NEW ok \in BOOLEAN, Reached(j, "delegate")',
         j \in (IF ok THEN sent' ELSE denied'),
         NEW run, run = AfterDelegate(j, ok), run.pc = "end"
  PROVE  Failed(j, run.out)'
<1>1. CASE run.out = "failure"
  <2>1. NeedsDelegate(j)'
    BY DEF Reached, Fits
  <2>2. ~ok /\ j.method \in {"release", "rollback"} /\ setup'.escrow
    BY <1>1, <2>1 DEF AfterDelegate, At, Returned, NeedsDelegate
  <2>3. j \notin sent'
    BY <2>2 DEF Unmixed
  <2>4. ~Done(j, "debit")' /\ ~Done(j, "main")'
    BY <2>2, <2>3 DEF Base, JournalReached, Reached, Ready, Steps
  <2> QED BY <1>1, <2>2, <2>3, <2>4 DEF Failed, Undone, Locks
<1>2. run.out \in {"success", "failure"}
  BY DEF AfterDelegate, At, Returned
<1> QED BY <1>1, <1>2 DEF Failed

\* What throws without a fault has left the journal as it was.
LEMMA ThrowFailed ==
  ASSUME Base, Calm, InFlight, NEW q \in Clients, NEW j \in Jobs, Fails(q, j)
  PROVE  Failed(j, "error")'
<1> USE DEF Base
<1>1. PICK s \in Steps : Running(q) /\ stmts[q].key = <<j, s>> /\ stmts[q].found = NoTx /\ journal' = journal
  BY DEF Fails, Calm
<1>2. ~Done(j, s)'
  BY <1>1 DEF InFlight, Done
<1>3. JobOf(q) = j /\ StepOf(q) = s
  BY <1>1 DEF JobOf, StepOf
<1>4. Reached(j, s)
  BY <1>1, <1>3 DEF StmtsReached
<1>5. UsesHold(j) => s = "main"
  BY <1>4 DEF Reached, Fits, UsesHold, Steps
<1> QED BY <1>2, <1>5 DEF Failed

LEMMA StepOutcomes ==
  Base /\ Base' /\ Calm /\ InFlight /\ Unmixed' /\ Outcomes /\ Moves => Outcomes'
<1> SUFFICES ASSUME Base, Base', Calm, InFlight, Unmixed', Outcomes, Moves PROVE Outcomes'
  OBVIOUS
<1>1. ASSUME NEW j \in Jobs PROVE Failed(j, outcome[j])'
  <2>1. OutcomeMoves(j)
    BY DEF Moves
  <2>2. PICK out : out = outcome'[j]
    OBVIOUS
  <2>3. CASE outcome'[j] = "pending"
    BY <2>3 DEF Failed
  <2>4. CASE outcome'[j] # "pending"
    <3>1. /\ outcome[j] # "pending" \/ \E q \in Clients : runs[q].pc = "end" /\ runs[q].job = j
          /\ Failed(j, out)
      BY <2>1, <2>2, <2>4 DEF OutcomeMoves, Outcomes
    <3>2. Failed(j, out)'
      BY <3>1, JobStays, FailedStays
    <3> QED BY <2>2, <3>2
  <2> QED BY <2>3, <2>4
<1>2. ASSUME NEW q \in Clients, runs'[q].pc = "end" PROVE Failed(runs[q].job, runs[q].out)'
  <2>1. Grow /\ RunMoves(q)
    BY DEF Moves
  <2>2. PICK run : run = runs'[q]
    OBVIOUS
  <2>3. \E j \in Jobs : run.job = j /\ Failed(j, run.out)'
    <3>1. CASE runs'[q] = runs[q]
      <4>1. run.job \in Jobs /\ Failed(run.job, run.out)
        BY <1>2, <2>2, <3>1, SomeRun, RunTypes DEF Outcomes, Base
      <4>2. PICK j, out : j \in Jobs /\ j = run.job /\ out = run.out
        BY <4>1
      <4>3. runs[q].pc = "end" /\ runs[q].job = j
        BY <1>2, <2>2, <3>1, <4>2
      <4>4. Failed(j, out)'
        BY <4>1, <4>2, <4>3, JobStays, FailedStays
      <4> QED BY <4>2, <4>4
    <3>2. ASSUME NEW j \in Jobs, run = First(j) PROVE run.job = j /\ Failed(j, run.out)'
      <4>1. j.method = "payout" /\ ~setup.outbound
        BY <1>2, <2>2, <3>2 DEF First, At, Returned
      <4>2. \A out : Failed(j, out)'
        BY <2>1, <4>1, UnstartedFailed DEF Grow
      <4> QED BY <3>2, <4>2, JobFields
    <3>3. ASSUME NEW j \in Jobs, runs[q] # NoRun, runs[q].job = j, GoesOn(q, j)
          PROVE  run.job = j /\ Failed(j, run.out)'
      <4>1. PICK pc : pc = runs[q].pc
        OBVIOUS
      <4>2. Reached(j, pc)'
        BY <2>1, <3>3, <4>1, ReachedStays DEF Base, RunsReached
      <4>3. CASE \E s \in Steps : pc = s /\ Done(j, s)' /\ run = AfterStatement(j, s)
        BY <1>2, <2>2, <4>2, <4>3, StatementFailed, JobFields
      <4>4. CASE \E ok \in BOOLEAN : /\ pc = "delegate" /\ j \in (IF ok THEN sent' ELSE denied')
                                    /\ run = AfterDelegate(j, ok)
        BY <1>2, <2>2, <4>2, <4>4, DelegateFailed, JobFields
      <4>5. CASE Fails(q, j) /\ run = Threw(j)
        BY <4>5, ThrowFailed DEF Threw, Returned
      <4> QED BY <1>2, <2>2, <3>3, <4>1, <4>3, <4>4, <4>5 DEF GoesOn, At
    <3>4. run # NoRun
      BY <1>2, <2>2 DEF NoRun
    <3> QED BY <2>1, <2>2, <3>1, <3>2, <3>3, <3>4 DEF RunMoves
  <2>4. PICK j, out : j \in Jobs /\ j = run.job /\ out = run.out /\ Failed(j, out)'
    BY <2>3
  <2> QED BY <2>2, <2>4
<1> QED BY <1>1, <1>2 DEF Outcomes

\* What is true in calm, all the time.
Quiet == Calm => Unmixed /\ InFlight /\ Outcomes

LEMMA InitQuiet == Init => Quiet
<1> SUFFICES ASSUME Init PROVE Quiet
  OBVIOUS
<1>1. \A p \in Clients : ~Running(p) /\ runs[p].pc # "end"
  BY DEF Init, L!Init, Running, L!NoStmt, NoRun
<1>2. \A j \in Jobs : outcome[j] = "unsent"
  BY DEF Init
<1>3. sent = {}
  BY DEF Init
<1> QED BY <1>1, <1>2, <1>3 DEF Quiet, Unmixed, InFlight, Outcomes, Failed

LEMMA StepQuiet == Base /\ Base' /\ Quiet /\ [Next]_vars => Quiet'
<1> SUFFICES ASSUME Base, Base', Quiet, [Next]_vars, Calm' PROVE Unmixed' /\ InFlight' /\ Outcomes'
  BY DEF Quiet
<1>1. Moves
  BY StepMoves DEF Base
<1>2. Calm /\ Unmixed /\ InFlight /\ Outcomes
  BY <1>1, CalmStays DEF Quiet
<1>3. Unmixed' /\ InFlight'
  BY <1>2, StepUnmixed, StepInFlight DEF Base
<1> QED BY <1>1, <1>2, <1>3, StepOutcomes

LEMMA QuietInvariant == Spec => []Quiet
BY InitQuiet, StepQuiet, BaseInvariant, PTL DEF Spec

\* In calm the router is told what happened: a success has kept or used its lock, a
\* failure has left nothing behind, wherever the process was killed.
LEMMA QuietOutcomes == Base /\ Quiet => OutcomesAreTrue
<1> SUFFICES ASSUME Base, Quiet, Calm, NEW j \in Jobs
             PROVE  /\ outcome[j] = "success" => ~Done(j, "unlock")
                    /\ outcome[j] = "failure" => Undone(j)
  BY DEF OutcomesAreTrue, Undone
<1>1. outcome[j] = "failure" => Undone(j)
  BY DEF Quiet, Outcomes, Failed
<1>2. ASSUME outcome[j] = "success", Done(j, "unlock") PROVE FALSE
  <2>1. Fits(j, "unlock") /\ j \in denied
    BY <1>2 DEF Base, JournalReached, Reached, Ready, Steps
  <2>2. Backed(j)
    BY <1>2 DEF Base, SuccessesBacked
  <2>3. j \in denied => NeedsDelegate(j)
    BY DEF Base, DelegatesReached, Reached, Fits
  <2> QED BY <2>1, <2>2, <2>3 DEF Backed, Quiet, Unmixed
<1> QED BY <1>1, <1>2

\* What finalize stores, in calm: a success has not undone its lock, and a failure has left
\* the funds where they were, here and at the delegate, across crashes and repeated runs.
THEOREM OutcomesCorrect == Spec => []OutcomesAreTrue
BY QuietOutcomes, QuietInvariant, BaseInvariant, PTL

-----------------------------------------------------------------------------
(* What uses a hold *)

LEMMA AmountNat ==
  ASSUME NEW T \in SUBSET Jobs
  PROVE  IsFiniteSet(T) /\ Amount(T) \in Nat
<1>1. IsFiniteSet(T) /\ \A j \in T : j.amount \in Nat
  BY ServiceAssumption, FS_Subset
<1> DEFINE f == [j \in T |-> j.amount]
<1>2. \A j \in T : f[j] \in Nat
  BY <1>1
<1> HIDE DEF f
<1>3. SumFunctionOnSet(f, T) \in Nat
  BY <1>1, <1>2, SumNat
<1> QED BY <1>1, <1>3 DEF Amount, f

LEMMA AmountAdds ==
  ASSUME NEW T \in SUBSET Jobs, NEW y \in Jobs, y \notin T
  PROVE  Amount(T \cup {y}) = Amount(T) + y.amount
<1>1. IsFiniteSet(T) /\ Amount(T) \in Nat /\ \A j \in T \cup {y} : j.amount \in Nat
  BY ServiceAssumption, AmountNat
<1> DEFINE f == [j \in T |-> j.amount]
           g == [j \in T \cup {y} |-> j.amount]
<1>2. (\A j \in T : g[j] = f[j]) /\ g[y] = y.amount /\ \A j \in T \cup {y} : g[j] \in Int
  BY <1>1
<1>3. Amount(T) = SumFunctionOnSet(f, T) /\ Amount(T \cup {y}) = SumFunctionOnSet(g, T \cup {y})
  BY DEF Amount
<1> HIDE DEF f, g
<1>4. SumFunctionOnSet(g, T \cup {y}) = g[y] + SumFunctionOnSet(g, T)
  BY <1>1, <1>2, SumAdds
<1>5. SumFunctionOnSet(g, T) = SumFunctionOnSet(f, T)
  BY <1>1, <1>2, SumSame
<1> QED BY <1>1, <1>2, <1>3, <1>4, <1>5

LEMMA AmountGrows ==
  ASSUME NEW T \in SUBSET Jobs, NEW P \in SUBSET T
  PROVE  Amount(P) <= Amount(T)
<1>1. IsFiniteSet(T) /\ IsFiniteSet(P) /\ \A j \in T : j.amount \in Nat
  BY ServiceAssumption, FS_Subset
<1> DEFINE f == [j \in T |-> j.amount]
           g == [j \in P |-> j.amount]
<1>2. (\A j \in T : f[j] \in Nat) /\ (\A j \in P : g[j] = f[j])
  BY <1>1
<1>3. Amount(T) = SumFunctionOnSet(f, T) /\ Amount(P) = SumFunctionOnSet(g, P)
  BY DEF Amount
<1> HIDE DEF f, g
<1>4. SumFunctionOnSet(f, P) <= SumFunctionOnSet(f, T)
  BY <1>1, <1>2, SumGrows
<1>5. SumFunctionOnSet(g, P) = SumFunctionOnSet(f, P)
  BY <1>1, <1>2, SumSame
<1> QED BY <1>3, <1>4, <1>5

LEMMA AmountOfNone == Amount({}) = 0
BY SumOfNone DEF Amount

\* The outcome of one job changes, or of none.
LEMMA OneOutcome ==
  ASSUME TypeOK, Single, [Next]_vars
  PROVE  \/ outcome' = outcome
         \/ \E j \in Jobs : /\ outcome[j] = "unsent" /\ Legal(j)
                            /\ outcome' = [outcome EXCEPT ![j] = "pending"]
         \/ \E j \in Jobs, out \in {"success", "failure", "error"} :
               outcome[j] = "pending" /\ outcome' = [outcome EXCEPT ![j] = out]
<1>1. ASSUME NEW p \in Clients, Finish(p)
      PROVE  \E j \in Jobs, out \in {"success", "failure", "error"} :
                outcome[j] = "pending" /\ outcome' = [outcome EXCEPT ![j] = out]
  <2>1. runs[p] # NoRun /\ runs[p].pc = "end"
    BY <1>1, SomeRun DEF Finish
  <2>2. runs[p].job \in Jobs /\ runs[p].out \in {"success", "failure", "error"}
        /\ outcome[runs[p].job] = "pending"
    BY <2>1, RunTypes DEF Single
  <2> QED BY <1>1, <2>2 DEF Finish
<1> QED
  BY <1>1
     DEF Next, RunStep, Serve, Recover, Ensure, Send, Returns, Throws, DelegateAnswers,
         DelegateThrows, Orphaned, Crash, Restart, vars

Uses == UsersLegal /\ Budget

LEMMA InitUses == Init => Uses
<1> SUFFICES ASSUME Init PROVE Uses
  OBVIOUS
<1>1. \A j \in Jobs : outcome[j] = "unsent"
  BY DEF Init
<1>2. \A o : Claims(o) = {}
  BY <1>1 DEF Claims, Users
<1> QED BY <1>1, <1>2, AmountOfNone, ServiceAssumption DEF Uses, UsersLegal, Budget, Claimed

LEMMA StepUses == TypeOK /\ Single /\ Uses /\ [Next]_vars => Uses'
<1> SUFFICES ASSUME TypeOK, Single, Uses, [Next]_vars PROVE Uses'
  OBVIOUS
<1>1. \A o : Claims(o) \in SUBSET Jobs
  BY DEF Claims, Users
<1>2. CASE outcome' = outcome
  BY <1>2 DEF Uses, UsersLegal, Budget, Backing, Claimed, Claims
<1>3. ASSUME NEW j \in Jobs, outcome[j] = "unsent", Legal(j), outcome' = [outcome EXCEPT ![j] = "pending"]
      PROVE  Uses'
  <2>1. outcome'[j] = "pending" /\ \A x \in Jobs \ {j} : outcome'[x] = outcome[x]
    BY <1>3 DEF TypeOK
  <2>2. UsesHold(j) => \E h \in Jobs : Backing(j, h) /\ h # j /\ Claimed(j.operation) + j.amount <= h.amount
    BY <1>3 DEF Legal, Backing
  <2>3. UsersLegal'
    BY <1>3, <2>1, <2>2 DEF Uses, UsersLegal, Backing
  <2>4. ASSUME NEW h \in Jobs, h.method = "hold" PROVE Amount(Claims(h.operation)') <= h.amount
    <3>1. CASE UsesHold(j) /\ j.operation = h.operation
      <4>1. j \notin Claims(h.operation) /\ Claims(h.operation)' = Claims(h.operation) \cup {j}
        BY <1>3, <2>1, <3>1 DEF Claims, Users
      <4>2. Amount(Claims(h.operation)') = Claimed(h.operation) + j.amount
        BY <1>1, <4>1, AmountAdds DEF Claimed
      <4>3. Claimed(h.operation) + j.amount <= h.amount
        BY <2>2, <2>4, <3>1, ServiceAssumption DEF Backing
      <4> QED BY <4>2, <4>3
    <3>2. CASE ~(UsesHold(j) /\ j.operation = h.operation)
      <4>1. Claims(h.operation)' = Claims(h.operation)
        BY <2>1, <3>2 DEF Claims, Users
      <4> QED BY <2>4, <4>1 DEF Uses, Budget, Claimed
    <3> QED BY <3>1, <3>2
  <2> QED BY <2>3, <2>4 DEF Uses, Budget, Claimed
<1>4. ASSUME NEW j \in Jobs, NEW out \in {"success", "failure", "error"}, outcome[j] = "pending",
             outcome' = [outcome EXCEPT ![j] = out]
      PROVE  Uses'
  <2>1. outcome'[j] = out /\ \A x \in Jobs \ {j} : outcome'[x] = outcome[x]
    BY <1>4 DEF TypeOK
  <2>2. UsersLegal'
    BY <1>4, <2>1 DEF Uses, UsersLegal, Backing
  <2>3. ASSUME NEW h \in Jobs, h.method = "hold" PROVE Amount(Claims(h.operation)') <= h.amount
    <3>1. Claims(h.operation)' \in SUBSET Claims(h.operation)
      BY <1>4, <2>1 DEF Claims, Users
    <3>2. Amount(Claims(h.operation)') <= Amount(Claims(h.operation))
      BY <1>1, <3>1, AmountGrows
    <3>3. Amount(Claims(h.operation)) <= h.amount
      BY <2>3 DEF Uses, Budget, Claimed
    <3>4. Amount(Claims(h.operation)') \in Nat /\ Amount(Claims(h.operation)) \in Nat /\ h.amount \in Nat
      BY <1>1, <3>1, AmountNat, ServiceAssumption
    <3> QED BY <3>2, <3>3, <3>4
  <2> QED BY <2>2, <2>3 DEF Uses, Budget, Claimed
<1> QED BY <1>2, <1>3, <1>4, OneOutcome

LEMMA UsesInvariant == Spec => []Uses
<1>1. Base /\ Uses /\ [Next]_vars => Uses'
  BY StepUses DEF Base
<1> QED BY <1>1, InitUses, BaseInvariant, PTL DEF Spec

-----------------------------------------------------------------------------
(* In calm: a lock is used up once *)

\* What is given back of a lock by its own job.
LEMMA OwnStepsTypes ==
  ASSUME NEW j \in Jobs
  PROVE  /\ OwnSteps(j) \subseteq {"unlock", "debit"} /\ Cardinality(OwnSteps(j)) \in Nat
         /\ IsFiniteSet(OwnSteps(j)) /\ UsersDone(j) \in SUBSET Jobs
<1>1. OwnSteps(j) \subseteq {"unlock", "debit"}
  BY DEF OwnSteps
<1>2. IsFiniteSet({"unlock", "debit"})
  <2>1. IsFiniteSet({"unlock"}) /\ {"unlock", "debit"} = {"unlock"} \cup {"debit"}
    BY FS_Singleton
  <2> QED BY <2>1, FS_AddElement
<1>3. IsFiniteSet(OwnSteps(j))
  BY <1>1, <1>2, FS_Subset
<1>4. Cardinality(OwnSteps(j)) \in Nat
  BY <1>3, FS_CardinalityType
<1> QED BY <1>1, <1>3, <1>4 DEF UsersDone, Users

LEMMA GivenBackNat ==
  ASSUME NEW j \in Jobs
  PROVE  GivenBack(j) \in Nat /\ j.amount \in Nat
<1>1. Cardinality(OwnSteps(j)) \in Nat /\ Amount(UsersDone(j)) \in Nat /\ j.amount \in Nat
  BY OwnStepsTypes, AmountNat, ServiceAssumption
<1>2. \A m, n \in Nat : m * n \in Nat
  OBVIOUS
<1> QED BY <1>1, <1>2 DEF GivenBack

\* The steps of a job that can be done.
LEMMA DoneFits ==
  ASSUME Base, NEW j \in Jobs, NEW s \in Steps, Done(j, s)
  PROVE  Fits(j, s) /\ Ready(j, s) /\ outcome[j] # "unsent"
BY DEF Base, JournalReached, Reached

\* Who has used a hold claims it, of a hold that is a success.
LEMMA UsersClaim ==
  ASSUME Base, Uses, Quiet, Calm, NEW h \in Jobs, h.method = "hold", NEW u \in UsersDone(h)
  PROVE  u \in Claims(h.operation) /\ outcome[h] = "success"
<1>1. u \in Jobs /\ UsesHold(u) /\ u.operation = h.operation /\ Done(u, "main") /\ outcome[u] # "unsent"
  BY DoneFits DEF UsersDone, Users, Steps
<1>2. outcome[h] = "success"
  BY <1>1, ServiceAssumption DEF Uses, UsersLegal, Backing
<1>3. ~Locks(u)
  BY <1>1 DEF UsesHold, Locks
<1>4. Failed(u, outcome[u])
  BY <1>1 DEF Quiet, Outcomes
<1>5. outcome[u] \in {"unsent", "pending", "success", "failure", "error"}
  BY <1>1 DEF Base, TypeOK
<1> QED BY <1>1, <1>2, <1>3, <1>4, <1>5 DEF Failed, Undone, Claims, Users

\* Nothing has been given back of a lock that is not done, ...
LEMMA OwnStepsLock ==
  ASSUME Base, NEW j \in Jobs, Locks(j), OwnSteps(j) # {}
  PROVE  Done(j, LockStep(j))
<1>1. Done(j, "unlock") => Done(j, LockStep(j))
  BY DoneFits DEF Ready, Steps
<1>2. Done(j, "debit") => Done(j, LockStep(j))
  BY DoneFits DEF Fits, Ready, LockStep, Steps
<1> QED BY <1>1, <1>2 DEF OwnSteps

\* ... and it is given back by one of the three: its unlock, its debit, its users.
LEMMA OneWayBack ==
  ASSUME Base, Uses, Quiet, Calm, NEW j \in Jobs, Locks(j)
  PROVE  /\ ~(Done(j, "unlock") /\ Done(j, "debit"))
         /\ UsersDone(j) # {} => OwnSteps(j) = {} /\ Done(j, LockStep(j))
         /\ Amount(UsersDone(j)) <= j.amount
<1>1. j.amount \in Nat /\ Amount(UsersDone(j)) \in Nat
  BY OwnStepsTypes, AmountNat, ServiceAssumption
<1>2. Done(j, "unlock") => j \in denied
  BY DoneFits DEF Ready, Steps
<1>3. Done(j, "debit") => j \in sent /\ j.method = "payout"
  BY DoneFits DEF Ready, Fits, Steps
<1>4. ~(Done(j, "unlock") /\ Done(j, "debit"))
  BY <1>2, <1>3 DEF Quiet, Unmixed
<1>5. CASE UsersDone(j) = {}
  BY <1>1, <1>4, <1>5, AmountOfNone
<1>6. CASE UsersDone(j) # {}
  <2>1. j.method = "hold"
    BY <1>6 DEF UsersDone
  <2>2. outcome[j] = "success"
    BY <1>6, <2>1, UsersClaim
  <2>3. ~Done(j, "unlock") /\ Backed(j)
    BY <2>2, QuietOutcomes DEF OutcomesAreTrue, Base, SuccessesBacked
  <2>4. OwnSteps(j) = {} /\ Done(j, LockStep(j))
    BY <1>3, <2>1, <2>3 DEF OwnSteps, Backed, LockStep
  <2>5. UsersDone(j) \in SUBSET Claims(j.operation) /\ Claims(j.operation) \in SUBSET Jobs
    BY <2>1, UsersClaim DEF Claims, Users
  <2>6. Amount(UsersDone(j)) <= Amount(Claims(j.operation)) /\ Amount(Claims(j.operation)) \in Nat
    BY <2>5, AmountGrows, AmountNat
  <2>7. Amount(Claims(j.operation)) <= j.amount
    BY <2>1 DEF Uses, Budget, Claimed
  <2> QED BY <1>1, <1>4, <2>4, <2>6, <2>7
<1> QED BY <1>5, <1>6

LEMMA QuietLocks == Base /\ Uses /\ Quiet => LocksUsedOnce
<1> SUFFICES ASSUME Base, Uses, Quiet, Calm, NEW j \in Jobs, Locks(j)
             PROVE  GivenBack(j) <= (IF Done(j, LockStep(j)) THEN j.amount ELSE 0)
  BY DEF LocksUsedOnce
<1>1. j.amount \in Nat /\ Amount(UsersDone(j)) \in Nat
  BY OwnStepsTypes, AmountNat, ServiceAssumption
<1>2. CASE OwnSteps(j) = {}
  <2>1. Cardinality(OwnSteps(j)) = 0
    BY <1>2, FS_EmptySet
  <2>2. GivenBack(j) = Amount(UsersDone(j))
    BY <1>1, <2>1 DEF GivenBack
  <2>3. CASE UsersDone(j) = {}
    BY <1>1, <2>2, <2>3, AmountOfNone
  <2>4. CASE UsersDone(j) # {}
    BY <2>2, <2>4, OneWayBack
  <2> QED BY <2>3, <2>4
<1>3. CASE OwnSteps(j) # {}
  <2>1. PICK s : OwnSteps(j) = {s}
    BY <1>3, OneWayBack DEF OwnSteps
  <2>2. Cardinality(OwnSteps(j)) = 1
    BY <2>1, FS_Singleton
  <2>3. UsersDone(j) = {}
    BY <1>3, OneWayBack
  <2>4. GivenBack(j) = j.amount
    BY <1>1, <2>2, <2>3, AmountOfNone DEF GivenBack
  <2> QED BY <1>1, <1>3, <2>4, OwnStepsLock
<1> QED BY <1>2, <1>3

\* The keys of the steps and the router's budget, in calm: crashes and repeated runs of
\* transfer, hold, release, rollback and redeem never give back more than was locked.
THEOREM LocksCorrect == Spec => []LocksUsedOnce
BY QuietLocks, UsesInvariant, QuietInvariant, BaseInvariant, PTL

-----------------------------------------------------------------------------
(* What is on hold *)

\* A transaction is one more.
Adds(j, s) ==
    /\ ~Done(j, s) /\ Done(j, s)'
    /\ \A k \in Jobs, t \in Steps : <<k, t>> # <<j, s>> => (Done(k, t)' <=> Done(k, t))

\* The lock that a statement takes, gives back or uses, and by how much it changes.
Locking(j, s) == Locks(j) /\ s = LockStep(j)
GivingBack(j, s) == Locks(j) /\ s \in {"unlock", "debit"}
Using(j, s, h) == UsesHold(j) /\ s = "main" /\ Backing(j, h)

LEMMA OwnStepsMove ==
  ASSUME NEW j \in Jobs, NEW s \in Steps, Adds(j, s), NEW l \in Jobs
  PROVE  Cardinality(OwnSteps(l)') =
            Cardinality(OwnSteps(l)) + (IF l = j /\ s \in {"unlock", "debit"} THEN 1 ELSE 0)
<1>1. {"unlock", "debit"} \subseteq Steps
  BY DEF Steps
<1>2. IsFiniteSet(OwnSteps(l)) /\ Cardinality(OwnSteps(l)) \in Nat
  BY OwnStepsTypes
<1>3. CASE l = j /\ s \in {"unlock", "debit"}
  <2>1. OwnSteps(l)' = OwnSteps(l) \cup {s} /\ s \notin OwnSteps(l)
    BY <1>1, <1>3 DEF Adds, OwnSteps
  <2>2. Cardinality(OwnSteps(l) \cup {s}) = Cardinality(OwnSteps(l)) + 1
    BY <1>2, <2>1, FS_AddElement
  <2> QED BY <1>3, <2>1, <2>2
<1>4. CASE ~(l = j /\ s \in {"unlock", "debit"})
  <2>1. OwnSteps(l)' = OwnSteps(l)
    BY <1>1, <1>4 DEF Adds, OwnSteps
  <2> QED BY <1>2, <1>4, <2>1
<1> QED BY <1>3, <1>4

LEMMA UsersDoneMove ==
  ASSUME NEW j \in Jobs, NEW s \in Steps, Adds(j, s), NEW l \in Jobs
  PROVE  Amount(UsersDone(l)') = Amount(UsersDone(l)) +
            (IF UsesHold(j) /\ s = "main" /\ l.method = "hold" /\ l.operation = j.operation
             THEN j.amount ELSE 0)
<1>1. UsersDone(l) \in SUBSET Jobs /\ Amount(UsersDone(l)) \in Nat /\ "main" \in Steps
  BY OwnStepsTypes, AmountNat DEF Steps
<1>2. CASE UsesHold(j) /\ s = "main" /\ l.method = "hold" /\ l.operation = j.operation
  <2>1. UsersDone(l)' = UsersDone(l) \cup {j} /\ j \notin UsersDone(l)
    BY <1>1, <1>2 DEF Adds, UsersDone, Users
  <2> QED BY <1>1, <1>2, <2>1, AmountAdds
<1>3. CASE ~(UsesHold(j) /\ s = "main" /\ l.method = "hold" /\ l.operation = j.operation)
  <2>1. UsersDone(l)' = UsersDone(l)
    BY <1>1, <1>3 DEF Adds, UsersDone, Users
  <2> QED BY <1>1, <1>3, <2>1
<1> QED BY <1>2, <1>3

\* So what is outstanding of a lock.
LEMMA OutstandingMove ==
  ASSUME NEW j \in Jobs, NEW s \in Steps, Adds(j, s), NEW l \in Jobs, Locks(l)
  PROVE  /\ Outstanding(l) \in Int
         /\ Outstanding(l)' = Outstanding(l)
              + (IF l = j /\ s = LockStep(l) THEN j.amount ELSE 0)
              - (IF l = j /\ s \in {"unlock", "debit"} THEN l.amount ELSE 0)
              - (IF UsesHold(j) /\ s = "main" /\ l.method = "hold" /\ l.operation = j.operation
                 THEN j.amount ELSE 0)
<1> DEFINE c == Cardinality(OwnSteps(l))
           d == Cardinality(OwnSteps(l)')
           u == Amount(UsersDone(l))
           v == Amount(UsersDone(l)')
           one == IF l = j /\ s \in {"unlock", "debit"} THEN 1 ELSE 0
           used == IF UsesHold(j) /\ s = "main" /\ l.method = "hold" /\ l.operation = j.operation
                   THEN j.amount ELSE 0
<1>1. c \in Nat /\ u \in Nat /\ j.amount \in Nat /\ l.amount \in Nat
  BY OwnStepsTypes, AmountNat, ServiceAssumption
<1>2. d = c + one /\ v = u + used
  BY OwnStepsMove, UsersDoneMove
<1>3. GivenBack(l) = c * l.amount + u /\ GivenBack(l)' = d * l.amount + v
  BY DEF GivenBack
<1>4. Done(l, LockStep(l))' <=> Done(l, LockStep(l)) \/ (l = j /\ s = LockStep(l))
  BY DEF Adds, LockStep, Steps
<1>5. l = j /\ s = LockStep(l) => ~Done(l, LockStep(l))
  BY DEF Adds
<1>6. d * l.amount = c * l.amount + one * l.amount
  <2> HIDE DEF c, d
  <2>1. one \in {0, 1}
    OBVIOUS
  <2> HIDE DEF one
  <2> QED BY <1>1, <1>2, <2>1
<1>7. one * l.amount = IF l = j /\ s \in {"unlock", "debit"} THEN l.amount ELSE 0
  BY <1>1
<1>8. c * l.amount \in Nat
  <2> HIDE DEF c
  <2> QED BY <1>1
<1>9. GivenBack(l) \in Int /\ used \in Int
      /\ GivenBack(l)' = GivenBack(l) + (IF l = j /\ s \in {"unlock", "debit"} THEN l.amount ELSE 0) + used
  <2> HIDE DEF c, d, u, v
  <2>1. used \in Nat
    BY <1>1
  <2> HIDE DEF used, one
  <2> QED BY <1>1, <1>2, <1>3, <1>6, <1>7, <1>8, <2>1
<1> HIDE DEF c, d, u, v, one
<1> QED BY <1>1, <1>4, <1>5, <1>9 DEF Outstanding

\* What a statement puts on hold, or takes from it.
Holding(j, s) ==
    IF Locking(j, s) THEN j.amount
    ELSE IF GivingBack(j, s) \/ (UsesHold(j) /\ s = "main") THEN -j.amount ELSE 0

LEMMA StatementHolds ==
  ASSUME NEW j \in Jobs, NEW s \in Steps, Fits(j, s)
  PROVE  /\ Statement(j, s).hold = Holding(j, s) /\ Statement(j, s).amount \in {0, j.amount}
         /\ Holding(j, s) # 0 => Statement(j, s).source = j.source /\ j.source \in Accounts
         /\ Statement(j, s).destination # None =>
               s = "main" /\ j.method \in {"issue", "transfer", "release"}
               /\ Statement(j, s).destination = j.destination
<1>1. j.method \in Methods /\ j.amount \in Nat /\ (j.method # "issue" => j.source \in Accounts)
  BY ServiceAssumption
<1>2. CASE s = "main"
  <2>1. j.method # "payout"
    BY <1>2 DEF Fits
  <2>2. Statement(j, s) = Main(j)
    BY <1>2 DEF Statement
  <2>3. \/ j.method \in {"issue", "transfer"} \/ (j.method = "redeem" /\ ~UsesHold(j))
        \/ j.method = "hold" \/ UsesHold(j)
    BY <1>1, <2>1, ServiceAssumption DEF Methods, UsesHold
  <2>4. CASE j.method \in {"issue", "transfer"} \/ (j.method = "redeem" /\ ~UsesHold(j))
    <3>1. Holding(j, s) = 0
      BY <1>2, <2>4 DEF Holding, Locking, GivingBack, Locks, UsesHold
    <3> QED BY <1>1, <1>2, <2>2, <2>4, <3>1
            DEF Main, L!Credit, L!Move, L!Debit, L!Op
  <2>5. CASE j.method = "hold"
    <3>1. Holding(j, s) = j.amount
      BY <1>2, <2>5 DEF Holding, Locking, Locks, LockStep
    <3>2. Main(j) = L!Lock(j.source, j.amount)
      BY <2>5 DEF Main
    <3> QED BY <1>1, <1>2, <2>2, <2>5, <3>1, <3>2 DEF L!Lock, L!Op
  <2>6. CASE UsesHold(j)
    <3>1. Holding(j, s) = -j.amount /\ j.method \in {"release", "rollback", "redeem"}
      BY <1>2, <2>6 DEF Holding, Locking, Locks, LockStep, UsesHold
    <3>2. CASE j.method = "release"
      <4>1. Main(j) = L!UnlockAndMove(j.source, j.destination, j.amount)
        BY <3>2 DEF Main
      <4> QED BY <1>1, <1>2, <2>2, <3>1, <3>2, <4>1 DEF L!UnlockAndMove, L!Op
    <3>3. CASE j.method = "rollback"
      <4>1. Main(j) = L!Unlock(j.source, j.amount)
        BY <3>3 DEF Main
      <4> QED BY <1>1, <1>2, <2>2, <3>1, <3>3, <4>1 DEF L!Unlock, L!Op
    <3>4. CASE j.method = "redeem"
      <4>1. Main(j) = L!UnlockAndDebit(j.source, j.amount)
        BY <2>6, <3>4 DEF Main
      <4> QED BY <1>1, <1>2, <2>2, <3>1, <3>4, <4>1 DEF L!UnlockAndDebit, L!Op
    <3> QED BY <3>1, <3>2, <3>3, <3>4
  <2> QED BY <2>3, <2>4, <2>5, <2>6
<1>3. CASE s # "main"
  <2>1. \/ s \in {"hold", "debit"} /\ j.method = "payout"
        \/ s = "unlock" /\ j.method \in {"payout", "hold"}
    BY <1>3 DEF Fits, Steps
  <2>2. Holding(j, s) = IF s = "hold" THEN j.amount ELSE -j.amount
    BY <2>1 DEF Holding, Locking, GivingBack, Locks, LockStep, UsesHold
  <2> QED BY <1>1, <1>3, <2>1, <2>2 DEF Statement, L!Lock, L!Unlock, L!UnlockAndDebit, L!Op
<1> QED BY <1>2, <1>3

\* A transaction changes one lock of the account it is held on, by as much.
LEMMA OneLock ==
  ASSUME Base, Uses, NEW j \in Jobs, NEW s \in Steps, Adds(j, s), Fits(j, s), outcome[j] # "unsent",
         NEW a \in Accounts
  PROVE  LET kept == IF a = j.source THEN Holding(j, s) ELSE 0 IN
         \/ kept = 0 /\ \A l \in LocksOf(a) : Outstanding(l)' = Outstanding(l)
         \/ \E y \in LocksOf(a) :
               /\ Outstanding(y)' = Outstanding(y) + kept
               /\ \A l \in LocksOf(a) \ {y} : Outstanding(l)' = Outstanding(l)
<1>1. \A l \in LocksOf(a) :
        /\ l \in Jobs /\ Locks(l) /\ l.source = a /\ Outstanding(l) \in Int
        /\ Outstanding(l)' = Outstanding(l)
              + (IF l = j /\ s = LockStep(l) THEN j.amount ELSE 0)
              - (IF l = j /\ s \in {"unlock", "debit"} THEN l.amount ELSE 0)
              - (IF UsesHold(j) /\ s = "main" /\ l.method = "hold" /\ l.operation = j.operation
                 THEN j.amount ELSE 0)
  BY OutstandingMove DEF LocksOf
<1>2. j.amount \in Nat
  BY ServiceAssumption
<1>3. UsesHold(j) => ~Locks(j)
  BY DEF UsesHold, Locks
<1>4. CASE Locks(j) /\ a = j.source
  <2>1. j \in LocksOf(a) /\ ~UsesHold(j)
    BY <1>3, <1>4 DEF LocksOf
  <2>2. LockStep(j) \notin {"unlock", "debit"}
    BY DEF LockStep
  <2>3. Outstanding(j)' = Outstanding(j) + Holding(j, s)
    BY <1>1, <1>2, <1>4, <2>1, <2>2 DEF Holding, Locking, GivingBack
  <2>4. \A l \in LocksOf(a) \ {j} : Outstanding(l)' = Outstanding(l)
    BY <1>1, <2>1
  <2> QED BY <1>4, <2>1, <2>3, <2>4
<1>5. CASE UsesHold(j) /\ s = "main"
  <2>1. PICK h \in Jobs : Backing(j, h)
    BY <1>5 DEF Uses, UsersLegal
  <2>2. Locks(h) /\ h.source = j.source /\ h.method = "hold" /\ h.operation = j.operation /\ h # j
    BY <1>3, <1>5, <2>1 DEF Backing, Locks
  <2>3. \A l \in Jobs : l.method = "hold" /\ l.operation = j.operation => l = h
    BY <2>2, ServiceAssumption
  <2>4. \A l \in LocksOf(a) : l # j
    BY <1>1, <1>3, <1>5
  <2>5. \A l \in LocksOf(a) : l # h => Outstanding(l)' = Outstanding(l)
    BY <1>1, <2>3, <2>4
  <2>6. CASE a = j.source
    <3>1. h \in LocksOf(a)
      BY <2>2, <2>6 DEF LocksOf
    <3>2. Holding(j, s) = -j.amount
      BY <1>3, <1>5 DEF Holding, Locking, GivingBack
    <3>3. Outstanding(h)' = Outstanding(h) + Holding(j, s)
      BY <1>1, <1>2, <1>5, <2>2, <2>4, <3>1, <3>2
    <3> QED BY <2>5, <2>6, <3>1, <3>3
  <2>7. CASE a # j.source
    <3>1. h \notin LocksOf(a)
      BY <2>2, <2>7 DEF LocksOf
    <3> QED BY <2>5, <2>7, <3>1
  <2> QED BY <2>6, <2>7
<1>6. CASE ~(Locks(j) /\ a = j.source) /\ ~(UsesHold(j) /\ s = "main")
  <2>1. \A l \in LocksOf(a) : l # j
    BY <1>1, <1>6
  <2>2. \A l \in LocksOf(a) : Outstanding(l)' = Outstanding(l)
    BY <1>1, <1>6, <2>1
  <2>3. a = j.source => Holding(j, s) = 0
    BY <1>6 DEF Holding, Locking, GivingBack
  <2> QED BY <2>2, <2>3
<1> QED BY <1>4, <1>5, <1>6

\* So the sum of an account's locks changes by what the statement says.
LEMMA LocksMove ==
  ASSUME Base, Uses, HeldExplained, NEW j \in Jobs, NEW s \in Steps, Adds(j, s), Fits(j, s),
         outcome[j] # "unsent", NEW a \in Accounts,
         held'[a] = held[a] + (IF a = j.source THEN Holding(j, s) ELSE 0)
  PROVE  held'[a] = SumFunctionOnSet([l \in LocksOf(a) |-> Outstanding(l)'], LocksOf(a))
<1> DEFINE S == LocksOf(a)
           f == [l \in S |-> Outstanding(l)]
           g == [l \in S |-> Outstanding(l)']
           kept == IF a = j.source THEN Holding(j, s) ELSE 0
<1>1. IsFiniteSet(S)
  <2>1. S \subseteq Jobs
    BY DEF LocksOf
  <2> QED BY <2>1, ServiceAssumption, FS_Subset
<1>2. \A l \in S : f[l] \in Int
  BY OutstandingMove DEF LocksOf
<1>3. kept \in Int
  BY ServiceAssumption DEF Holding
<1>4. \/ kept = 0 /\ \A l \in S : g[l] = f[l]
      \/ \E y \in S : g[y] = f[y] + kept /\ \A l \in S \ {y} : g[l] = f[l]
  BY OneLock
<1>5. held[a] = SumFunctionOnSet(f, S) /\ held'[a] = held[a] + kept
  BY DEF HeldExplained
<1> HIDE DEF f, g, S, kept
<1>6. SumFunctionOnSet(f, S) \in Int
  BY <1>1, <1>2, SumInt
<1>7. CASE kept = 0 /\ \A l \in S : g[l] = f[l]
  <2>1. SumFunctionOnSet(f, S) = SumFunctionOnSet(g, S)
    BY <1>1, <1>7, SumSame
  <2>2. held'[a] = SumFunctionOnSet(g, S)
    BY <1>5, <1>6, <1>7, <2>1
  <2> QED BY <2>2 DEF g, S
<1>8. ASSUME NEW y \in S, g[y] = f[y] + kept, \A l \in S \ {y} : g[l] = f[l]
      PROVE  held'[a] = SumFunctionOnSet(g, S)
  <2>1. \A l \in S : g[l] \in Int
    BY <1>2, <1>3, <1>8
  <2>2. SumFunctionOnSet(g, S) = SumFunctionOnSet(f, S) - f[y] + g[y]
    BY <1>1, <1>2, <1>8, <2>1, SumChanges
  <2>3. f[y] \in Int
    BY <1>2
  <2> QED BY <1>3, <1>5, <1>6, <1>8, <2>2, <2>3
<1> QED BY <1>4, <1>7, <1>8 DEF g, S

\* What a transaction does to what is held: what the operation says, on its source.
LEMMA TransactHolds ==
  ASSUME Base, NEW p \in Clients, L!Transacts(p)
  PROVE  \E j \in Jobs, s \in Steps :
            /\ Adds(j, s) /\ Fits(j, s) /\ outcome[j] # "unsent"
            /\ \A a \in Accounts : held'[a] = held[a] + (IF a = j.source THEN Holding(j, s) ELSE 0)
<1>1. Running(p) /\ L!Found(p) = L!Parties(stmts[p].op) /\ L!UpdateRows(stmts[p].op, L!Found(p))
  BY DEF L!Transacts, L!Ends, Running
<1>2. PICK j \in Jobs, s \in Steps : j = JobOf(p) /\ s = StepOf(p) /\ stmts[p].key = <<j, s>>
  BY <1>1, RunningTypes DEF Base
<1>3. stmts[p].op = Statement(j, s) /\ Fits(j, s) /\ outcome[j] # "unsent"
  BY <1>1, <1>2 DEF Base, StmtsReached, Reached
<1>4. Adds(j, s)
  <2>1. /\ journal[<<j, s>>] = NoTx /\ journal'[<<j, s>>] # NoTx
        /\ \A k \in Jobs \X Steps : k # <<j, s>> => journal'[k] = journal[k]
    BY <1>2, TransactMoves DEF Base
  <2> QED BY <2>1 DEF Adds, Done
<1>5. ASSUME NEW a \in Accounts
      PROVE  held'[a] = held[a] + (IF a = j.source THEN Holding(j, s) ELSE 0)
  <2> DEFINE op == Statement(j, s)
  <2>1. held[a] \in Nat /\ held'[a] = IF a \in L!Parties(op) THEN held[a] + L!Kept(op, a) ELSE held[a]
    BY <1>1, <1>3 DEF L!UpdateRows, L!NewHeld, Base, TypeOK, L!TypeOK
  <2>2. a \notin L!Parties(op) => a # op.source
    BY ServiceAssumption DEF L!Parties
  <2>3. /\ op.hold = Holding(j, s) /\ Holding(j, s) \in Int
        /\ Holding(j, s) # 0 => op.source = j.source
    BY <1>3, StatementHolds, ServiceAssumption DEF Holding
  <2> HIDE DEF op
  <2>4. L!Kept(op, a) = IF a = j.source THEN Holding(j, s) ELSE 0
    BY <2>3 DEF L!Kept
  <2>5. a \notin L!Parties(op) => L!Kept(op, a) = 0
    BY <2>2 DEF L!Kept
  <2> QED BY <2>1, <2>3, <2>4, <2>5
<1> QED BY <1>3, <1>4, <1>5

\* An update of a part of the accounts is not one of what is held: where there is another
\* party, it has its row.
LEMMA PartHoldsNothing ==
  ASSUME Base, NEW p \in Clients, L!CommitPart(p)
  PROVE  held' = held
<1>1. Running(p) /\ L!Found(p) # L!Parties(stmts[p].op) /\ L!UpdateRows(stmts[p].op, L!Found(p))
  BY DEF L!CommitPart, L!Ends, Running
<1>2. PICK j \in Jobs, s \in Steps : j = JobOf(p) /\ s = StepOf(p)
  BY <1>1, RunningTypes DEF Base
<1> DEFINE op == Statement(j, s)
<1>3. /\ stmts[p].op = op /\ Fits(j, s)
      /\ s = "main" /\ j.method \in {"issue", "transfer", "release"} => j.destination \in stmts[p].seen
  BY <1>1, <1>2 DEF Base, StmtsReached, Reached
<1>4. op.destination # None => op.destination \in stmts[p].seen
  BY <1>3, StatementHolds
<1>5. op.source \notin L!Found(p)
  BY <1>1, <1>3, <1>4 DEF L!Found, L!Parties
<1>6. op.hold \in Int
  BY <1>3, StatementHolds, ServiceAssumption DEF Holding
<1> HIDE DEF op
<1>7. \A a \in Accounts : held[a] \in Nat /\ (a \in L!Found(p) => L!NewHeld(op, a) = held[a])
  BY <1>5, <1>6 DEF L!NewHeld, L!Kept, Base, TypeOK, L!TypeOK
<1>8. held' = [a \in Accounts |-> held[a]]
  BY <1>1, <1>3, <1>7 DEF L!UpdateRows
<1>9. held \in [Accounts -> Nat]
  BY DEF Base, TypeOK, L!TypeOK
<1> QED BY <1>8, <1>9

LEMMA StepHeld == Base /\ Uses /\ HeldExplained /\ [Next]_vars => HeldExplained'
<1> SUFFICES ASSUME Base, Uses, HeldExplained, [Next]_vars PROVE HeldExplained'
  OBVIOUS
<1>1. CASE UNCHANGED <<held, journal>>
  BY <1>1 DEF HeldExplained, Outstanding, Done, GivenBack, OwnSteps, UsersDone
<1>2. ASSUME NEW p \in Clients, L!Transacts(p) PROVE HeldExplained'
  <2>1. PICK j \in Jobs, s \in Steps :
            /\ Adds(j, s) /\ Fits(j, s) /\ outcome[j] # "unsent"
            /\ \A a \in Accounts : held'[a] = held[a] + (IF a = j.source THEN Holding(j, s) ELSE 0)
    BY <1>2, TransactHolds
  <2> QED BY <2>1, LocksMove DEF HeldExplained
<1>3. ASSUME NEW p \in Clients, L!Step(p) PROVE HeldExplained'
  <2>1. L!Transacts(p) \/ L!CommitPart(p) \/ UNCHANGED <<held, journal>>
    BY <1>3 DEF L!Step, L!ReturnFound, L!Commit, L!CommitUnheard, L!Short, L!KeyTaken, L!Aborts, L!tables
  <2>2. L!CommitPart(p) => UNCHANGED <<held, journal>>
    BY PartHoldsNothing DEF L!CommitPart
  <2> QED BY <1>1, <1>2, <2>1, <2>2
<1>4. ASSUME NEW p \in Clients, Returns(p) \/ Throws(p) \/ Orphaned(p) PROVE HeldExplained'
  BY <1>3, <1>4 DEF Returns, Throws, Orphaned, L!Step
<1>5. ASSUME NEW p \in Clients, Ensure(p) \/ Send(p) PROVE UNCHANGED <<held, journal>>
  BY <1>5 DEF Ensure, Send, L!EnsureAccount, L!Begin, L!tables
<1> QED
  BY <1>1, <1>4, <1>5
     DEF Next, RunStep, Serve, Recover, DelegateAnswers, DelegateThrows, Finish, Crash, Restart,
         vars, ledgerVars

LEMMA InitHeld == Init => HeldExplained
<1> SUFFICES ASSUME Init, NEW a \in Accounts
             PROVE  held[a] = SumFunctionOnSet([l \in LocksOf(a) |-> Outstanding(l)], LocksOf(a))
  BY DEF HeldExplained
<1>1. \A j \in Jobs, s \in Steps : ~Done(j, s)
  BY DEF Init, L!Init, Done
<1>2. \A l \in LocksOf(a) : Outstanding(l) = 0
  <2> SUFFICES ASSUME NEW l \in LocksOf(a) PROVE Outstanding(l) = 0
    OBVIOUS
  <2>1. l \in Jobs /\ LockStep(l) \in Steps /\ l.amount \in Nat
    BY ServiceAssumption DEF LocksOf, LockStep, Steps
  <2>2. OwnSteps(l) = {} /\ UsersDone(l) = {}
    BY <1>1, <2>1 DEF OwnSteps, UsersDone, Users, Steps
  <2>3. GivenBack(l) = 0
    BY <2>1, <2>2, FS_EmptySet, AmountOfNone DEF GivenBack
  <2> QED BY <1>1, <2>1, <2>3 DEF Outstanding
<1>3. IsFiniteSet(LocksOf(a))
  BY ServiceAssumption, FS_Subset DEF LocksOf
<1> DEFINE f == [l \in LocksOf(a) |-> Outstanding(l)]
<1>4. \A l \in LocksOf(a) : f[l] = 0
  BY <1>2
<1> HIDE DEF f
<1>5. SumFunctionOnSet(f, LocksOf(a)) = 0
  BY <1>3, <1>4, SumOfZeros
<1>6. held[a] = 0
  BY DEF Init, L!Init
<1> QED BY <1>5, <1>6 DEF f

LEMMA HeldInvariant == Spec => []HeldExplained
BY InitHeld, StepHeld, UsesInvariant, BaseInvariant, PTL DEF Spec

-----------------------------------------------------------------------------
(* In calm: what was locked is there *)

\* Of no lock more is given back than was locked, so each has its part of what is held.
LEMMA HeldCovers ==
  ASSUME Base, Uses, Quiet, Calm, HeldExplained, NEW l \in Jobs, Locks(l), l.source \in Accounts
  PROVE  Outstanding(l) \in Nat /\ Outstanding(l) <= held[l.source]
<1> DEFINE S == LocksOf(l.source)
           f == [x \in S |-> Outstanding(x)]
<1>1. IsFiniteSet(S) /\ l \in S /\ S \subseteq Jobs
  BY ServiceAssumption, FS_Subset DEF LocksOf
<1>2. \A x \in S : Outstanding(x) \in Nat
  <2> SUFFICES ASSUME NEW x \in S PROVE Outstanding(x) \in Nat
    OBVIOUS
  <2>1. x \in Jobs /\ Locks(x)
    BY DEF LocksOf
  <2>2. GivenBack(x) <= (IF Done(x, LockStep(x)) THEN x.amount ELSE 0)
    BY <2>1, QuietLocks DEF LocksUsedOnce
  <2> QED BY <2>1, <2>2, GivenBackNat DEF Outstanding
<1>3. \A x \in S : f[x] \in Nat
  BY <1>2
<1>4. f[l] = Outstanding(l) /\ held[l.source] = SumFunctionOnSet(f, S)
  BY <1>1 DEF HeldExplained
<1> HIDE DEF f, S
<1>5. SumFunctionOnSet(f, S) = f[l] + SumFunctionOnSet(f, S \ {l})
  BY <1>1, <1>3, SumRemoves
<1>6. IsFiniteSet(S \ {l})
  BY <1>1, FS_Subset
<1>7. SumFunctionOnSet(f, S \ {l}) \in Nat
  BY <1>3, <1>6, SumNat
<1> QED BY <1>1, <1>2, <1>4, <1>5, <1>7

\* A statement that gives back has its lock outstanding.
LEMMA GivingBackOutstanding ==
  ASSUME Base, Quiet, Calm, Uses, NEW j \in Jobs, NEW s \in {"unlock", "debit"}, Locks(j),
         Reached(j, s), ~Done(j, s), outcome[j] = "pending"
  PROVE  Outstanding(j) = j.amount
<1>1. Done(j, LockStep(j)) /\ j.amount \in Nat
  BY ServiceAssumption DEF Reached, Fits, Ready, LockStep
<1>2. s = "unlock" => j \in denied
  BY DEF Reached, Ready
<1>3. s = "debit" => j \in sent
  BY DEF Reached, Ready
<1>4. Done(j, "debit") => j \in sent
  BY DoneFits DEF Ready, Steps
<1>5. Done(j, "unlock") => j \in denied
  BY DoneFits DEF Ready, Steps
<1>6. OwnSteps(j) = {}
  BY <1>2, <1>3, <1>4, <1>5 DEF OwnSteps, Quiet, Unmixed
<1>7. UsersDone(j) = {}
  <2>1. j.method # "hold" => UsersDone(j) = {}
    BY DEF UsersDone
  <2>2. j.method = "hold" => \A u : u \notin UsersDone(j)
    BY UsersClaim
  <2> QED BY <2>1, <2>2
<1>8. GivenBack(j) = 0
  BY <1>1, <1>6, <1>7, FS_EmptySet, AmountOfNone DEF GivenBack
<1> QED BY <1>1, <1>8 DEF Outstanding

\* What uses a hold finds its amount in it.
LEMMA UsingOutstanding ==
  ASSUME Base, Quiet, Calm, Uses, NEW j \in Jobs, UsesHold(j), ~Done(j, "main"), outcome[j] = "pending",
         NEW h \in Jobs, Backing(j, h)
  PROVE  j.amount <= Outstanding(h)
<1>1. h.method = "hold" /\ h.operation = j.operation /\ outcome[h] = "success" /\ Locks(h)
  BY DEF Backing, Locks
<1>2. Done(h, LockStep(h)) /\ ~Done(h, "unlock")
  BY <1>1, QuietOutcomes DEF OutcomesAreTrue, Base, SuccessesBacked, Backed, LockStep
<1>3. ~Done(h, "debit")
  BY <1>1, DoneFits DEF Fits, Steps
<1>4. OwnSteps(h) = {}
  BY <1>2, <1>3 DEF OwnSteps
<1>5. UsersDone(h) \in SUBSET Jobs /\ j \notin UsersDone(h)
      /\ UsersDone(h) \cup {j} \in SUBSET Claims(h.operation) /\ Claims(h.operation) \in SUBSET Jobs
  BY <1>1, UsersClaim DEF UsersDone, Claims, Users
<1>6. Amount(UsersDone(h) \cup {j}) = Amount(UsersDone(h)) + j.amount
  BY <1>5, AmountAdds
<1>7. Amount(UsersDone(h) \cup {j}) <= Amount(Claims(h.operation))
  BY <1>5, AmountGrows
<1>8. Amount(Claims(h.operation)) <= h.amount
  BY <1>1 DEF Uses, Budget, Claimed
<1>9. Amount(UsersDone(h)) \in Nat /\ Amount(Claims(h.operation)) \in Nat /\ h.amount \in Nat /\ j.amount \in Nat
  BY <1>5, AmountNat, ServiceAssumption
<1>10. GivenBack(h) = Amount(UsersDone(h))
  BY <1>4, <1>9, FS_EmptySet DEF GivenBack
<1>11. Outstanding(h) = h.amount - Amount(UsersDone(h))
  BY <1>2, <1>10 DEF Outstanding
<1> QED BY <1>6, <1>7, <1>8, <1>9, <1>11

\* A statement that takes from what is held takes from one lock, on its account.
LEMMA TakenIsOutstanding ==
  ASSUME Base, Quiet, Calm, Uses, NEW j \in Jobs, NEW s \in Steps, Reached(j, s), ~Done(j, s),
         outcome[j] = "pending", Holding(j, s) < 0
  PROVE  \E l \in Jobs : /\ Locks(l) /\ l.source = j.source /\ -Holding(j, s) = j.amount
                         /\ j.amount <= Outstanding(l)
<1>1. j.amount \in Nat
  BY ServiceAssumption
<1>2. Holding(j, s) = -j.amount /\ (GivingBack(j, s) \/ (UsesHold(j) /\ s = "main"))
  BY <1>1 DEF Holding
<1>3. CASE GivingBack(j, s)
  <2>1. Outstanding(j) = j.amount
    BY <1>3, GivingBackOutstanding DEF GivingBack
  <2> QED BY <1>1, <1>2, <1>3, <2>1 DEF GivingBack
<1>4. CASE UsesHold(j) /\ s = "main"
  <2>1. PICK h \in Jobs : Backing(j, h)
    BY <1>4 DEF Uses, UsersLegal
  <2>2. j.amount <= Outstanding(h)
    BY <1>4, <2>1, UsingOutstanding
  <2> QED BY <1>1, <1>2, <2>1, <2>2 DEF Backing, Locks
<1> QED BY <1>2, <1>3, <1>4

LEMMA QuietFunds == Base /\ Uses /\ Quiet /\ HeldExplained => LockedFundsAreThere
<1> SUFFICES ASSUME Base, Uses, Quiet, HeldExplained, Calm, NEW p \in Clients,
                    stmts[p] # L!NoStmt, stmts[p].op.hold < 0, stmts[p].found = NoTx,
                    journal[stmts[p].key] = NoTx
             PROVE  L!Covered(stmts[p].op, L!Found(p))
  BY DEF LockedFundsAreThere
<1>1. Running(p)
  BY DEF Base, TypeOK, L!TypeOK, Running, L!Running
<1>2. PICK j \in Jobs, s \in Steps : j = JobOf(p) /\ s = StepOf(p) /\ stmts[p].key = <<j, s>>
  BY <1>1, RunningTypes DEF Base
<1> DEFINE op == Statement(j, s)
<1>3. stmts[p].op = op /\ Reached(j, s) /\ ~Done(j, s) /\ outcome[j] = "pending"
  BY <1>1, <1>2 DEF Base, StmtsReached, Done, Quiet, InFlight
<1>4. /\ op.hold = Holding(j, s) /\ op.source = j.source /\ j.source \in Accounts
      /\ op.amount \in {0, j.amount} /\ Holding(j, s) < 0 /\ j.amount \in Nat
  BY <1>3, StatementHolds, ServiceAssumption DEF Reached
<1>5. PICK l \in Jobs : Locks(l) /\ l.source = j.source /\ -Holding(j, s) = j.amount
                        /\ j.amount <= Outstanding(l)
  BY <1>3, <1>4, TakenIsOutstanding
<1>6. Outstanding(l) \in Nat /\ Outstanding(l) <= held[j.source]
  BY <1>4, <1>5, HeldCovers
<1>7. op.hold = -j.amount /\ j.amount <= held[op.source]
  <2>1. held[j.source] \in Nat /\ Holding(j, s) \in Int
    BY <1>4 DEF Holding, Base, TypeOK, L!TypeOK
  <2> QED BY <1>4, <1>5, <1>6, <2>1
<1> HIDE DEF op
<1> SUFFICES ASSUME NEW a \in L!Found(p)
             PROVE  0 <= L!NewHeld(op, a) /\ L!NewHeld(op, a) <= L!NewBalance(op, a)
  BY <1>3 DEF L!Covered
<1>8. a \in Accounts
  BY <1>1 DEF L!Found, Base, TypeOK, L!TypeOK, L!Running, L!NoStmt, Running
<1>9. held[a] \in Nat /\ balance[a] \in Nat /\ held[a] <= balance[a]
  BY <1>8 DEF Base, TypeOK, L!TypeOK
<1>10. CASE a = op.source
  BY <1>4, <1>7, <1>9, <1>10 DEF L!NewHeld, L!NewBalance, L!Kept, L!Moved
<1>11. CASE a # op.source
  BY <1>4, <1>7, <1>9, <1>11 DEF L!NewHeld, L!NewBalance, L!Kept, L!Moved
<1> QED BY <1>10, <1>11

\* unlock, unlockAndMove and unlockAndDebit, in calm: what was locked is on hold when it
\* is given back, since what is on hold is the sum of what was locked and not given back.
THEOREM LockedFundsCorrect == Spec => []LockedFundsAreThere
BY QuietFunds, HeldInvariant, UsesInvariant, QuietInvariant, BaseInvariant, PTL

=============================================================================
