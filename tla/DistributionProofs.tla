------------------------- MODULE DistributionProofs -------------------------
(***************************************************************************)
(* Theorems about Distribution, for any investors, requests and bounds:    *)
(* no account is overdrawn, replies say what was moved, the router imports *)
(* only what was made and, when no funds move while a sync runs, no method *)
(* creates or loses funds.                                                 *)
(***************************************************************************)
EXTENDS Distribution, Sums

-----------------------------------------------------------------------------
(* The invariant *)

Running(c) == stmts[c].pc = "running"
Ledger == L!TypeOK /\ L!StmtsHonest /\ L!AnswersAreJournaled

Moves == 1..Cardinality(Accounts)

JobType == [offer : Offers, pc : Steps \ {"none"}, todo : Seq(Accounts \X Nat), next : Nat \ {0},
            read : 0..MaxChain, sum : Nat]

Typed ==
    /\ jobs \in [Calls -> JobType \cup {NoJob}]
    /\ onChain \in 0..MaxChain
    /\ imports \subseteq Keys
    /\ owed \in Nat
    /\ astray \in [Accounts -> Int]
    /\ crashes \in 0..MaxCrashes

\* The moves of a request that have been made.
Made(c) == {i \in Moves : journal[<<c, i>>] # NoTx}

\* Where a method is, and how far it has come.
Begun(j) == j.pc \in {"ensure", "send", "sent", "import"}

Placed(j) ==
    /\ Len(j.todo) \in 0..Cardinality(Accounts)
    /\ Begun(j) => /\ j.next <= Len(j.todo) /\ j.offer.call # "sync"
                   /\ Imported(j) \/ Len(j.todo) = 1
    /\ j.pc = "list" => j.offer.call = "flush"
    /\ j.pc \in {"read", "list", "ensure omnibus", "sum", "set"} => j.next = 1 /\ j.todo = <<>>
    /\ j.pc \in {"sum", "set"} => Omnibus \in opened

Progress(c) ==
    LET j == jobs[c] IN
    /\ j.pc = "ok" => Made(c) = 1..Len(j.todo)
    /\ j.pc = "import" => Made(c) = 1..j.next
    /\ j.pc \in {"error", "dead"} => Made(c) = 1..(j.next - 1) \/ Made(c) = 1..j.next
    /\ j.pc \notin {"ok", "import", "error", "dead"} => Made(c) = 1..(j.next - 1)

JobsPlaced ==
    \A c \in Calls : IF jobs[c] = NoJob THEN Made(c) = {} ELSE Placed(jobs[c]) /\ Progress(c)

\* What is moved comes from outside or stays among the accounts.
Conserves(op) == op.destination # None \/ op.amount = 0

StmtsPlaced ==
    /\ \A c \in Calls : Running(c) =>
        /\ jobs[c].pc \in {"sent", "dead"} /\ jobs[c].next \in Moves
        /\ stmts[c].key = <<c, jobs[c].next>>
        /\ Made(c) = 1..(jobs[c].next - 1)
        /\ Conserves(stmts[c].op)
    /\ \A c \in Calls : jobs[c].pc = "sent" => Running(c)

\* While a sync runs alone, nothing is in flight and it has the sum.
SyncsAlone ==
    SyncAlone => \A c \in Calls : jobs[c].pc = "set" =>
        /\ jobs[c].sum = InvestorSum
        /\ \A d \in Calls : ~Running(d)

IInv == Ledger /\ Typed /\ JobsPlaced /\ StmtsPlaced

-----------------------------------------------------------------------------
(* The ledger: LedgerProofs says what its steps keep *)

LP == INSTANCE LedgerProofs WITH Clients <- Calls, Amounts <- Nat, Requests <- {},
                                 AccountsFirst <- {FALSE}, accountsFirst <- FALSE

LEMMA SameOps == LP!Ops = L!Ops
BY DEF LP!Ops, L!Ops, LP!Op, L!Op, LP!Credit, L!Credit, LP!Debit, L!Debit, LP!Lock, L!Lock,
       LP!Unlock, L!Unlock, LP!Move, L!Move, LP!UnlockAndMove, L!UnlockAndMove,
       LP!UnlockAndDebit, L!UnlockAndDebit, LP!Pairs, L!Pairs

LEMMA OpsTyped ==
  L!Ops \subseteq [source : Accounts \cup {None}, destination : Accounts \cup {None},
                   amount : Nat, hold : Int]
BY DEF L!Ops, L!Op, L!Credit, L!Debit, L!Lock, L!Unlock, L!Move, L!UnlockAndMove,
       L!UnlockAndDebit, L!Pairs

LEMMA LedgerAssumptions == LP!LedgerAssumption /\ LP!RequestsAssumption
BY SameOps, OpsTyped, DistributionAssumption, NoTransactionAssumption
   DEF LP!LedgerAssumption, LP!RequestsAssumption

LEMMA SameInvariant == (Ledger <=> LP!IInv) /\ (Ledger' <=> LP!IInv')
BY SameOps
   DEF Ledger, LP!IInv, LP!TypeOK, L!TypeOK, LP!StmtsHonest, L!StmtsHonest,
       LP!AnswersAreJournaled, L!AnswersAreJournaled, LP!Running, L!Running, LP!NoStmt, L!NoStmt,
       LP!Errors, L!Errors, LP!Parties, L!Parties

LEMMA SameSteps ==
  ASSUME NEW c \in Calls
  PROVE  /\ \A a : L!EnsureAccount(a) => LP!EnsureAccount(a)
         /\ \A r : L!Begin(c, r) => LP!Begin(c, r)
         /\ L!Step(c) => LP!Step(c)
BY SameOps
   DEF LP!EnsureAccount, L!EnsureAccount, LP!Begin, L!Begin, LP!Step, L!Step, LP!ReturnFound,
       L!ReturnFound, LP!Commit, L!Commit, LP!CommitUnheard, L!CommitUnheard, LP!CommitPart,
       L!CommitPart, LP!Short, L!Short, LP!KeyTaken, L!KeyTaken, LP!Aborts, L!Aborts,
       LP!Transacts, L!Transacts, LP!Ends, L!Ends, LP!Throws, L!Throws, LP!NoStmt, L!NoStmt,
       LP!Parties, L!Parties, LP!Found, L!Found, LP!Covered, L!Covered, LP!UpdateRows, L!UpdateRows,
       LP!NewBalance, L!NewBalance, LP!NewHeld, L!NewHeld, LP!Moved, L!Moved, LP!Kept, L!Kept,
       LP!tables, L!tables

LEMMA EnsureLedger ==
  ASSUME Ledger, NEW a \in Accounts, NEW c \in Calls, L!EnsureAccount(a)
  PROVE  Ledger'
BY LedgerAssumptions, SameInvariant, SameSteps, LP!EnsureIInv

LEMMA BeginLedger ==
  ASSUME Ledger, NEW c \in Calls, NEW r \in [key : Keys, op : L!Ops], L!Begin(c, r)
  PROVE  Ledger'
BY LedgerAssumptions, SameInvariant, SameSteps, SameOps, LP!BeginIInv

LEMMA EndLedger ==
  ASSUME Ledger, NEW c \in Calls, L!Step(c)
  PROVE  Ledger'
BY LedgerAssumptions, SameInvariant, SameSteps, LP!EndIInv

\* The rest of the methods leaves the ledger alone, or counts a fault, or sets the balance
\* of the omnibus account.
LEMMA LedgerKept ==
  ASSUME Ledger, UNCHANGED <<opened, held, journal, stmts, answers, refused>>,
         faults' \in 0..MaxFaults, balance' \in [Accounts -> Nat],
         \A a \in Accounts : held[a] <= balance'[a],
         \A a \in Accounts \ opened : balance'[a] = 0
  PROVE  Ledger'
BY DEF Ledger, L!TypeOK, L!StmtsHonest, L!AnswersAreJournaled

LEMMA LedgerTypes ==
  ASSUME Ledger
  PROVE  /\ opened \subseteq Accounts /\ balance \in [Accounts -> Nat] /\ held \in [Accounts -> Nat]
         /\ \A a \in Accounts : held[a] <= balance[a]
         /\ \A a \in Accounts \ opened : balance[a] = 0
         /\ journal \in [Keys -> L!Ops \cup {NoTx}] /\ faults \in 0..MaxFaults
         /\ DOMAIN stmts = Calls /\ \A c \in Calls : Running(c) \/ stmts[c] = L!NoStmt
BY DEF Ledger, L!TypeOK, L!Running, Running

-----------------------------------------------------------------------------
(* The accounts *)

Holders == ToSet(Investors)

LEMMA FiniteAccounts ==
  /\ IsFiniteSet(Holders) /\ IsFiniteSet(Accounts) /\ Omnibus \notin Holders
  /\ Accounts = Holders \cup {Omnibus}
  /\ Cardinality(Accounts) \in Nat \ {0} /\ 1 \in Moves
<1>1. Investors \in [1..Len(Investors) -> Holders] /\ Len(Investors) \in Nat
  BY DistributionAssumption DEF Holders
<1>2. Investors \in Surjection(1..Len(Investors), Holders)
  BY <1>1 DEF Surjection, Holders, ToSet
<1>3. IsFiniteSet(1..Len(Investors))
  BY <1>1, FS_Interval
<1>4. IsFiniteSet(Holders)
  BY <1>2, <1>3, FS_Surjection
<1>5. IsFiniteSet(Accounts)
  BY <1>4, FS_AddElement DEF Accounts, Holders
<1>6. Accounts # {} /\ Accounts = Holders \cup {Omnibus}
  BY DEF Accounts, Holders
<1>7. Cardinality(Accounts) \in Nat \ {0}
  BY <1>5, <1>6, FS_CardinalityType, FS_EmptySet
<1> QED BY <1>4, <1>5, <1>6, <1>7, DistributionAssumption DEF Moves, Holders

\* What the investors have together.
LEMMA SumTypes ==
  ASSUME Ledger
  PROVE  InvestorSum \in Nat /\ SumFunctionOnSet(balance, Accounts) = balance[Omnibus] + InvestorSum
<1>1. \A a \in Accounts : balance[a] \in Nat /\ balance[a] \in Int
  BY LedgerTypes
<1>2. SumFunctionOnSet(balance, Holders) \in Nat
  BY <1>1, FiniteAccounts, SumNat
<1>3. SumFunctionOnSet(balance, Accounts) = balance[Omnibus] + SumFunctionOnSet(balance, Holders)
  BY <1>1, FiniteAccounts, SumAdds
<1> QED BY <1>2, <1>3 DEF InvestorSum, Holders

-----------------------------------------------------------------------------
(* The methods, one step at a time *)

\* A method that has begun is an offer with something to move.
LEMMA JobTypes ==
  ASSUME Typed, NEW c \in Calls, jobs[c].pc # "none"
  PROVE  /\ jobs[c] \in JobType /\ jobs[c] # NoJob
         /\ jobs[c].offer.account \in Accounts /\ jobs[c].offer.amount \in Nat
         /\ jobs[c].offer.call \in {"sync", "flush", "distribute", "reclaim", "issue", "hold"}
<1>1. jobs[c] \in JobType
  BY DEF Typed, NoJob
<1>2. jobs[c] # NoJob
  BY DEF NoJob
<1>3. jobs[c].offer \in Offers
  BY <1>1 DEF JobType
<1>4. \A n \in 1..MaxFunds : n \in Nat
  BY DistributionAssumption
<1> QED BY <1>1, <1>2, <1>3, <1>4, DistributionAssumption

LEMMA JobIsPlaced ==
  ASSUME JobsPlaced, NEW c \in Calls, jobs[c].pc # "none"
  PROVE  Placed(jobs[c]) /\ Progress(c)
BY DEF JobsPlaced, NoJob

\* What is under way.
LEMMA ItemTypes ==
  ASSUME Typed, JobsPlaced, NEW c \in Calls, Begun(jobs[c])
  PROVE  /\ jobs[c].next \in DOMAIN jobs[c].todo /\ jobs[c].next \in Moves
         /\ Item(c)[1] \in Accounts /\ Item(c)[2] \in Nat
         /\ <<c, jobs[c].next>> \in Keys
<1>1. jobs[c].pc # "none"
  BY DEF Begun
<1>2. jobs[c].todo \in Seq(Accounts \X Nat) /\ jobs[c].next \in Nat \ {0}
  BY <1>1, JobTypes DEF JobType
<1>3. Len(jobs[c].todo) \in 0..Cardinality(Accounts) /\ jobs[c].next <= Len(jobs[c].todo)
  BY <1>1, JobIsPlaced DEF Placed
<1>4. Cardinality(Accounts) \in Nat
  BY FiniteAccounts
<1>5. jobs[c].next \in 1..Len(jobs[c].todo) /\ jobs[c].next \in Moves
  BY <1>2, <1>3, <1>4 DEF Moves
<1>6. jobs[c].todo[jobs[c].next] \in Accounts \X Nat
  BY <1>2, <1>5
<1> QED BY <1>2, <1>5, <1>6 DEF Item, Moves, Keys

LEMMA StatementOps ==
  ASSUME Typed, JobsPlaced, NEW c \in Calls, jobs[c].pc = "send",
         Imported(jobs[c]) => Item(c)[1] # Omnibus
  PROVE  Statement(c) \in L!Ops /\ Conserves(Statement(c))
<1>1. Begun(jobs[c]) /\ jobs[c].pc # "none"
  BY DEF Begun
<1>2. Item(c)[1] \in Accounts /\ Item(c)[2] \in Nat
  BY <1>1, ItemTypes
<1>3. /\ jobs[c].offer.call \in {"sync", "flush", "distribute", "reclaim", "issue", "hold"}
      /\ jobs[c].offer.call # "sync"
  BY <1>1, JobTypes, JobIsPlaced DEF Placed
<1>4. Omnibus \in Accounts /\ None \notin Accounts
  BY DistributionAssumption DEF Accounts
<1>5. CASE jobs[c].offer.call = "distribute"
  <2>1. Statement(c) = L!Move(Omnibus, Item(c)[1], Item(c)[2])
    BY <1>5 DEF Statement
  <2>2. <<Omnibus, Item(c)[1]>> \in L!Pairs
    BY <1>2, <1>4, <1>5 DEF Imported, L!Pairs
  <2> QED BY <1>2, <1>4, <2>1, <2>2 DEF L!Ops, L!Move, L!Op, Conserves
<1>6. CASE jobs[c].offer.call = "issue"
  <2>1. Statement(c) = L!Credit(Item(c)[1], Item(c)[2])
    BY <1>6 DEF Statement
  <2> QED BY <1>2, <1>4, <2>1 DEF L!Ops, L!Credit, L!Op, Conserves
<1>7. CASE jobs[c].offer.call = "hold"
  <2>1. Statement(c) = L!Lock(Item(c)[1], Item(c)[2])
    BY <1>7 DEF Statement
  <2> QED BY <1>2, <1>4, <2>1 DEF L!Ops, L!Lock, L!Op, Conserves
<1>8. CASE jobs[c].offer.call \in {"flush", "reclaim"}
  <2>1. Statement(c) = L!Move(Item(c)[1], Omnibus, Item(c)[2])
    BY <1>8 DEF Statement
  <2>2. <<Item(c)[1], Omnibus>> \in L!Pairs
    BY <1>2, <1>4, <1>8 DEF Imported, L!Pairs
  <2> QED BY <1>2, <1>4, <2>1, <2>2 DEF L!Ops, L!Move, L!Op, Conserves
<1> QED BY <1>3, <1>5, <1>6, <1>7, <1>8

\* A step that changes where one method is, and no more of it.
LEMMA GoesTypes ==
  ASSUME Typed, NEW c \in Calls, jobs[c].pc # "none", NEW p \in Steps \ {"none"}, Goes(c, p)
  PROVE  /\ jobs' \in [Calls -> JobType \cup {NoJob}]
         /\ jobs'[c] = [jobs[c] EXCEPT !.pc = p]
         /\ jobs'[c].pc = p /\ jobs'[c] # NoJob
         /\ jobs'[c].offer = jobs[c].offer /\ jobs'[c].todo = jobs[c].todo
         /\ jobs'[c].next = jobs[c].next /\ jobs'[c].read = jobs[c].read
         /\ jobs'[c].sum = jobs[c].sum
         /\ \A d \in Calls \ {c} : jobs'[d] = jobs[d]
<1>1. jobs[c] \in JobType /\ jobs \in [Calls -> JobType \cup {NoJob}]
  BY JobTypes DEF Typed
<1>2. /\ jobs'[c] = [jobs[c] EXCEPT !.pc = p] /\ \A d \in Calls \ {c} : jobs'[d] = jobs[d]
      /\ jobs' = [jobs EXCEPT ![c] = [jobs[c] EXCEPT !.pc = p]]
  BY <1>1 DEF Goes
<1>3. [jobs[c] EXCEPT !.pc = p] \in JobType
  BY <1>1 DEF JobType
<1>4. jobs'[c].pc = p /\ jobs'[c].offer = jobs[c].offer /\ jobs'[c].todo = jobs[c].todo
      /\ jobs'[c].next = jobs[c].next /\ jobs'[c].read = jobs[c].read
      /\ jobs'[c].sum = jobs[c].sum
  BY <1>1, <1>2 DEF JobType
<1>5. jobs'[c] # NoJob
  <2>1. p # "none" /\ NoJob.pc = "none"
    BY DEF NoJob
  <2> QED BY <1>4, <2>1
<1>6. jobs' \in [Calls -> JobType \cup {NoJob}]
  BY <1>1, <1>2, <1>3
<1> QED BY <1>2, <1>4, <1>5, <1>6

\* A step of a method that has no statement in flight and sends none.
LEMMA Advances ==
  ASSUME JobsPlaced, StmtsPlaced, NEW c \in Calls, ~Running(c),
         \A d \in Calls \ {c} : jobs'[d] = jobs[d], UNCHANGED <<journal, stmts>>,
         opened \subseteq opened', jobs'[c] # NoJob, jobs'[c].pc # "sent",
         Placed(jobs[c])', Progress(c)'
  PROVE  JobsPlaced' /\ StmtsPlaced'
<1>1. \A d \in Calls : Made(d)' = Made(d) /\ (Running(d)' <=> Running(d))
  BY DEF Made, Running
<1>2. JobsPlaced'
  <2> SUFFICES ASSUME NEW d \in Calls, d # c
               PROVE  (IF jobs[d] = NoJob THEN Made(d) = {} ELSE Placed(jobs[d]) /\ Progress(d))'
    BY DEF JobsPlaced
  <2>1. jobs'[d] = jobs[d]
    OBVIOUS
  <2>2. IF jobs[d] = NoJob THEN Made(d) = {} ELSE Placed(jobs[d]) /\ Progress(d)
    BY DEF JobsPlaced
  <2>3. Placed(jobs[d]) => Placed(jobs[d])'
    BY <2>1 DEF Placed, Begun, Imported
  <2>4. Progress(d) => Progress(d)'
    BY <1>1, <2>1 DEF Progress
  <2> QED BY <1>1, <2>1, <2>2, <2>3, <2>4 DEF NoJob
<1>3. StmtsPlaced'
  BY <1>1 DEF StmtsPlaced
<1> QED BY <1>2, <1>3

LEMMA NotRunning ==
  ASSUME StmtsPlaced, NEW c \in Calls, jobs[c].pc \notin {"sent", "dead"}
  PROVE  ~Running(c)
BY DEF StmtsPlaced


\* A request arrives.
LEMMA ServeIInv ==
  ASSUME IInv, NEW c \in Calls, NEW o \in Offers, Serve(c, o)
  PROVE  IInv'
<1> USE DEF IInv
<1>1. /\ jobs[c] = NoJob /\ jobs[c].pc = "none"
      /\ jobs' = [jobs EXCEPT ![c] = First(o)]
      /\ UNCHANGED <<ledgerVars, onChain, imports, owed, astray, crashes>>
  BY DEF Serve, NoJob
<1>2. /\ o.account \in Accounts /\ o.amount \in Nat
      /\ o.call \in {"sync", "flush", "distribute", "reclaim", "issue", "hold"}
  <2>1. \A n \in 1..MaxFunds : n \in Nat
    BY DistributionAssumption
  <2> QED BY <2>1, DistributionAssumption
<1>3. Single(o) \in Seq(Accounts \X Nat) /\ Len(Single(o)) = 1
      /\ <<>> \in Seq(Accounts \X Nat) /\ Len(<<>>) = 0
  BY <1>2 DEF Single
<1>4. PICK pc \in {"read", "list", "ensure", "send"}, todo \in {<<>>, Single(o)} :
         /\ First(o) = Job(o, pc, todo)
         /\ pc \in {"read", "list"} <=> todo = <<>>
         /\ pc \in {"list", "ensure", "send"} => o.call # "sync"
         /\ pc = "list" => o.call = "flush"
  <2>1. Single(o) # <<>>
    BY <1>3
  <2> QED BY <1>2, <2>1 DEF First
<1>5. First(o) \in JobType /\ First(o).pc = pc /\ First(o).todo = todo /\ First(o).next = 1
      /\ First(o).offer = o /\ First(o) # NoJob
  <2>1. todo \in Seq(Accounts \X Nat)
    BY <1>3
  <2>2. 0 \in 0..MaxChain
    BY DistributionAssumption
  <2>3. pc \in Steps \ {"none"}
    BY DEF Steps, Over
  <2>4. Job(o, pc, todo) \in JobType
    BY <2>1, <2>2, <2>3 DEF Job, JobType
  <2> QED BY <1>4, <2>4 DEF Job, NoJob
<1>6. jobs'[c] = First(o) /\ jobs' \in [Calls -> JobType \cup {NoJob}]
      /\ \A d \in Calls \ {c} : jobs'[d] = jobs[d]
  BY <1>1, <1>5 DEF Typed
<1>7. Ledger'
  BY <1>1 DEF ledgerVars, Ledger, L!TypeOK, L!StmtsHonest, L!AnswersAreJournaled
<1>8. Typed'
  BY <1>1, <1>6 DEF Typed
<1>9. ~Running(c)
  BY <1>1, NotRunning
<1>10. Placed(jobs[c])'
  <2>1. 1 <= Cardinality(Accounts) /\ Cardinality(Accounts) \in Nat
    BY FiniteAccounts DEF Moves
  <2>2. Len(todo) \in 0..Cardinality(Accounts)
    <3>1. CASE todo = <<>>
      <4>1. Len(todo) = 0
        BY <3>1
      <4> QED BY <2>1, <4>1
    <3>2. CASE todo = Single(o)
      <4>1. Len(todo) = 1
        BY <1>3, <3>2
      <4> QED BY <2>1, <4>1
    <3> QED BY <3>1, <3>2
  <2>3. pc \in {"ensure", "send"} => todo = Single(o)
    BY <1>4
  <2>4. pc \in {"ensure", "send"} => Len(todo) = 1
    <3>1. todo = Single(o) => Len(todo) = 1
      BY <1>3
    <3> QED BY <2>3, <3>1
  <2>5. pc \notin {"sum", "set", "sent", "import"}
    OBVIOUS
  <2>6. jobs'[c].pc = pc /\ jobs'[c].todo = todo /\ jobs'[c].next = 1 /\ jobs'[c].offer = o
    BY <1>5, <1>6
  <2>7. Begun(jobs'[c]) => 1 <= Len(todo) /\ o.call # "sync" /\ Len(todo) = 1
    BY <1>4, <2>4, <2>5, <2>6 DEF Begun
  <2>8. /\ pc \in {"read", "list"} => todo = <<>>
        /\ pc = "list" => o.call = "flush"
    BY <1>4
  <2>9. pc # "ensure omnibus"
    OBVIOUS
  <2> QED BY <2>2, <2>5, <2>6, <2>7, <2>8, <2>9 DEF Placed
<1>11. Progress(c)'
  <2>1. Made(c) = {} /\ Made(c)' = Made(c)
    BY <1>1 DEF JobsPlaced, Made, ledgerVars
  <2>2. 1..(1 - 1) = {}
    OBVIOUS
  <2> QED BY <1>4, <1>5, <1>6, <2>1, <2>2 DEF Progress
<1>12. JobsPlaced' /\ StmtsPlaced'
  <2>1. jobs'[c] # NoJob /\ jobs'[c].pc # "sent"
    BY <1>4, <1>5, <1>6
  <2> QED BY <1>1, <1>6, <1>9, <1>10, <1>11, <2>1, Advances DEF ledgerVars
<1> QED BY <1>7, <1>8, <1>12

\* The steps that change nothing but where the method is: an account that is not one to
\* move to, a sync that finds too little.
LEMMA GoesIInv ==
  ASSUME IInv, NEW c \in Calls, jobs[c].pc \in {"send", "set"}, Goes(c, "conflict"),
         UNCHANGED <<ledgerVars, onChain, imports, owed, astray, crashes>>
  PROVE  IInv'
<1> USE DEF IInv
<1>1. "conflict" \in Steps \ {"none"} /\ jobs[c].pc # "none"
  BY DEF Steps, Over
<1>2. /\ jobs' \in [Calls -> JobType \cup {NoJob}]
      /\ jobs'[c].pc = "conflict" /\ jobs'[c] # NoJob
      /\ jobs'[c].offer = jobs[c].offer /\ jobs'[c].todo = jobs[c].todo
      /\ jobs'[c].next = jobs[c].next
      /\ \A d \in Calls \ {c} : jobs'[d] = jobs[d]
  BY <1>1, GoesTypes
<1>3. Ledger'
  BY DEF ledgerVars, Ledger, L!TypeOK, L!StmtsHonest, L!AnswersAreJournaled
<1>4. Typed'
  BY <1>2 DEF Typed
<1>5. ~Running(c)
  BY NotRunning
<1>6. Placed(jobs[c])' /\ Progress(c)'
  <2>1. Placed(jobs[c]) /\ Progress(c)
    BY <1>1, JobIsPlaced
  <2>2. Made(c)' = Made(c)
    BY DEF Made, ledgerVars
  <2> QED BY <1>2, <2>1, <2>2 DEF Placed, Begun, Progress, Imported
<1>7. JobsPlaced' /\ StmtsPlaced'
  BY <1>2, <1>5, <1>6, Advances DEF ledgerVars
<1> QED BY <1>3, <1>4, <1>7

LEMMA EnsureIInv ==
  ASSUME IInv, NEW c \in Calls, Ensure(c)
  PROVE  IInv'
<1> USE DEF IInv
<1>1. jobs[c].pc \in {"ensure", "ensure omnibus"} /\ jobs[c].pc # "none"
      /\ UNCHANGED <<onChain, imports, owed, astray, crashes>>
  BY DEF Ensure
<1>2. PICK a \in Accounts, p \in {"send", "sum"} :
         /\ L!EnsureAccount(a) /\ Goes(c, p)
         /\ jobs[c].pc = "ensure" => p = "send"
         /\ jobs[c].pc = "ensure omnibus" => p = "sum" /\ a = Omnibus
  <2>1. CASE jobs[c].pc = "ensure"
    <3>1. Item(c)[1] \in Accounts
      BY <2>1, ItemTypes DEF Begun
    <3> QED BY <2>1, <3>1 DEF Ensure
  <2>2. CASE jobs[c].pc = "ensure omnibus"
    BY <2>2 DEF Ensure, Accounts
  <2> QED BY <1>1, <2>1, <2>2
<1>3. p \in Steps \ {"none"}
  BY DEF Steps
<1>4. /\ jobs' \in [Calls -> JobType \cup {NoJob}]
      /\ jobs'[c].pc = p /\ jobs'[c] # NoJob
      /\ jobs'[c].offer = jobs[c].offer /\ jobs'[c].todo = jobs[c].todo
      /\ jobs'[c].next = jobs[c].next
      /\ \A d \in Calls \ {c} : jobs'[d] = jobs[d]
  BY <1>1, <1>2, <1>3, GoesTypes
<1>5. Ledger'
  BY <1>2, EnsureLedger
<1>6. Typed'
  BY <1>1, <1>4 DEF Typed
<1>7. ~Running(c)
  BY <1>1, NotRunning
<1>8. opened' = opened \cup {a} /\ UNCHANGED <<journal, stmts>>
  BY <1>2 DEF L!EnsureAccount
<1>9. Placed(jobs[c])' /\ Progress(c)'
  <2>1. Placed(jobs[c]) /\ Progress(c)
    BY <1>1, JobIsPlaced
  <2>2. Made(c)' = Made(c)
    BY <1>8 DEF Made
  <2> QED BY <1>1, <1>2, <1>4, <1>8, <2>1, <2>2 DEF Placed, Begun, Progress, Imported
<1>10. JobsPlaced' /\ StmtsPlaced'
  BY <1>4, <1>7, <1>8, <1>9, Advances
<1> QED BY <1>5, <1>6, <1>10

\* A flush moves each account at most once.
LEMMA ListIInv ==
  ASSUME IInv, NEW c \in Calls, ListAccounts(c)
  PROVE  IInv'
<1> USE DEF IInv
<1>1. jobs[c].pc = "list" /\ jobs[c].pc # "none"
      /\ UNCHANGED <<ledgerVars, onChain, imports, owed, astray, crashes>>
  BY DEF ListAccounts
<1> DEFINE S == {a \in ToSet(Investors) : balance[a] > 0}
           todo(found) == [i \in DOMAIN found |-> <<found[i], balance[found[i]]>>]
           pc(found) == IF found = <<>> THEN "ok" ELSE "send"
<1>2. PICK found \in SetToSeqs(S) :
         jobs' = [jobs EXCEPT ![c].todo = todo(found), ![c].pc = pc(found)]
  BY DEF ListAccounts
<1>3. S \subseteq Accounts /\ IsFiniteSet(S) /\ Cardinality(S) <= Cardinality(Accounts)
      /\ Cardinality(S) \in Nat /\ Cardinality(Accounts) \in Nat
  <2>1. S \subseteq Accounts
    BY DEF Accounts
  <2> QED BY <2>1, FiniteAccounts, FS_Subset, FS_CardinalityType
<1>4. found \in [1..Cardinality(S) -> S]
  BY DEF SetToSeqs
<1> HIDE DEF S
<1>5. found \in Seq(S) /\ Len(found) = Cardinality(S)
  BY <1>3, <1>4
<1>6. todo(found) \in Seq(Accounts \X Nat) /\ Len(todo(found)) = Len(found)
  <2>1. DOMAIN todo(found) = 1..Len(found) /\ Len(found) \in Nat
    BY <1>5
  <2>2. \A i \in 1..Len(found) : todo(found)[i] \in Accounts \X Nat
    <3>1. \A i \in 1..Len(found) : found[i] \in Accounts
      BY <1>3, <1>5
    <3>2. balance \in [Accounts -> Nat]
      BY LedgerTypes
    <3> QED BY <2>1, <3>1, <3>2
  <2>3. todo(found) \in [1..Len(found) -> Accounts \X Nat]
    BY <2>1, <2>2
  <2> HIDE DEF todo
  <2> QED BY <2>1, <2>3
<1>7. pc(found) \in {"ok", "send"} /\ (pc(found) = "ok" <=> Len(found) = 0)
  BY <1>5
<1> HIDE DEF todo, pc
<1>8. jobs[c] \in JobType /\ jobs \in [Calls -> JobType \cup {NoJob}]
  BY <1>1, JobTypes DEF Typed
<1> DEFINE j == [jobs[c] EXCEPT !.todo = todo(found), !.pc = pc(found)]
<1>9. /\ j \in JobType /\ j.todo = todo(found) /\ j.pc = pc(found) /\ j.next = jobs[c].next
      /\ j.offer = jobs[c].offer
  <2>1. pc(found) \in Steps \ {"none"}
    BY <1>7 DEF Steps, Over
  <2> QED BY <1>6, <1>8, <2>1 DEF JobType
<1>10. jobs'[c] = j /\ \A d \in Calls \ {c} : jobs'[d] = jobs[d]
  BY <1>2, <1>8
<1>11. jobs' \in [Calls -> JobType \cup {NoJob}]
  <2>1. jobs' = [jobs EXCEPT ![c] = j]
    BY <1>2, <1>8
  <2> QED BY <1>8, <1>9, <2>1
<1>12. j # NoJob
  BY <1>7, <1>9 DEF NoJob
<1> HIDE DEF j
<1>13. Ledger'
  BY <1>1 DEF ledgerVars, Ledger, L!TypeOK, L!StmtsHonest, L!AnswersAreJournaled
<1>14. Typed'
  BY <1>1, <1>11 DEF Typed
<1>15. ~Running(c)
  BY <1>1, NotRunning
<1>16. Placed(jobs[c]) /\ Progress(c)
  BY <1>1, JobIsPlaced
<1>17. jobs[c].next = 1 /\ Made(c) = 1..0 /\ Made(c)' = Made(c)
  BY <1>1, <1>16 DEF Placed, Progress, Made, ledgerVars
<1>18. Progress(c)'
  BY <1>6, <1>7, <1>9, <1>10, <1>17 DEF Progress
<1>19. jobs[c].offer.call = "flush"
  BY <1>1, <1>16 DEF Placed
<1>20. Placed(jobs[c])'
  <2>1. /\ jobs'[c].pc = pc(found) /\ jobs'[c].todo = todo(found) /\ jobs'[c].next = 1
        /\ jobs'[c].offer.call = "flush"
    BY <1>9, <1>10, <1>17, <1>19
  <2>2. Len(todo(found)) \in 0..Cardinality(Accounts)
    BY <1>3, <1>5, <1>6
  <2>3. pc(found) = "send" => 1 <= Len(todo(found))
    BY <1>6, <1>7, <2>2, FiniteAccounts
  <2> QED BY <1>7, <2>1, <2>2, <2>3 DEF Placed, Begun, Imported
<1>21. JobsPlaced' /\ StmtsPlaced'
  BY <1>1, <1>7, <1>9, <1>10, <1>12, <1>15, <1>18, <1>20, Advances DEF ledgerVars
<1> QED BY <1>13, <1>14, <1>21


\* The next account of a flush, or the end.
LEMMA ImportIInv ==
  ASSUME IInv, NEW c \in Calls, Import(c)
  PROVE  IInv'
<1> USE DEF IInv
<1>1. /\ jobs[c].pc = "import" /\ jobs[c].pc # "none" /\ Begun(jobs[c])
      /\ imports' \in {imports, imports \cup {<<c, jobs[c].next>>}}
      /\ jobs' = [jobs EXCEPT ![c] = Onward(jobs[c])]
      /\ UNCHANGED <<ledgerVars, onChain, owed, astray, crashes>>
  <2>1. jobs \in [Calls -> JobType \cup {NoJob}]
    BY DEF Typed
  <2> QED BY <2>1 DEF Import, Begun
<1>2. jobs[c] \in JobType /\ jobs \in [Calls -> JobType \cup {NoJob}]
  BY <1>1, JobTypes DEF Typed
<1>3. /\ jobs[c].next \in Nat \ {0} /\ Len(jobs[c].todo) \in Nat
      /\ jobs[c].next <= Len(jobs[c].todo)
      /\ Placed(jobs[c]) /\ Made(c) = 1..jobs[c].next
  <2>1. Placed(jobs[c]) /\ Progress(c)
    BY <1>1, JobIsPlaced
  <2> QED BY <1>1, <1>2, <2>1 DEF JobType, Placed, Progress
<1> DEFINE j == Onward(jobs[c])
<1>4. /\ j \in JobType /\ j.todo = jobs[c].todo /\ j.offer = jobs[c].offer
      /\ \/ /\ jobs[c].next < Len(jobs[c].todo)
            /\ j.pc = "send" /\ j.next = jobs[c].next + 1
         \/ /\ jobs[c].next = Len(jobs[c].todo)
            /\ j.pc = "ok" /\ j.next = jobs[c].next
  <2>1. {"send", "ok"} \subseteq Steps \ {"none"} /\ jobs[c].next + 1 \in Nat \ {0}
    BY <1>3 DEF Steps, Over
  <2>2. CASE jobs[c].next < Len(jobs[c].todo)
    <3>1. j = [jobs[c] EXCEPT !.next = jobs[c].next + 1, !.pc = "send"]
      BY <1>2, <2>2 DEF Onward, JobType
    <3> HIDE DEF j
    <3> QED BY <1>2, <2>1, <2>2, <3>1 DEF JobType
  <2>3. CASE ~(jobs[c].next < Len(jobs[c].todo))
    <3>1. j = [jobs[c] EXCEPT !.pc = "ok"] /\ jobs[c].next = Len(jobs[c].todo)
      BY <1>3, <2>3 DEF Onward, Ended
    <3> HIDE DEF j
    <3> QED BY <1>2, <2>1, <2>3, <3>1 DEF JobType
  <2> QED BY <2>2, <2>3
<1>5. j # NoJob
  BY <1>4 DEF NoJob
<1> HIDE DEF j
<1>6. jobs'[c] = j /\ jobs' \in [Calls -> JobType \cup {NoJob}]
      /\ \A d \in Calls \ {c} : jobs'[d] = jobs[d]
  BY <1>1, <1>2, <1>4 DEF j
<1>7. Ledger'
  BY <1>1 DEF ledgerVars, Ledger, L!TypeOK, L!StmtsHonest, L!AnswersAreJournaled
<1>8. Typed'
  <2>1. <<c, jobs[c].next>> \in Keys
    BY <1>1, ItemTypes
  <2>2. imports' \subseteq Keys
    BY <1>1, <2>1 DEF Typed
  <2> QED BY <1>1, <1>6, <2>2 DEF Typed
<1>9. ~Running(c)
  BY <1>1, NotRunning
<1>10. Placed(jobs[c])'
  <2>1. jobs'[c].todo = jobs[c].todo /\ jobs'[c].offer = jobs[c].offer
        /\ jobs'[c].pc \in {"send", "ok"}
    BY <1>4, <1>6
  <2>2. jobs'[c].pc = "send" => jobs'[c].next <= Len(jobs[c].todo)
    BY <1>3, <1>4, <1>6
  <2>3. Len(jobs[c].todo) \in 0..Cardinality(Accounts) /\ jobs[c].offer.call # "sync"
        /\ (Imported(jobs[c]) \/ Len(jobs[c].todo) = 1)
    BY <1>1, <1>3 DEF Placed
  <2> QED BY <2>1, <2>2, <2>3 DEF Placed, Begun, Imported
<1>11. Progress(c)'
  <2>1. Made(c)' = 1..jobs[c].next
    BY <1>1, <1>3 DEF Made, ledgerVars
  <2>2. (jobs[c].next + 1) - 1 = jobs[c].next
    BY <1>3
  <2> QED BY <1>4, <1>6, <2>1, <2>2 DEF Progress
<1>12. JobsPlaced' /\ StmtsPlaced'
  BY <1>1, <1>4, <1>5, <1>6, <1>9, <1>10, <1>11, Advances DEF ledgerVars
<1> QED BY <1>7, <1>8, <1>12

\* A sync reads the balance on the chain, and the sum of what the investors have.
LEMMA ReadIInv ==
  ASSUME IInv, NEW c \in Calls, ReadChain(c) \/ SumDistributed(c)
  PROVE  IInv'
<1> USE DEF IInv
<1>1. /\ jobs[c].pc \in {"read", "sum"} /\ jobs[c].pc # "none"
      /\ UNCHANGED <<ledgerVars, onChain, imports, owed, astray, crashes>>
  BY DEF ReadChain, SumDistributed
<1>2. jobs[c] \in JobType /\ jobs \in [Calls -> JobType \cup {NoJob}]
  BY <1>1, JobTypes DEF Typed
<1>3. PICK p, r, s : /\ jobs' = [jobs EXCEPT ![c] = [jobs[c] EXCEPT !.pc = p, !.read = r, !.sum = s]]
                     /\ r \in 0..MaxChain /\ s \in Nat
                     /\ \/ jobs[c].pc = "read" /\ p = "ensure omnibus"
                        \/ jobs[c].pc = "sum" /\ p = "set"
  <2>1. CASE ReadChain(c)
    <3>1. jobs' = [jobs EXCEPT ![c] = [jobs[c] EXCEPT !.pc = "ensure omnibus", !.read = onChain,
                                                      !.sum = jobs[c].sum]]
      BY <1>2, <2>1 DEF ReadChain, JobType
    <3>2. onChain \in 0..MaxChain /\ jobs[c].sum \in Nat /\ jobs[c].pc = "read"
      BY <1>2, <2>1 DEF Typed, JobType, ReadChain
    <3> QED BY <3>1, <3>2
  <2>2. CASE SumDistributed(c)
    <3>1. jobs' = [jobs EXCEPT ![c] = [jobs[c] EXCEPT !.pc = "set", !.read = jobs[c].read,
                                                      !.sum = InvestorSum]]
      BY <1>2, <2>2 DEF SumDistributed, JobType
    <3>2. InvestorSum \in Nat /\ jobs[c].read \in 0..MaxChain /\ jobs[c].pc = "sum"
      BY <1>2, <2>2, SumTypes DEF JobType, SumDistributed
    <3> QED BY <3>1, <3>2
  <2> QED BY <2>1, <2>2
<1> DEFINE j == [jobs[c] EXCEPT !.pc = p, !.read = r, !.sum = s]
<1>4. j \in JobType /\ j.todo = jobs[c].todo /\ j.next = jobs[c].next /\ j.pc = p
  <2>1. p \in Steps \ {"none"}
    BY <1>3 DEF Steps
  <2> QED BY <1>2, <1>3, <2>1 DEF JobType
<1>5. j # NoJob
  BY <1>3, <1>4 DEF NoJob
<1>6. jobs' = [jobs EXCEPT ![c] = j]
  BY <1>3
<1> HIDE DEF j
<1>7. jobs'[c] = j /\ jobs' \in [Calls -> JobType \cup {NoJob}]
      /\ \A d \in Calls \ {c} : jobs'[d] = jobs[d]
  BY <1>2, <1>4, <1>6
<1>8. Ledger'
  BY <1>1 DEF ledgerVars, Ledger, L!TypeOK, L!StmtsHonest, L!AnswersAreJournaled
<1>9. Typed'
  BY <1>1, <1>7 DEF Typed
<1>10. ~Running(c)
  BY <1>1, NotRunning
<1>11. Placed(jobs[c])' /\ Progress(c)'
  <2>1. Placed(jobs[c]) /\ Progress(c)
    BY <1>1, JobIsPlaced
  <2>2. Made(c)' = Made(c) /\ opened' = opened
    BY <1>1 DEF Made, ledgerVars
  <2>3. p \in {"ensure omnibus", "set"}
    BY <1>3
  <2>4. Placed(jobs[c])'
    BY <1>1, <1>3, <1>4, <1>7, <2>1, <2>2, <2>3 DEF Placed, Begun
  <2>5. Progress(c)'
    BY <1>1, <1>4, <1>7, <2>1, <2>2, <2>3 DEF Progress
  <2> QED BY <2>4, <2>5
<1>12. JobsPlaced' /\ StmtsPlaced'
  BY <1>1, <1>3, <1>4, <1>5, <1>7, <1>10, <1>11, Advances DEF ledgerVars
<1> QED BY <1>8, <1>9, <1>12

\* The delegate throws, or the omnibus account is given what the investors do not have.
LEMMA SyncEndsIInv ==
  ASSUME IInv, NEW c \in Calls, ReadFails(c) \/ SetOmnibus(c)
  PROVE  IInv'
<1> USE DEF IInv
<1>1. /\ jobs[c].pc \in {"read", "set"} /\ jobs[c].pc # "none"
      /\ UNCHANGED <<opened, held, journal, stmts, answers, refused, onChain, imports, crashes>>
  BY DEF ReadFails, SetOmnibus
<1>2. PICK p \in {"error", "ok"} :
         /\ Goes(c, p)
         /\ jobs[c].pc = "set" => p = "ok"
         /\ jobs[c].pc = "read" => p = "error"
  BY DEF ReadFails, SetOmnibus
<1>3. p \in Steps \ {"none"}
  BY DEF Steps, Over
<1>4. /\ jobs' \in [Calls -> JobType \cup {NoJob}]
      /\ jobs'[c].pc = p /\ jobs'[c] # NoJob
      /\ jobs'[c].offer = jobs[c].offer /\ jobs'[c].todo = jobs[c].todo
      /\ jobs'[c].next = jobs[c].next
      /\ \A d \in Calls \ {c} : jobs'[d] = jobs[d]
  BY <1>1, <1>2, <1>3, GoesTypes
<1>5. Placed(jobs[c]) /\ Progress(c)
  BY <1>1, JobIsPlaced
<1>6. Ledger' /\ Typed'
  <2>1. CASE ReadFails(c)
    <3>1. faults' \in 0..MaxFaults
      <4>1. faults \in 0..MaxFaults /\ faults < MaxFaults /\ faults' = faults + 1
        BY <2>1, LedgerTypes DEF ReadFails
      <4> QED BY <4>1, DistributionAssumption
    <3>2. balance' = balance /\ UNCHANGED <<owed, astray>>
      BY <2>1 DEF ReadFails
    <3>3. Ledger'
      BY <1>1, <3>1, <3>2, LedgerTypes, LedgerKept
    <3> QED BY <1>1, <1>4, <3>2, <3>3 DEF Typed
  <2>2. CASE SetOmnibus(c)
    <3>1. /\ jobs[c].read - jobs[c].sum >= held[Omnibus]
          /\ balance' = [balance EXCEPT ![Omnibus] = jobs[c].read - jobs[c].sum]
          /\ owed' = jobs[c].read /\ astray' = [a \in Accounts |-> 0] /\ faults' = faults
      BY <2>2 DEF SetOmnibus
    <3>2. jobs[c].read \in 0..MaxChain /\ jobs[c].sum \in Nat /\ MaxChain \in Nat
      BY <1>1, JobTypes, DistributionAssumption DEF JobType
    <3>3. Omnibus \in opened /\ Omnibus \in Accounts
      BY <1>5, <2>2 DEF SetOmnibus, Placed, Accounts
    <3>4. /\ balance \in [Accounts -> Nat] /\ held \in [Accounts -> Nat] /\ faults \in 0..MaxFaults
          /\ \A a \in Accounts : held[a] <= balance[a]
          /\ \A a \in Accounts \ opened : balance[a] = 0
      BY LedgerTypes
    <3>5. jobs[c].read - jobs[c].sum \in Nat
      <4>1. held[Omnibus] \in Nat
        BY <3>3, <3>4
      <4> QED BY <3>1, <3>2, <4>1
    <3>6. /\ balance' \in [Accounts -> Nat] /\ \A a \in Accounts : held[a] <= balance'[a]
          /\ \A a \in Accounts \ opened : balance'[a] = 0
      BY <3>1, <3>3, <3>4, <3>5
    <3>7. Ledger'
      BY <1>1, <3>1, <3>4, <3>6, LedgerKept
    <3>8. owed' \in Nat /\ astray' \in [Accounts -> Int]
      BY <3>1, <3>2
    <3> QED BY <1>1, <1>4, <3>7, <3>8 DEF Typed
  <2> QED BY <2>1, <2>2
<1>7. ~Running(c)
  BY <1>1, NotRunning
<1>8. Placed(jobs[c])' /\ Progress(c)'
  <2>1. Made(c)' = Made(c) /\ opened' = opened
    BY <1>1 DEF Made
  <2>2. jobs[c].next = 1 /\ Len(jobs[c].todo) = 0 /\ Made(c) = 1..0
    <3>1. jobs[c].next = 1 /\ jobs[c].todo = <<>>
      BY <1>1, <1>5 DEF Placed
    <3>2. Len(jobs[c].todo) = 0
      BY <3>1
    <3>3. Made(c) = 1..(jobs[c].next - 1)
      BY <1>1, <1>5 DEF Progress
    <3> QED BY <3>1, <3>2, <3>3
  <2>3. Placed(jobs[c])'
    BY <1>1, <1>2, <1>4, <1>5, <2>1 DEF Placed, Begun
  <2>4. Progress(c)'
    BY <1>1, <1>2, <1>4, <2>1, <2>2 DEF Progress
  <2> QED BY <2>3, <2>4
<1>9. JobsPlaced' /\ StmtsPlaced'
  BY <1>1, <1>2, <1>4, <1>7, <1>8, Advances
<1> QED BY <1>6, <1>9


-----------------------------------------------------------------------------
(* The statements *)

\* A statement is sent: the move under way, which has not been made.
LEMMA SendIInv ==
  ASSUME IInv, NEW c \in Calls, Send(c)
  PROVE  IInv'
<1> USE DEF IInv
<1> DEFINE r == [key |-> <<c, jobs[c].next>>, op |-> Statement(c)]
<1>1. /\ jobs[c].pc = "send" /\ jobs[c].pc # "none" /\ Begun(jobs[c])
      /\ Imported(jobs[c]) => Item(c)[1] # Omnibus
      /\ L!Begin(c, r) /\ Goes(c, "sent")
      /\ UNCHANGED <<onChain, imports, owed, astray, crashes>>
  BY DEF Send, Begun
<1>2. Statement(c) \in L!Ops /\ Conserves(Statement(c))
  BY <1>1, StatementOps
<1>3. jobs[c].next \in Moves /\ <<c, jobs[c].next>> \in Keys
  BY <1>1, ItemTypes
<1>4. r \in [key : Keys, op : L!Ops] /\ r.key = <<c, jobs[c].next>> /\ r.op = Statement(c)
  BY <1>2, <1>3
<1> HIDE DEF r
<1>5. Ledger'
  BY <1>1, <1>4, BeginLedger
<1>6. "sent" \in Steps \ {"none"}
  BY DEF Steps, Over
<1>7. /\ jobs' \in [Calls -> JobType \cup {NoJob}]
      /\ jobs'[c].pc = "sent" /\ jobs'[c] # NoJob
      /\ jobs'[c].offer = jobs[c].offer /\ jobs'[c].todo = jobs[c].todo
      /\ jobs'[c].next = jobs[c].next
      /\ \A d \in Calls \ {c} : jobs'[d] = jobs[d]
  BY <1>1, <1>6, GoesTypes
<1>8. Typed'
  BY <1>1, <1>7 DEF Typed
<1>9. Placed(jobs[c]) /\ Made(c) = 1..(jobs[c].next - 1)
  BY <1>1, JobIsPlaced DEF Progress
<1>10. /\ opened' = opened /\ journal' = journal
       /\ Running(c)' /\ stmts'[c].key = <<c, jobs[c].next>> /\ stmts'[c].op = Statement(c)
       /\ \A d \in Calls \ {c} : stmts'[d] = stmts[d]
  <2>1. DOMAIN stmts = Calls
    BY LedgerTypes
  <2> QED BY <1>1, <1>4, <2>1 DEF L!Begin, L!tables, Running
<1>11. \A d \in Calls : Made(d)' = Made(d)
  BY <1>10 DEF Made
<1>12. JobsPlaced'
  <2>1. Placed(jobs[c])' /\ Progress(c)'
    BY <1>1, <1>7, <1>9, <1>10, <1>11 DEF Placed, Begun, Imported, Progress
  <2> SUFFICES ASSUME NEW d \in Calls, d # c
               PROVE  (IF jobs[d] = NoJob THEN Made(d) = {} ELSE Placed(jobs[d]) /\ Progress(d))'
    BY <1>7, <2>1 DEF JobsPlaced
  <2>2. jobs'[d] = jobs[d]
    BY <1>7
  <2>3. IF jobs[d] = NoJob THEN Made(d) = {} ELSE Placed(jobs[d]) /\ Progress(d)
    BY DEF JobsPlaced
  <2>4. (Placed(jobs[d]) => Placed(jobs[d])') /\ (Progress(d) => Progress(d)')
    BY <1>10, <1>11, <2>2 DEF Placed, Begun, Imported, Progress
  <2> QED BY <1>11, <2>2, <2>3, <2>4 DEF NoJob
<1>13. StmtsPlaced'
  <2>1. Conserves(stmts[c].op)' /\ Made(c)' = 1..(jobs'[c].next - 1)
    BY <1>2, <1>7, <1>9, <1>10, <1>11 DEF Conserves
  <2>2. \A d \in Calls \ {c} : Running(d)' => Running(d)
    BY <1>10 DEF Running
  <2> QED BY <1>3, <1>7, <1>10, <1>11, <2>1, <2>2 DEF StmtsPlaced, Conserves, Running
<1> QED BY <1>5, <1>8, <1>12, <1>13

\* A statement ends, with its transaction or without one.
LEMMA Ending ==
  ASSUME IInv, NEW c \in Calls, L!Step(c)
  PROVE  /\ Running(c) /\ ~Running(c)' /\ opened' = opened
         /\ \A d \in Calls \ {c} : stmts'[d] = stmts[d]
         /\ \A d \in Calls \ {c} : Made(d)' = Made(d)
         /\ L!Transacts(c) => Made(c)' = 1..jobs[c].next
         /\ Made(c)' = 1..jobs[c].next \/ Made(c)' = 1..(jobs[c].next - 1)
         /\ journal' = journal => Made(c)' = 1..(jobs[c].next - 1)
<1> USE DEF IInv
<1>1. /\ Running(c) /\ stmts' = [stmts EXCEPT ![c] = L!NoStmt] /\ opened' = opened
      /\ \/ L!Transacts(c)
         \/ journal' = journal
  BY DEF L!Step, L!ReturnFound, L!Commit, L!CommitUnheard, L!Transacts, L!CommitPart, L!Short,
         L!KeyTaken, L!Aborts, L!Ends, L!tables, Running
<1>2. ~Running(c)' /\ \A d \in Calls \ {c} : stmts'[d] = stmts[d]
  <2>1. DOMAIN stmts = Calls
    BY LedgerTypes
  <2> QED BY <1>1, <2>1 DEF Running, L!NoStmt
<1>3. stmts[c].key = <<c, jobs[c].next>> /\ jobs[c].next \in Moves
      /\ Made(c) = 1..(jobs[c].next - 1)
  BY <1>1 DEF StmtsPlaced
<1>4. CASE L!Transacts(c)
  <2>1. stmts[c].op \in L!Ops /\ stmts[c].op # NoTx /\ DOMAIN journal = Keys
    <3>1. stmts[c].op \in L!Ops
      BY <1>1 DEF Running, Ledger, L!TypeOK, L!Running, L!NoStmt
    <3> QED BY <3>1, OpsTyped, NoTransactionAssumption, LedgerTypes
  <2>2. <<c, jobs[c].next>> \in Keys
    BY <1>3 DEF Keys, Moves
  <2>3. journal' = [journal EXCEPT ![<<c, jobs[c].next>>] = stmts[c].op]
    BY <1>3, <1>4 DEF L!Transacts
  <2>4. \A d \in Calls \ {c} : Made(d)' = Made(d)
    <3> SUFFICES ASSUME NEW d \in Calls \ {c}, NEW i \in Moves
                 PROVE  journal'[<<d, i>>] = journal[<<d, i>>]
      BY DEF Made
    <3>1. <<d, i>> \in Keys /\ <<d, i>> # <<c, jobs[c].next>>
      BY DEF Keys, Moves
    <3> QED BY <2>1, <2>3, <3>1
  <2>5. Made(c)' = Made(c) \cup {jobs[c].next}
    <3>1. \A i \in Moves \ {jobs[c].next} : journal'[<<c, i>>] = journal[<<c, i>>]
      <4> SUFFICES ASSUME NEW i \in Moves \ {jobs[c].next}
                   PROVE  journal'[<<c, i>>] = journal[<<c, i>>]
        OBVIOUS
      <4>1. <<c, i>> \in Keys /\ <<c, i>> # <<c, jobs[c].next>>
        BY DEF Keys, Moves
      <4> QED BY <2>1, <2>3, <4>1
    <3>2. journal'[<<c, jobs[c].next>>] # NoTx
      BY <2>1, <2>2, <2>3
    <3> QED BY <1>3, <3>1, <3>2 DEF Made
  <2>6. Made(c)' = 1..jobs[c].next
    <3>1. jobs[c].next \in Nat \ {0}
      BY <1>3, FiniteAccounts DEF Moves
    <3> QED BY <1>3, <2>5, <3>1
  <2>7. journal' # journal
    <3>1. jobs[c].next \notin 1..(jobs[c].next - 1) /\ jobs[c].next \in Nat
      BY <1>3, FiniteAccounts DEF Moves
    <3>2. journal[<<c, jobs[c].next>>] = NoTx
      BY <1>3, <3>1 DEF Made
    <3> QED BY <2>1, <2>2, <2>3, <3>2
  <2> QED BY <1>1, <1>2, <2>4, <2>6, <2>7
<1>5. CASE journal' = journal
  <2>1. \A d \in Calls : Made(d)' = Made(d)
    BY <1>5 DEF Made
  <2>2. ~L!Transacts(c)
    <3> SUFFICES ASSUME L!Transacts(c) PROVE FALSE
      OBVIOUS
    <3>1. journal'[<<c, jobs[c].next>>] = stmts[c].op
      <4>1. <<c, jobs[c].next>> \in Keys /\ DOMAIN journal = Keys
        BY <1>3, LedgerTypes DEF Keys, Moves
      <4> QED BY <1>3, <4>1 DEF L!Transacts
    <3>2. stmts[c].op # NoTx
      <4>1. stmts[c].op \in L!Ops
        BY <1>1 DEF Running, Ledger, L!TypeOK, L!Running, L!NoStmt
      <4> QED BY <4>1, OpsTyped, NoTransactionAssumption
    <3>3. journal[<<c, jobs[c].next>>] = NoTx
      BY <1>3 DEF L!Transacts
    <3> QED BY <1>5, <3>1, <3>2, <3>3
  <2> QED BY <1>1, <1>2, <1>3, <2>1, <2>2
<1> QED BY <1>1, <1>4, <1>5


\* What the caller is told of it.
LEMMA Told ==
  ASSUME IInv, NEW c \in Calls, Moved(c) \/ Threw(c) \/ Orphaned(c)
  PROVE  /\ L!Step(c) /\ UNCHANGED <<onChain, imports, crashes>>
         /\ \/ Committed(c) \/ PartCommitted \/ Undone
         /\ jobs' \in [Calls -> JobType \cup {NoJob}]
         /\ jobs[c].pc \in {"sent", "dead"} /\ jobs'[c] # NoJob
         /\ jobs'[c].offer = jobs[c].offer /\ jobs'[c].todo = jobs[c].todo
         /\ jobs'[c].next = jobs[c].next
         /\ \A d \in Calls \ {c} : jobs'[d] = jobs[d]
         /\ \/ jobs'[c].pc = "import" /\ L!Transacts(c) /\ jobs[c].pc = "sent"
            \/ jobs'[c].pc = "ok" /\ L!Transacts(c) /\ ~Imported(jobs[c]) /\ jobs[c].pc = "sent"
            \/ jobs'[c].pc = "conflict" /\ journal' = journal
            \/ jobs'[c].pc \in {"error", "dead"}
<1> USE DEF IInv
<1>1. CASE Moved(c)
  <2>1. jobs[c] \in JobType /\ jobs \in [Calls -> JobType \cup {NoJob}] /\ jobs[c].pc = "sent"
        /\ jobs[c].pc # "none"
    BY <1>1, JobTypes DEF Moved, Typed
  <2>2. PICK p \in {"import", "ok"} : Goes(c, p) /\ (p = "ok" => ~Imported(jobs[c]))
    <3>1. CASE Imported(jobs[c])
      <4>1. jobs' = [jobs EXCEPT ![c].pc = "import"]
        BY <1>1, <2>1, <3>1 DEF Moved
      <4> QED BY <4>1 DEF Goes
    <3>2. CASE ~Imported(jobs[c])
      <4>1. jobs' = [jobs EXCEPT ![c].pc = "ok"]
        BY <1>1, <2>1, <3>2 DEF Moved, Ended
      <4> QED BY <3>2, <4>1 DEF Goes
    <3> QED BY <3>1, <3>2
  <2>3. p \in Steps \ {"none"}
    BY DEF Steps, Over
  <2>4. L!Commit(c) /\ Committed(c) /\ UNCHANGED <<onChain, imports, crashes>>
    BY <1>1 DEF Moved
  <2>5. L!Step(c) /\ L!Transacts(c)
    BY <2>4 DEF L!Step, L!Commit
  <2> QED BY <2>1, <2>2, <2>3, <2>4, <2>5, GoesTypes
<1>2. CASE Threw(c)
  <2>1. jobs[c].pc = "sent" /\ jobs[c].pc # "none" /\ UNCHANGED <<onChain, imports, crashes>>
    BY <1>2 DEF Threw
  <2>2. PICK p \in {"conflict", "error"} :
           /\ Goes(c, p) /\ L!Step(c)
           /\ \/ Committed(c) \/ PartCommitted \/ Undone
           /\ p = "conflict" => journal' = journal
    BY <1>2 DEF Threw, L!Step, L!CommitPart, L!Short, L!tables
  <2>3. p \in Steps \ {"none"}
    BY DEF Steps, Over
  <2> QED BY <2>1, <2>2, <2>3, GoesTypes
<1>3. CASE Orphaned(c)
  <2>1. jobs[c].pc = "dead" /\ jobs' = jobs /\ UNCHANGED <<onChain, imports, crashes>>
    BY <1>3 DEF Orphaned
  <2>2. L!Step(c) /\ (\/ Committed(c) \/ PartCommitted \/ Undone)
    BY <1>3 DEF Orphaned, L!Step
  <2>3. jobs[c] # NoJob
    BY <2>1 DEF NoJob
  <2> QED BY <2>1, <2>2, <2>3 DEF Typed
<1> QED BY <1>1, <1>2, <1>3

LEMMA EndsIInv ==
  ASSUME IInv, NEW c \in Calls, Moved(c) \/ Threw(c) \/ Orphaned(c)
  PROVE  IInv'
<1>1. /\ L!Step(c) /\ UNCHANGED <<onChain, imports, crashes>>
      /\ \/ Committed(c) \/ PartCommitted \/ Undone
      /\ jobs' \in [Calls -> JobType \cup {NoJob}]
      /\ jobs[c].pc \in {"sent", "dead"} /\ jobs'[c] # NoJob
      /\ jobs'[c].offer = jobs[c].offer /\ jobs'[c].todo = jobs[c].todo
      /\ jobs'[c].next = jobs[c].next
      /\ \A d \in Calls \ {c} : jobs'[d] = jobs[d]
      /\ \/ jobs'[c].pc = "import" /\ L!Transacts(c) /\ jobs[c].pc = "sent"
         \/ jobs'[c].pc = "ok" /\ L!Transacts(c) /\ ~Imported(jobs[c]) /\ jobs[c].pc = "sent"
         \/ jobs'[c].pc = "conflict" /\ journal' = journal
         \/ jobs'[c].pc \in {"error", "dead"}
  BY Told
<1>2. /\ Running(c) /\ ~Running(c)' /\ opened' = opened
      /\ \A d \in Calls \ {c} : stmts'[d] = stmts[d]
      /\ \A d \in Calls \ {c} : Made(d)' = Made(d)
      /\ L!Transacts(c) => Made(c)' = 1..jobs[c].next
      /\ Made(c)' = 1..jobs[c].next \/ Made(c)' = 1..(jobs[c].next - 1)
      /\ journal' = journal => Made(c)' = 1..(jobs[c].next - 1)
  BY <1>1, Ending
<1> USE DEF IInv
<1>3. Ledger'
  BY <1>1, EndLedger
<1>4. Typed'
  <2>1. owed' \in Nat /\ astray' \in [Accounts -> Int]
    <3>1. CASE Committed(c)
      <4>1. stmts[c].op.amount \in Nat
        <5>1. stmts[c].op \in L!Ops
          BY <1>2 DEF Running, Ledger, L!TypeOK, L!Running, L!NoStmt
        <5> QED BY <5>1, OpsTyped
      <4> QED BY <3>1, <4>1 DEF Committed, Typed
    <3>2. CASE PartCommitted
      <4>1. \A a \in Accounts : astray[a] + balance'[a] - balance[a] \in Int
        <5>1. \A a \in Accounts : balance[a] \in Nat /\ balance'[a] \in Nat /\ astray[a] \in Int
          BY <1>3 DEF Typed, Ledger, L!TypeOK
        <5> QED BY <5>1
      <4> QED BY <3>2, <4>1 DEF PartCommitted, Typed
    <3>3. CASE Undone
      BY <3>3 DEF Undone, Typed
    <3> QED BY <1>1, <3>1, <3>2, <3>3
  <2> QED BY <1>1, <2>1 DEF Typed
<1>5. Placed(jobs[c])
  BY <1>1, JobIsPlaced
<1>6. jobs[c].next \in Nat \ {0}
  BY <1>1, JobTypes DEF JobType
<1>7. Placed(jobs[c])'
  <2>1. CASE jobs'[c].pc = "import"
    <3>1. Begun(jobs[c])
      BY <1>1, <2>1 DEF Begun
    <3> QED BY <1>1, <1>5, <2>1, <3>1 DEF Placed, Begun, Imported
  <2>2. CASE jobs'[c].pc # "import"
    BY <1>1, <1>5, <2>2 DEF Placed, Begun, Imported
  <2> QED BY <2>1, <2>2
<1>8. Progress(c)'
  <2>1. CASE jobs'[c].pc = "import" /\ L!Transacts(c)
    BY <1>1, <1>2, <2>1 DEF Progress
  <2>2. CASE jobs'[c].pc = "ok" /\ L!Transacts(c) /\ ~Imported(jobs[c]) /\ jobs[c].pc = "sent"
    <3>1. Len(jobs[c].todo) = jobs[c].next
      <4>1. Begun(jobs[c]) /\ ~Imported(jobs[c])
        BY <2>2 DEF Begun
      <4>2. Len(jobs[c].todo) = 1 /\ jobs[c].next <= Len(jobs[c].todo)
        BY <1>5, <4>1 DEF Placed
      <4> QED BY <1>6, <4>2
    <3> QED BY <1>1, <1>2, <2>2, <3>1 DEF Progress
  <2>3. CASE jobs'[c].pc = "conflict" /\ journal' = journal
    BY <1>1, <1>2, <2>3 DEF Progress
  <2>4. CASE jobs'[c].pc \in {"error", "dead"}
    BY <1>1, <1>2, <2>4 DEF Progress
  <2> QED BY <1>1, <2>1, <2>2, <2>3, <2>4
<1>9. JobsPlaced'
  <2> SUFFICES ASSUME NEW d \in Calls, d # c
               PROVE  (IF jobs[d] = NoJob THEN Made(d) = {} ELSE Placed(jobs[d]) /\ Progress(d))'
    BY <1>1, <1>7, <1>8 DEF JobsPlaced
  <2>1. jobs'[d] = jobs[d] /\ Made(d)' = Made(d)
    BY <1>1, <1>2
  <2>2. IF jobs[d] = NoJob THEN Made(d) = {} ELSE Placed(jobs[d]) /\ Progress(d)
    BY DEF JobsPlaced
  <2>3. (Placed(jobs[d]) => Placed(jobs[d])') /\ (Progress(d) => Progress(d)')
    BY <1>2, <2>1 DEF Placed, Begun, Imported, Progress
  <2> QED BY <2>1, <2>2, <2>3 DEF NoJob
<1>10. StmtsPlaced'
  <2>1. \A d \in Calls : Running(d)' => d # c /\ Running(d)
    BY <1>2 DEF Running
  <2>2. jobs'[c].pc # "sent"
    BY <1>1
  <2>3. \A d \in Calls \ {c} : Running(d) => Running(d)'
    BY <1>2 DEF Running
  <2> QED BY <1>1, <1>2, <2>1, <2>2, <2>3 DEF StmtsPlaced, Conserves
<1> QED BY <1>3, <1>4, <1>9, <1>10

\* The process is killed, with statements in flight.
LEMMA CrashIInv ==
  ASSUME IInv, Crash
  PROVE  IInv'
<1> USE DEF IInv
<1>1. /\ crashes < MaxCrashes /\ crashes' = crashes + 1
      /\ jobs' = [c \in Calls |-> IF jobs[c].pc \in Over THEN jobs[c] ELSE Ended(jobs[c], "dead")]
      /\ UNCHANGED <<ledgerVars, onChain, imports, owed, astray>>
  BY DEF Crash
<1>2. ASSUME NEW c \in Calls
      PROVE  \/ jobs'[c] = jobs[c]
             \/ /\ jobs[c].pc \notin Over /\ jobs[c] # NoJob
                /\ jobs'[c] \in JobType /\ jobs'[c] # NoJob
                /\ jobs'[c].pc = "dead" /\ jobs'[c].next = jobs[c].next
                /\ jobs'[c].todo = jobs[c].todo
  <2>1. CASE jobs[c].pc \in Over
    BY <1>1, <2>1
  <2>2. CASE jobs[c].pc \notin Over
    <3>1. jobs[c].pc # "none" /\ "dead" \in Steps \ {"none"}
      BY <2>2 DEF Over, Steps
    <3>2. jobs[c] \in JobType /\ jobs[c] # NoJob
      BY <3>1, JobTypes
    <3>3. jobs'[c] = [jobs[c] EXCEPT !.pc = "dead"]
      BY <1>1, <2>2 DEF Ended
    <3>4. jobs'[c] \in JobType /\ jobs'[c].pc = "dead" /\ jobs'[c].next = jobs[c].next
          /\ jobs'[c].todo = jobs[c].todo
      BY <3>1, <3>2, <3>3 DEF JobType
    <3>5. jobs'[c] # NoJob
      BY <3>4 DEF NoJob
    <3> QED BY <2>2, <3>2, <3>4, <3>5
  <2> QED BY <2>1, <2>2
<1>3. Ledger'
  BY <1>1 DEF ledgerVars, Ledger, L!TypeOK, L!StmtsHonest, L!AnswersAreJournaled
<1>4. Typed'
  <2>1. \A c \in Calls : jobs'[c] \in JobType \cup {NoJob}
    BY <1>2 DEF Typed
  <2>2. crashes' \in 0..MaxCrashes
    BY <1>1, DistributionAssumption DEF Typed
  <2>3. jobs' \in [Calls -> JobType \cup {NoJob}]
    BY <1>1, <2>1
  <2> QED BY <1>1, <2>2, <2>3 DEF Typed
<1>5. \A c \in Calls : Made(c)' = Made(c) /\ (Running(c)' <=> Running(c))
  BY <1>1 DEF Made, Running, ledgerVars
<1>6. JobsPlaced'
  <2> SUFFICES ASSUME NEW d \in Calls
               PROVE  (IF jobs[d] = NoJob THEN Made(d) = {} ELSE Placed(jobs[d]) /\ Progress(d))'
    BY DEF JobsPlaced
  <2>1. IF jobs[d] = NoJob THEN Made(d) = {} ELSE Placed(jobs[d]) /\ Progress(d)
    BY DEF JobsPlaced
  <2>2. CASE jobs'[d] = jobs[d]
    <3>1. (Placed(jobs[d]) => Placed(jobs[d])') /\ (Progress(d) => Progress(d)')
      BY <1>1, <1>5, <2>2 DEF Placed, Begun, Imported, Progress, ledgerVars
    <3> QED BY <1>5, <2>1, <2>2, <3>1 DEF NoJob
  <2>3. CASE jobs'[d] # jobs[d]
    <3>1. /\ jobs[d].pc \notin Over /\ jobs[d] # NoJob
          /\ jobs'[d] # NoJob /\ jobs'[d].pc = "dead"
          /\ jobs'[d].next = jobs[d].next /\ jobs'[d].todo = jobs[d].todo
      BY <1>2, <2>3
    <3>2. Placed(jobs[d])'
      BY <2>1, <3>1 DEF Placed, Begun
    <3>3. Progress(d)'
      BY <1>5, <2>1, <3>1 DEF Progress, Over
    <3> QED BY <3>1, <3>2, <3>3
  <2> QED BY <2>2, <2>3
<1>7. StmtsPlaced'
  <2>1. \A c \in Calls : jobs[c].pc \in {"sent", "dead"} =>
           jobs'[c].pc \in {"sent", "dead"} /\ jobs'[c].next = jobs[c].next
    BY <1>2 DEF Over
  <2>2. \A c \in Calls : jobs'[c].pc # "sent"
    <3> SUFFICES ASSUME NEW c \in Calls PROVE jobs'[c].pc # "sent"
      OBVIOUS
    <3>1. CASE jobs[c].pc \in Over
      BY <1>1, <3>1 DEF Over
    <3>2. CASE jobs[c].pc \notin Over
      <4>1. jobs'[c] = Ended(jobs[c], "dead")
        BY <1>1, <3>2
      <4>2. jobs[c] \in JobType
        <5>1. jobs[c].pc # "none"
          BY <3>2 DEF Over
        <5> QED BY <5>1, JobTypes
      <4> QED BY <4>1, <4>2 DEF Ended, JobType
    <3> QED BY <3>1, <3>2
  <2>3. \A c \in Calls : stmts'[c] = stmts[c]
    BY <1>1 DEF ledgerVars
  <2> QED BY <1>5, <2>1, <2>2, <2>3 DEF StmtsPlaced, Conserves
<1> QED BY <1>3, <1>4, <1>6, <1>7


-----------------------------------------------------------------------------
(* Every behaviour *)

LEMMA InitIInv == Init => IInv
<1> SUFFICES ASSUME Init PROVE IInv
  OBVIOUS
<1>1. Ledger
  <2>1. Omnibus \in Accounts /\ 0 \in 0..MaxFaults
    BY DistributionAssumption DEF Accounts
  <2>2. 0 <= 0
    OBVIOUS
  <2>3. opened \subseteq Accounts
    BY <2>1 DEF Init
  <2>4. L!TypeOK
    BY <2>1, <2>2, <2>3 DEF Init, L!TypeOK, L!Running, L!NoStmt, L!Errors
  <2>5. L!StmtsHonest /\ L!AnswersAreJournaled
    BY DEF Init, L!StmtsHonest, L!AnswersAreJournaled, L!NoStmt
  <2> QED BY <2>4, <2>5 DEF Ledger
<1>2. Typed
  <2>1. 0 \in 0..MaxCrashes /\ MaxChain \in 0..MaxChain
    BY DistributionAssumption
  <2> QED BY <2>1 DEF Init, Typed
<1>3. JobsPlaced
  <2>1. \A c \in Calls, i \in Moves : <<c, i>> \in Keys
    BY DEF Keys, Moves
  <2>2. \A c \in Calls : Made(c) = {}
    BY <2>1 DEF Init, Made
  <2> QED BY <2>2 DEF Init, JobsPlaced
<1>4. StmtsPlaced
  BY DEF Init, StmtsPlaced, Running, L!NoStmt, NoJob
<1> QED BY <1>1, <1>2, <1>3, <1>4 DEF IInv

LEMMA StepIInv == IInv /\ [Next]_vars => IInv'
<1> SUFFICES ASSUME IInv, [Next]_vars PROVE IInv'
  OBVIOUS
<1>1. ASSUME NEW c \in Calls, NEW o \in Offers, Serve(c, o) PROVE IInv'
  BY <1>1, ServeIInv
<1>2. ASSUME NEW c \in Calls, JobStep(c) PROVE IInv'
  <2>1. CASE Ensure(c)
    BY <2>1, EnsureIInv
  <2>2. CASE ListAccounts(c)
    BY <2>2, ListIInv
  <2>3. CASE SendsNothing(c) \/ SetFails(c)
    BY <2>3, GoesIInv DEF SendsNothing, SetFails
  <2>4. CASE Send(c)
    BY <2>4, SendIInv
  <2>5. CASE Moved(c) \/ Threw(c) \/ Orphaned(c)
    BY <2>5, EndsIInv
  <2>6. CASE Import(c)
    BY <2>6, ImportIInv
  <2>7. CASE ReadChain(c) \/ SumDistributed(c)
    BY <2>7, ReadIInv
  <2>8. CASE ReadFails(c) \/ SetOmnibus(c)
    BY <2>8, SyncEndsIInv
  <2> QED BY <1>2, <2>1, <2>2, <2>3, <2>4, <2>5, <2>6, <2>7, <2>8 DEF JobStep
<1>3. CASE ChainMoves
  <2>1. onChain' \in 0..MaxChain /\ UNCHANGED <<ledgerVars, jobs, imports, owed, astray, crashes>>
    BY <1>3 DEF ChainMoves
  <2>2. Ledger'
    BY <2>1 DEF IInv, ledgerVars, Ledger, L!TypeOK, L!StmtsHonest, L!AnswersAreJournaled
  <2>3. Typed'
    BY <2>1 DEF IInv, Typed
  <2>4. JobsPlaced'
    BY <2>1, ZenonT(30) DEF IInv, ledgerVars, JobsPlaced, Placed, Begun, Imported, Progress, Made
  <2>5. StmtsPlaced'
    BY <2>1, ZenonT(30) DEF IInv, ledgerVars, StmtsPlaced, Made, Running, Conserves
  <2> QED BY <2>2, <2>3, <2>4, <2>5 DEF IInv
<1>4. CASE Crash
  BY <1>4, CrashIInv
<1>5. CASE UNCHANGED vars
  <2>1. UNCHANGED <<ledgerVars, jobs, onChain, imports, owed, astray, crashes>>
    BY <1>5 DEF vars
  <2>2. Ledger'
    BY <2>1 DEF IInv, ledgerVars, Ledger, L!TypeOK, L!StmtsHonest, L!AnswersAreJournaled
  <2>3. Typed'
    BY <2>1, ZenonT(30) DEF IInv, Typed
  <2>4. JobsPlaced' /\ StmtsPlaced'
    BY <2>1, ZenonT(30) DEF IInv, ledgerVars, JobsPlaced, StmtsPlaced, Placed, Begun, Imported, Progress, Made,
                Running, Conserves
  <2> QED BY <2>2, <2>3, <2>4 DEF IInv
<1> QED BY <1>1, <1>2, <1>3, <1>4, <1>5 DEF Next

LEMMA Invariance == Spec => []IInv
BY InitIInv, StepIInv, PTL DEF Spec

\* The CHECK constraints and transfer: no account is overdrawn, by a sync either, and
\* a method waits for a statement exactly while it has one in flight.
THEOREM TypeCorrect == Spec => []TypeOK
<1>1. IInv => TypeOK
  <2> SUFFICES ASSUME IInv PROVE TypeOK
    OBVIOUS
  <2>1. opened \subseteq Accounts /\ \A a \in Accounts : 0 <= held[a] /\ held[a] <= balance[a]
    BY LedgerTypes DEF IInv
  <2>2. ASSUME NEW c \in Calls
        PROVE  /\ jobs[c].pc \in Steps
               /\ jobs[c] # NoJob => jobs[c].offer \in Offers /\ jobs[c].read \in 0..MaxChain
                                     /\ jobs[c].sum \in Nat
               /\ jobs[c].pc # "dead" => (jobs[c].pc = "sent" <=> stmts[c] # L!NoStmt)
    <3>1. jobs[c] \in JobType \/ jobs[c] = NoJob
      BY DEF IInv, Typed
    <3>2. jobs[c].pc \in Steps
      <4>1. CASE jobs[c] \in JobType
        BY <4>1 DEF JobType
      <4>2. CASE jobs[c] = NoJob
        BY <4>2 DEF NoJob, Steps, Over
      <4> QED BY <3>1, <4>1, <4>2
    <3>3. Running(c) <=> stmts[c] # L!NoStmt
      BY LedgerTypes DEF IInv, Running, L!NoStmt
    <3>4. jobs[c].pc # "dead" => (jobs[c].pc = "sent" <=> Running(c))
      BY DEF IInv, StmtsPlaced
    <3> QED BY <3>1, <3>2, <3>3, <3>4 DEF JobType
  <2> QED BY <2>1, <2>2 DEF IInv, Typed, TypeOK
<1> QED BY <1>1, Invariance, PTL

\* distribute, reclaim and flushDistributions: the reply says what was moved, whatever
\* fails or is lost on the way.
THEOREM RepliesCorrect == Spec => []RepliesAreTrue
<1>1. IInv => RepliesAreTrue
  <2> SUFFICES ASSUME IInv, NEW c \in Calls
               PROVE  /\ jobs[c].pc = "ok" => DoneOf(c) = DOMAIN jobs[c].todo
                      /\ jobs[c].pc = "conflict" =>
                            DoneOf(c) = 1..(jobs[c].next - 1) \cap DOMAIN jobs[c].todo
                      /\ jobs[c].pc \in {"error", "dead"} =>
                            /\ 1..(jobs[c].next - 1) \cap DOMAIN jobs[c].todo \subseteq DoneOf(c)
                            /\ DoneOf(c) \subseteq 1..jobs[c].next
    BY DEF RepliesAreTrue
  <2>1. SUFFICES ASSUME jobs[c].pc # "none" PROVE
                      /\ jobs[c].pc = "ok" => DoneOf(c) = DOMAIN jobs[c].todo
                      /\ jobs[c].pc = "conflict" =>
                            DoneOf(c) = 1..(jobs[c].next - 1) \cap DOMAIN jobs[c].todo
                      /\ jobs[c].pc \in {"error", "dead"} =>
                            /\ 1..(jobs[c].next - 1) \cap DOMAIN jobs[c].todo \subseteq DoneOf(c)
                            /\ DoneOf(c) \subseteq 1..jobs[c].next
    OBVIOUS
  <2>2. Placed(jobs[c]) /\ Progress(c)
    BY <2>1, JobIsPlaced DEF IInv
  <2>3. jobs[c].todo \in Seq(Accounts \X Nat) /\ jobs[c].next \in Nat \ {0}
    BY <2>1, JobTypes DEF IInv, JobType
  <2>4. DOMAIN jobs[c].todo = 1..Len(jobs[c].todo) /\ DOMAIN jobs[c].todo \subseteq Moves
        /\ Len(jobs[c].todo) \in Nat
    <3>1. Len(jobs[c].todo) \in 0..Cardinality(Accounts) /\ Cardinality(Accounts) \in Nat
      BY <2>2, FiniteAccounts DEF Placed
    <3>2. DOMAIN jobs[c].todo = 1..Len(jobs[c].todo)
      BY <2>3
    <3> QED BY <3>1, <3>2 DEF Moves
  <2>5. DoneOf(c) = Made(c) \cap DOMAIN jobs[c].todo
    BY <2>4 DEF DoneOf, Made
  <2>6. 1..(jobs[c].next - 1) \subseteq 1..jobs[c].next
    BY <2>3
  <2> QED BY <2>2, <2>4, <2>5, <2>6 DEF Progress
<1> QED BY <1>1, Invariance, PTL


\* A transaction stays.
LEMMA MadeStays ==
  ASSUME IInv, [Next]_vars, NEW k \in Keys, journal[k] # NoTx
  PROVE  journal'[k] # NoTx
<1>1. ASSUME NEW c \in Calls, L!Step(c) PROVE journal'[k] # NoTx
  <2>1. journal' = journal \/ L!Transacts(c)
    BY <1>1 DEF L!Step, L!ReturnFound, L!Commit, L!CommitUnheard, L!CommitPart, L!Short, L!KeyTaken,
                L!Aborts, L!tables
  <2>2. CASE L!Transacts(c)
    <3>1. stmts[c].op \in L!Ops
      BY <2>2 DEF L!Transacts, L!Ends, IInv, Ledger, L!TypeOK, L!Running, L!NoStmt
    <3>2. stmts[c].op # NoTx
      BY <3>1, OpsTyped, NoTransactionAssumption
    <3>3. journal' = [journal EXCEPT ![stmts[c].key] = stmts[c].op] /\ DOMAIN journal = Keys
      BY <2>2, LedgerTypes DEF L!Transacts, IInv
    <3> QED BY <3>2, <3>3
  <2> QED BY <2>1, <2>2
<1>2. journal' = journal \/ \E c \in Calls : L!Step(c)
  BY Told DEF Next, vars, Serve, JobStep, Ensure, ListAccounts, SendsNothing, Send, Import, ReadChain,
              ReadFails, SumDistributed, SetOmnibus, SetFails, ChainMoves, Crash,
              ledgerVars, L!EnsureAccount, L!Begin, L!tables
<1> QED BY <1>1, <1>2

\* importTransaction follows the move it reports: the router hears of no transaction
\* that was not made, whatever fails or is lost.
THEOREM ImportsCorrect == Spec => []ImportsWereMade
<1>1. Init => ImportsWereMade
  BY DEF Init, ImportsWereMade
<1>2. IInv /\ ImportsWereMade /\ [Next]_vars => ImportsWereMade'
  <2> SUFFICES ASSUME IInv, ImportsWereMade, [Next]_vars, NEW k \in imports'
               PROVE  journal'[k] # NoTx
    BY DEF ImportsWereMade
  <2>1. CASE k \in imports
    <3>1. k \in Keys /\ journal[k] # NoTx
      BY <2>1 DEF IInv, Typed, ImportsWereMade
    <3> QED BY <3>1, MadeStays
  <2>2. CASE k \notin imports
    <3>1. PICK c \in Calls : Import(c)
      BY <2>2, Told DEF Next, vars, Serve, JobStep, Ensure, ListAccounts, SendsNothing, Send,
                        ReadChain, ReadFails, SumDistributed, SetOmnibus, SetFails, ChainMoves, Crash
    <3>2. k = <<c, jobs[c].next>> /\ jobs[c].pc = "import"
      BY <2>2, <3>1 DEF Import
    <3>3. jobs[c].next \in Moves /\ jobs[c].next \in Nat \ {0} /\ <<c, jobs[c].next>> \in Keys
      BY <3>2, ItemTypes, JobTypes DEF Begun, IInv, JobType
    <3>4. Made(c) = 1..jobs[c].next
      BY <3>2, JobIsPlaced DEF IInv, Progress
    <3>5. journal[k] # NoTx
      <4>1. jobs[c].next \in Made(c)
        BY <3>3, <3>4
      <4> QED BY <3>2, <4>1 DEF Made
    <3> QED BY <3>2, <3>3, <3>5, MadeStays
  <2> QED BY <2>1, <2>2
<1> QED BY <1>1, <1>2, Invariance, PTL DEF Spec

-----------------------------------------------------------------------------
(* Funds, when a sync runs alone *)

\* Nothing that is under way when a sync has its sum disturbs it.
LEMMA SyncsKeep ==
  ASSUME SyncsAlone, InvestorSum' = InvestorSum, \A d \in Calls : Running(d)' => Running(d),
         \A d \in Calls : jobs'[d].pc = "set" => jobs'[d] = jobs[d]
  PROVE  SyncsAlone'
BY DEF SyncsAlone

\* Only SumDistributed brings a method there.
LEMMA NoOtherSync ==
  ASSUME IInv, NEW c \in Calls, JobStep(c), ~SumDistributed(c), NEW d \in Calls,
         jobs'[d].pc = "set"
  PROVE  jobs'[d] = jobs[d]
<1> USE DEF IInv
<1>1. jobs \in [Calls -> JobType \cup {NoJob}]
  BY DEF Typed
<1>2. jobs[c].pc # "none" => jobs[c] \in JobType
  BY JobTypes
<1>3. ASSUME NEW p \in {"send", "sum", "conflict", "sent", "error", "ok"}, Goes(c, p),
             jobs[c].pc # "none"
      PROVE  jobs'[d] = jobs[d]
  <2>1. p \in Steps \ {"none"}
    BY DEF Steps, Over
  <2>2. jobs'[c].pc = p /\ \A e \in Calls \ {c} : jobs'[e] = jobs[e]
    BY <1>3, <2>1, GoesTypes
  <2>3. p # "set"
    OBVIOUS
  <2> QED BY <2>2, <2>3
<1>4. CASE Ensure(c)
  BY <1>3, <1>4 DEF Ensure
<1>5. CASE SendsNothing(c) \/ SetFails(c) \/ Send(c) \/ ReadFails(c) \/ SetOmnibus(c)
  BY <1>3, <1>5 DEF SendsNothing, SetFails, Send, ReadFails, SetOmnibus
<1>6. CASE Moved(c) \/ Threw(c) \/ Orphaned(c)
  BY <1>6, Told
<1>7. CASE Import(c)
  <2>1. jobs[c] \in JobType /\ jobs' = [jobs EXCEPT ![c] = Onward(jobs[c])]
    BY <1>1, <1>2, <1>7 DEF Import
  <2>2. Onward(jobs[c]).pc \in {"send", "ok"}
    BY <2>1 DEF Onward, Ended, JobType
  <2> QED BY <1>1, <2>1, <2>2
<1>8. CASE ReadChain(c)
  <2>1. jobs[c] \in JobType
        /\ jobs' = [jobs EXCEPT ![c].pc = "ensure omnibus", ![c].read = onChain]
    BY <1>2, <1>8 DEF ReadChain
  <2>2. jobs'[c].pc = "ensure omnibus"
    BY <1>1, <2>1 DEF JobType
  <2> QED BY <1>1, <2>1, <2>2
<1>9. CASE ListAccounts(c)
  <2>1. PICK found : jobs' = [jobs EXCEPT
                         ![c].todo = [i \in DOMAIN found |-> <<found[i], balance[found[i]]>>],
                         ![c].pc = IF found = <<>> THEN "ok" ELSE "send"]
    BY <1>9 DEF ListAccounts
  <2>2. jobs[c] \in JobType
    BY <1>2, <1>9 DEF ListAccounts
  <2>3. jobs'[c].pc = IF found = <<>> THEN "ok" ELSE "send"
    BY <1>1, <2>1, <2>2 DEF JobType
  <2> QED BY <1>1, <2>1, <2>3
<1> QED BY <1>4, <1>5, <1>6, <1>7, <1>8, <1>9 DEF JobStep

LEMMA StepSyncsAlone == IInv /\ SyncsAlone /\ [Next]_vars => SyncsAlone'
<1> SUFFICES ASSUME IInv, SyncsAlone, [Next]_vars, SyncAlone PROVE SyncsAlone'
  BY DEF SyncsAlone
<1>1. jobs \in [Calls -> JobType \cup {NoJob}]
  BY DEF IInv, Typed
<1>2. ASSUME balance' = balance PROVE InvestorSum' = InvestorSum
  BY <1>2 DEF InvestorSum
<1>3. ASSUME stmts' = stmts PROVE \A d \in Calls : Running(d)' => Running(d)
  BY <1>3 DEF Running
<1>4. CASE UNCHANGED vars
  BY <1>2, <1>3, <1>4, SyncsKeep DEF vars, ledgerVars
<1>5. CASE ChainMoves
  BY <1>2, <1>3, <1>5, SyncsKeep DEF ChainMoves, ledgerVars
<1>6. ASSUME NEW c \in Calls, NEW o \in Offers, Serve(c, o) PROVE SyncsAlone'
  <2>1. UNCHANGED ledgerVars /\ jobs' = [jobs EXCEPT ![c] = First(o)]
    BY <1>6 DEF Serve
  <2>2. First(o).pc # "set"
    BY DEF First, Job
  <2>3. \A d \in Calls : jobs'[d].pc = "set" => jobs'[d] = jobs[d]
    BY <1>1, <2>1, <2>2
  <2> QED BY <1>2, <1>3, <2>1, <2>3, SyncsKeep DEF ledgerVars
<1>7. CASE Crash
  <2>1. /\ jobs' = [c \in Calls |-> IF jobs[c].pc \in Over THEN jobs[c] ELSE Ended(jobs[c], "dead")]
        /\ UNCHANGED ledgerVars
    BY <1>7 DEF Crash
  <2>2. ASSUME NEW d \in Calls, jobs'[d].pc = "set" PROVE jobs'[d] = jobs[d]
    <3>1. CASE jobs[d].pc \in Over
      BY <2>1, <3>1
    <3>2. CASE jobs[d].pc \notin Over
      <4>1. jobs'[d] = Ended(jobs[d], "dead") /\ jobs[d].pc # "none"
        BY <2>1, <3>2 DEF Over
      <4>2. jobs[d] \in JobType
        BY <4>1, JobTypes DEF IInv
      <4> QED BY <2>2, <4>1, <4>2 DEF Ended, JobType
    <3> QED BY <3>1, <3>2
  <2> QED BY <1>2, <1>3, <2>1, <2>2, SyncsKeep DEF ledgerVars
<1>8. ASSUME NEW c \in Calls, Send(c) PROVE SyncsAlone'
  <2>1. \A d \in Calls : jobs[d].pc # "set"
    BY <1>8 DEF Send, Syncing
  <2>2. \A d \in Calls : jobs'[d].pc # "set"
    BY <1>8, <2>1, NoOtherSync DEF JobStep, SumDistributed, Send
  <2> QED BY <2>2 DEF SyncsAlone
<1>9. ASSUME NEW c \in Calls, Moved(c) \/ Threw(c) \/ Orphaned(c) PROVE SyncsAlone'
  <2>1. Running(c) /\ \A d \in Calls \ {c} : jobs'[d] = jobs[d]
    BY <1>9, Told, Ending
  <2>2. jobs'[c].pc # "set"
    BY <1>9, Told
  <2>3. \A d \in Calls : jobs[d].pc # "set"
    BY <2>1 DEF SyncsAlone
  <2> QED BY <2>1, <2>2, <2>3 DEF SyncsAlone
<1>10. ASSUME NEW c \in Calls, SumDistributed(c) PROVE SyncsAlone'
  <2>1. /\ jobs[c].pc = "sum" /\ Moving = {} /\ UNCHANGED ledgerVars
        /\ jobs' = [jobs EXCEPT ![c].pc = "set", ![c].sum = InvestorSum]
    BY <1>10 DEF SumDistributed
  <2>2. jobs[c] \in JobType
    BY <2>1, JobTypes DEF IInv
  <2>3. jobs'[c].sum = InvestorSum /\ \A d \in Calls \ {c} : jobs'[d] = jobs[d]
    BY <1>1, <2>1, <2>2 DEF JobType
  <2>4. \A d \in Calls : ~Running(d) /\ ~Running(d)'
    BY <2>1 DEF Moving, Running, L!NoStmt, ledgerVars
  <2>5. InvestorSum' = InvestorSum
    BY <1>2, <2>1 DEF ledgerVars
  <2> QED BY <2>3, <2>4, <2>5 DEF SyncsAlone
<1>11. ASSUME NEW c \in Calls, SetOmnibus(c) PROVE SyncsAlone'
  <2>1. InvestorSum' = InvestorSum
    <3>1. \A a \in Holders : balance'[a] = balance[a]
      <4>1. DOMAIN balance = Accounts
        BY LedgerTypes DEF IInv
      <4> QED BY <1>11, <4>1, FiniteAccounts DEF SetOmnibus
    <3> QED BY <3>1, FiniteAccounts, SumSame DEF InvestorSum, Holders
  <2>2. \A d \in Calls : Running(d)' => Running(d)
    BY <1>3, <1>11 DEF SetOmnibus
  <2>3. \A d \in Calls : jobs'[d].pc = "set" => jobs'[d] = jobs[d]
    BY <1>11, NoOtherSync DEF JobStep, SumDistributed, SetOmnibus
  <2> QED BY <2>1, <2>2, <2>3, SyncsKeep
<1>12. ASSUME NEW c \in Calls,
              Ensure(c) \/ ListAccounts(c) \/ SendsNothing(c) \/ Import(c) \/ ReadChain(c)
                \/ ReadFails(c) \/ SetFails(c)
       PROVE  SyncsAlone'
  <2>1. balance' = balance /\ stmts' = stmts
    BY <1>12 DEF Ensure, ListAccounts, SendsNothing, Import, ReadChain, ReadFails, SetFails,
                 ledgerVars, L!EnsureAccount
  <2>2. ~SumDistributed(c)
    BY <1>12 DEF Ensure, ListAccounts, SendsNothing, Import, ReadChain, ReadFails, SetFails,
                 SumDistributed
  <2>3. \A d \in Calls : jobs'[d].pc = "set" => jobs'[d] = jobs[d]
    BY <1>12, <2>2, NoOtherSync DEF JobStep
  <2> QED BY <1>2, <1>3, <2>1, <2>3, SyncsKeep
<1> QED BY <1>4, <1>5, <1>6, <1>7, <1>8, <1>9, <1>10, <1>11, <1>12 DEF Next, JobStep


Total == SumFunctionOnSet(balance, Accounts)
Astray == SumFunctionOnSet(astray, Accounts)
Accounted == Total = owed + Astray

LEMMA Totals ==
  ASSUME IInv
  PROVE  /\ Total = balance[Omnibus] + InvestorSum /\ Total \in Int /\ Astray \in Int
         /\ TotalIsOwed <=> Accounted
<1>1. Total = balance[Omnibus] + InvestorSum
  BY SumTypes DEF IInv, Total
<1>2. \A a \in Accounts : balance[a] \in Int /\ astray[a] \in Int
  BY LedgerTypes DEF IInv, Typed
<1>3. Total \in Int /\ Astray \in Int
  BY <1>2, FiniteAccounts, SumInt DEF Total, Astray
<1> QED BY <1>1, <1>3 DEF TotalIsOwed, Accounted, Astray

\* What a transaction moves among the accounts adds up to nothing, but for what it brings
\* from outside.
LEMMA MovedAddsUp ==
  ASSUME NEW op \in L!Ops, Conserves(op)
  PROVE  SumFunctionOnSet([a \in Accounts |-> L!Moved(op, a)], Accounts) =
            IF op.source = None THEN op.amount ELSE 0
<1>1. /\ op.source \in Accounts \cup {None} /\ op.destination \in Accounts \cup {None}
      /\ op.amount \in Nat /\ None \notin Accounts
  BY OpsTyped, DistributionAssumption
<1> DEFINE in == [a \in Accounts |-> IF a = op.destination THEN op.amount ELSE 0]
           out == [a \in Accounts |-> IF a = op.source THEN -op.amount ELSE 0]
           both == [a \in Accounts |-> L!Moved(op, a)]
<1>2. \A a \in Accounts : in[a] \in Int /\ out[a] \in Int /\ both[a] = in[a] + out[a]
  BY <1>1 DEF L!Moved
<1>3. SumFunctionOnSet(in, Accounts) = IF op.destination = None THEN 0 ELSE op.amount
  <2>1. CASE op.destination = None
    <3>1. \A a \in Accounts : in[a] = 0
      BY <1>1, <2>1
    <3> HIDE DEF in
    <3> QED BY <2>1, <3>1, FiniteAccounts, SumOfZeros
  <2>2. CASE op.destination # None
    <3>1. /\ op.destination \in Accounts /\ in[op.destination] = op.amount
          /\ \A a \in Accounts \ {op.destination} : in[a] = 0
      BY <1>1, <2>2
    <3>2. in[op.destination] \in Int
      BY <1>1, <3>1
    <3> HIDE DEF in
    <3> QED BY <2>2, <3>1, <3>2, FiniteAccounts, SumAtOne
  <2> QED BY <2>1, <2>2
<1>4. SumFunctionOnSet(out, Accounts) = IF op.source = None THEN 0 ELSE -op.amount
  <2>1. CASE op.source = None
    <3>1. \A a \in Accounts : out[a] = 0
      BY <1>1, <2>1
    <3> HIDE DEF out
    <3> QED BY <2>1, <3>1, FiniteAccounts, SumOfZeros
  <2>2. CASE op.source # None
    <3>1. /\ op.source \in Accounts /\ out[op.source] = -op.amount
          /\ \A a \in Accounts \ {op.source} : out[a] = 0
      BY <1>1, <2>2
    <3>2. out[op.source] \in Int
      BY <1>1, <3>1
    <3> HIDE DEF out
    <3> QED BY <2>2, <3>1, <3>2, FiniteAccounts, SumAtOne
  <2> QED BY <2>1, <2>2
<1> HIDE DEF in, out, both
<1>5. SumFunctionOnSet(both, Accounts) =
         SumFunctionOnSet(in, Accounts) + SumFunctionOnSet(out, Accounts)
  BY <1>2, FiniteAccounts, SumPlus
<1>6. SumFunctionOnSet(both, Accounts) = IF op.source = None THEN op.amount ELSE 0
  BY <1>1, <1>3, <1>4, <1>5 DEF Conserves
<1> QED BY <1>6 DEF both

\* A statement that has its transaction.
LEMMA CommitAccounted ==
  ASSUME IInv, Accounted, NEW c \in Calls, L!Transacts(c), Committed(c)
  PROVE  Accounted'
<1> USE DEF IInv
<1> DEFINE op == stmts[c].op
           moved == [a \in Accounts |-> L!Moved(op, a)]
<1>1. Running(c) /\ op \in L!Ops /\ Conserves(op)
  <2>1. Running(c)
    BY DEF L!Transacts, L!Ends, Running
  <2>2. op \in L!Ops
    BY <2>1 DEF Running, Ledger, L!TypeOK, L!Running, L!NoStmt
  <2> QED BY <2>1, <2>2 DEF StmtsPlaced
<1>2. \A a \in Accounts : balance[a] \in Int /\ moved[a] \in Int /\ balance'[a] = balance[a] + moved[a]
  <2> SUFFICES ASSUME NEW a \in Accounts
               PROVE  balance[a] \in Int /\ moved[a] \in Int /\ balance'[a] = balance[a] + moved[a]
    OBVIOUS
  <2>1. balance[a] \in Int
    BY LedgerTypes
  <2>2. op.amount \in Nat /\ None \notin Accounts
    BY <1>1, OpsTyped, DistributionAssumption
  <2>3. moved[a] \in Int /\ moved[a] = L!Moved(op, a)
    BY <2>2 DEF L!Moved
  <2>4. a \notin L!Parties(op) => L!Moved(op, a) = 0
    BY <2>2 DEF L!Moved, L!Parties
  <2>5. balance'[a] = IF a \in L!Parties(op) THEN balance[a] + L!Moved(op, a) ELSE balance[a]
    BY DEF L!Transacts, L!UpdateRows, L!NewBalance
  <2> HIDE DEF op, moved
  <2> QED BY <2>1, <2>3, <2>4, <2>5
<1>3. SumFunctionOnSet(moved, Accounts) = IF op.source = None THEN op.amount ELSE 0
  BY <1>1, MovedAddsUp
<1>4. op.amount \in Nat
  BY <1>1, OpsTyped
<1>5. owed' = owed + (IF op.source = None THEN op.amount ELSE 0) /\ astray' = astray /\ owed \in Nat
  BY DEF Committed, Typed
<1> HIDE DEF op, moved
<1>6. SumFunctionOnSet(balance', Accounts) =
         SumFunctionOnSet(balance, Accounts) + SumFunctionOnSet(moved, Accounts)
  BY <1>2, FiniteAccounts, SumPlus
<1>7. Total' = Total + (IF op.source = None THEN op.amount ELSE 0) /\ Astray' = Astray
  BY <1>3, <1>5, <1>6 DEF Total, Astray
<1> QED BY <1>4, <1>5, <1>7, Totals DEF Accounted

\* A statement without one.
LEMMA PartAccounted ==
  ASSUME IInv, IInv', Accounted, PartCommitted
  PROVE  Accounted'
<1> DEFINE gone == [a \in Accounts |-> balance'[a] - balance[a]]
<1>1. \A a \in Accounts : balance[a] \in Int /\ balance'[a] \in Int /\ astray[a] \in Int
  <2>1. \A a \in Accounts : balance'[a] \in Int
    BY DEF IInv, Ledger, L!TypeOK
  <2> QED BY <2>1, LedgerTypes DEF IInv, Typed
<1>2. \A a \in Accounts : /\ gone[a] \in Int /\ balance'[a] = balance[a] + gone[a]
                          /\ astray'[a] = astray[a] + gone[a]
  BY <1>1 DEF PartCommitted
<1>3. owed' = owed
  BY DEF PartCommitted
<1> HIDE DEF gone
<1>4. SumFunctionOnSet(balance', Accounts) =
         SumFunctionOnSet(balance, Accounts) + SumFunctionOnSet(gone, Accounts)
  BY <1>1, <1>2, FiniteAccounts, SumPlus
<1>5. SumFunctionOnSet(astray', Accounts) =
         SumFunctionOnSet(astray, Accounts) + SumFunctionOnSet(gone, Accounts)
  BY <1>1, <1>2, FiniteAccounts, SumPlus
<1>6. SumFunctionOnSet(gone, Accounts) \in Int
  BY <1>2, FiniteAccounts, SumInt
<1>7. Total' = Total + SumFunctionOnSet(gone, Accounts)
      /\ Astray' = Astray + SumFunctionOnSet(gone, Accounts)
  BY <1>4, <1>5 DEF Total, Astray
<1>8. owed \in Nat
  BY DEF IInv, Typed
<1> QED BY <1>3, <1>6, <1>7, <1>8, Totals DEF Accounted

\* A sync: what the investors do not have of the balance on the chain.
LEMMA SyncAccounted ==
  ASSUME IInv, IInv', SyncsAlone, SyncAlone, NEW c \in Calls, SetOmnibus(c)
  PROVE  Accounted'
<1>1. /\ jobs[c].pc = "set" /\ owed' = jobs[c].read /\ astray' = [a \in Accounts |-> 0]
      /\ balance' = [balance EXCEPT ![Omnibus] = jobs[c].read - jobs[c].sum]
  BY DEF SetOmnibus
<1>2. jobs[c].sum = InvestorSum
  BY <1>1 DEF SyncsAlone
<1>3. DOMAIN balance = Accounts /\ InvestorSum \in Nat
  BY LedgerTypes, SumTypes DEF IInv
<1>4. Omnibus \in Accounts /\ Omnibus \notin Holders /\ Holders \subseteq Accounts
  BY FiniteAccounts
<1>5. balance'[Omnibus] = jobs[c].read - InvestorSum /\ \A a \in Holders : balance'[a] = balance[a]
  BY <1>1, <1>2, <1>3, <1>4
<1>6. InvestorSum' = InvestorSum
  BY <1>5, FiniteAccounts, SumSame DEF InvestorSum, Holders
<1>7. Astray' = 0
  <2>1. \A a \in Accounts : astray'[a] = 0
    BY <1>1
  <2> QED BY <2>1, FiniteAccounts, SumOfZeros DEF Astray
<1>8. Total' = balance'[Omnibus] + InvestorSum'
  <2>1. \A a \in Accounts : balance'[a] \in Int
    BY DEF IInv, Ledger, L!TypeOK
  <2>2. SumFunctionOnSet(balance', Accounts) = balance'[Omnibus] + SumFunctionOnSet(balance', Holders)
    BY <2>1, FiniteAccounts, SumAdds
  <2> QED BY <2>2 DEF Total, InvestorSum, Holders
<1>9. jobs[c].read \in 0..MaxChain
  <2>1. jobs[c].pc # "none"
    BY <1>1
  <2> QED BY <2>1, JobTypes DEF IInv, JobType
<1> QED BY <1>1, <1>3, <1>5, <1>6, <1>7, <1>8, <1>9 DEF Accounted

LEMMA StepAccounted ==
  ASSUME IInv, IInv', SyncsAlone, SyncAlone, Accounted, [Next]_vars
  PROVE  Accounted'
<1>1. ASSUME UNCHANGED <<balance, owed, astray>> PROVE Accounted'
  BY <1>1 DEF Accounted, Total, Astray
<1>2. ASSUME NEW c \in Calls, Moved(c) \/ Threw(c) \/ Orphaned(c) PROVE Accounted'
  <2>1. \/ L!Transacts(c) /\ Committed(c)
        \/ PartCommitted
        \/ UNCHANGED <<balance, owed, astray>>
    BY <1>2 DEF Moved, Threw, Orphaned, Undone, L!Commit, L!CommitUnheard, L!Short, L!Aborts, L!tables
  <2> QED BY <1>1, <2>1, CommitAccounted, PartAccounted
<1>3. ASSUME NEW c \in Calls, SetOmnibus(c) PROVE Accounted'
  BY <1>3, SyncAccounted
<1>4. \/ UNCHANGED <<balance, owed, astray>>
      \/ \E c \in Calls : Moved(c) \/ Threw(c) \/ Orphaned(c) \/ SetOmnibus(c)
  <2>1. CASE \E c \in Calls : JobStep(c) \/ \E o \in Offers : Serve(c, o)
    BY <2>1, ZenonT(30) DEF Serve, JobStep, Ensure, ListAccounts, SendsNothing, Send, Import, ReadChain,
          ReadFails, SumDistributed, SetFails, ledgerVars, L!EnsureAccount, L!Begin, L!tables
  <2>2. CASE ChainMoves \/ Crash \/ UNCHANGED vars
    BY <2>2 DEF ChainMoves, Crash, vars, ledgerVars
  <2> QED BY <2>1, <2>2 DEF Next
<1> QED BY <1>1, <1>2, <1>3, <1>4

\* syncOmnibusBalance and transfer: when nothing is moved while a sync runs, the accounts
\* together hold the balance last synced and what was issued since, but for what statements
\* that threw did.
THEOREM TotalCorrect == SyncAlone => (Spec => []TotalIsOwed)
<1> SUFFICES ASSUME SyncAlone PROVE Spec => []TotalIsOwed
  OBVIOUS
<1>1. Init => SyncsAlone /\ Accounted
  <2> SUFFICES ASSUME Init PROVE SyncsAlone /\ Accounted
    OBVIOUS
  <2>1. SyncsAlone
    BY DEF Init, SyncsAlone, NoJob
  <2>2. \A a \in Accounts : balance[a] = 0 /\ astray[a] = 0
    BY DEF Init
  <2>3. Total = 0 /\ Astray = 0 /\ owed = 0
    BY <2>2, FiniteAccounts, SumOfZeros DEF Init, Total, Astray
  <2> QED BY <2>1, <2>3 DEF Accounted
<1>2. IInv /\ IInv' /\ SyncsAlone /\ Accounted /\ [Next]_vars => SyncsAlone' /\ Accounted'
  BY StepSyncsAlone, StepAccounted
<1>3. IInv /\ Accounted => TotalIsOwed
  BY Totals
<1> QED BY <1>1, <1>2, <1>3, Invariance, PTL DEF Spec

=============================================================================
