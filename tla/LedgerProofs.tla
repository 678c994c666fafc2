---------------------------- MODULE LedgerProofs ----------------------------
(***************************************************************************)
(* Theorems about Ledger: every balance covers what is held of it, the     *)
(* answers callers get are the transactions of the table, and, for callers *)
(* that open the accounts first, the accounts are what the table says and  *)
(* the statements are those of AtomicLedger.                               *)
(***************************************************************************)
EXTENDS Ledger, Sums

\* What the methods of LedgerStorage pass to transfer.
LEMMA OpTypes ==
  ASSUME NEW op \in Ops
  PROVE  /\ op.source \in Accounts \cup {None} /\ op.destination \in Accounts \cup {None}
         /\ op.amount \in Nat /\ op.hold \in Int
         /\ Parties(op) \subseteq Accounts
  BY LedgerAssumption
     DEF Ops, Op, Credit, Debit, Lock, Unlock, Move, UnlockAndMove, UnlockAndDebit, Pairs,
         Parties

\* A statement in flight.
LEMMA StmtTypes ==
  ASSUME TypeOK, NEW p \in Clients, stmts[p].pc = "running"
  PROVE  /\ stmts[p].key \in Keys /\ stmts[p].op \in Ops
         /\ stmts[p].found \in Ops \cup {NoTx} /\ stmts[p].seen \subseteq Accounts
         /\ Found(p) \subseteq Accounts
  BY DEF TypeOK, Running, NoStmt, Found

\* The UPDATEs keep every balance covered when the constraints hold.
LEMMA UpdatesCover ==
  ASSUME TypeOK, NEW op \in Ops, NEW rows \in SUBSET Accounts,
         Covered(op, rows), UpdateRows(op, rows)
  PROVE  /\ balance' \in [Accounts -> Nat] /\ held' \in [Accounts -> Nat]
         /\ \A a \in Accounts : held'[a] <= balance'[a]
<1> SUFFICES ASSUME NEW a \in Accounts
             PROVE  balance'[a] \in Nat /\ held'[a] \in Nat /\ held'[a] <= balance'[a]
  BY DEF UpdateRows
<1>1. balance[a] \in Nat /\ held[a] \in Nat /\ held[a] <= balance[a]
  BY DEF TypeOK
<1>2. NewBalance(op, a) \in Int /\ NewHeld(op, a) \in Int
  BY <1>1, OpTypes DEF NewBalance, NewHeld, Moved, Kept
<1>3. CASE a \in rows
  BY <1>2, <1>3 DEF Covered, UpdateRows
<1>4. CASE a \notin rows
  BY <1>1, <1>4 DEF UpdateRows
<1> QED BY <1>3, <1>4

IInv == TypeOK /\ StmtsHonest /\ AnswersAreJournaled

LEMMA InitIInv == Init => IInv
  BY LedgerAssumption DEF Init, IInv, TypeOK, StmtsHonest, AnswersAreJournaled, NoStmt

\* The UPDATEs touch opened accounts only.
LEMMA UpdatesStayInside ==
  ASSUME IInv, NEW p \in Clients, stmts[p].pc = "running",
         UpdateRows(stmts[p].op, Found(p)), opened' = opened
  PROVE  \A a \in Accounts \ opened' : balance'[a] = 0
  BY StmtTypes DEF IInv, TypeOK, StmtsHonest, UpdateRows, Found

\* The statement of p ends; the others go on.
LEMMA EndsKeeps ==
  ASSUME TypeOK, NEW p \in Clients, Ends(p)
  PROVE  /\ accountsFirst' = accountsFirst
         /\ stmts[p].pc = "running"
         /\ stmts' \in [Clients -> Running \cup {NoStmt}]
         /\ \A q \in Clients : stmts'[q].pc = "running" => stmts'[q] = stmts[q]
  BY DEF TypeOK, Ends, NoStmt

\* A transaction, heard of or not: its accounts stay covered, its key was free.
LEMMA TransactsKeeps ==
  ASSUME IInv, NEW p \in Clients, Transacts(p)
  PROVE  /\ stmts[p].pc = "running" /\ opened' = opened
         /\ balance' \in [Accounts -> Nat] /\ held' \in [Accounts -> Nat]
         /\ \A a \in Accounts : held'[a] <= balance'[a]
         /\ \A a \in Accounts \ opened' : balance'[a] = 0
         /\ journal' \in [Keys -> Ops \cup {NoTx}]
         /\ journal'[stmts[p].key] = stmts[p].op
         /\ \A k \in Keys : journal[k] # NoTx => journal'[k] = journal[k]
<1> USE DEF IInv
<1>1. stmts[p].pc = "running" /\ opened' = opened
  BY DEF Transacts, Ends
<1>2. stmts[p].op \in Ops /\ stmts[p].key \in Keys /\ Found(p) \in SUBSET Accounts
  BY <1>1, StmtTypes
<1>3. PICK op \in Ops, rows \in SUBSET Accounts : op = stmts[p].op /\ rows = Found(p)
  BY <1>2
<1>4. Covered(op, rows) /\ UpdateRows(op, rows)
  BY <1>3 DEF Transacts
<1>5. /\ balance' \in [Accounts -> Nat] /\ held' \in [Accounts -> Nat]
      /\ \A a \in Accounts : held'[a] <= balance'[a]
  BY <1>4, UpdatesCover
<1>6. \A a \in Accounts \ opened' : balance'[a] = 0
  BY <1>1, UpdatesStayInside DEF Transacts
<1>7. /\ journal' \in [Keys -> Ops \cup {NoTx}] /\ journal'[stmts[p].key] = stmts[p].op
      /\ \A k \in Keys : journal[k] # NoTx => journal'[k] = journal[k]
  BY <1>2 DEF Transacts, TypeOK
<1> QED BY <1>1, <1>5, <1>6, <1>7

\* An account is opened.
LEMMA EnsureIInv ==
  ASSUME IInv, NEW a \in Accounts, EnsureAccount(a)
  PROVE  IInv'
BY DEF IInv, EnsureAccount, TypeOK, StmtsHonest, AnswersAreJournaled

\* A statement starts, of any call a service may make.
LEMMA BeginIInv ==
  ASSUME IInv, NEW p \in Clients, NEW r \in [key : Keys, op : Ops], Begin(p, r)
  PROVE  IInv'
<1> USE DEF IInv
<1>1. r.key \in Keys /\ r.op \in Ops
  OBVIOUS
<1>2. journal[r.key] \in Ops \cup {NoTx} /\ opened \in SUBSET Accounts
  BY <1>1 DEF TypeOK
<1> DEFINE new == [pc |-> "running", key |-> r.key, op |-> r.op, found |-> journal[r.key],
                   seen |-> opened]
<1>3. new \in Running
  BY <1>1, <1>2 DEF Running
<1>4. stmts'[p] = new /\ \A q \in Clients \ {p} : stmts'[q] = stmts[q]
  BY DEF Begin, TypeOK
<1>5. TypeOK'
  BY <1>3 DEF Begin, TypeOK, tables
<1>6. StmtsHonest'
  <2> SUFFICES ASSUME NEW q \in Clients, stmts'[q].pc = "running"
               PROVE  /\ stmts'[q].found # NoTx => journal[stmts'[q].key] = stmts'[q].found
                      /\ stmts'[q].seen \subseteq opened
                      /\ accountsFirst => Parties(stmts'[q].op) \subseteq stmts'[q].seen
    BY DEF StmtsHonest, Begin, tables
  <2>1. CASE q = p
    BY <1>4, <2>1 DEF Begin
  <2>2. CASE q # p
    BY <1>4, <2>2 DEF StmtsHonest
  <2> QED BY <2>1, <2>2
<1> QED BY <1>5, <1>6 DEF AnswersAreJournaled, Begin, tables

\* A statement ends: nothing is done to the transactions table, or there is one
\* transaction more.
LEMMA EndIInv ==
  ASSUME IInv, NEW p \in Clients, Step(p)
  PROVE  IInv'
<1> USE DEF IInv
<1>1. Ends(p)
  BY DEF Step, ReturnFound, Commit, CommitUnheard, Transacts, CommitPart, Short, KeyTaken,
              Aborts
<1>2. /\ accountsFirst' = accountsFirst
      /\ stmts[p].pc = "running"
      /\ stmts' \in [Clients -> Running \cup {NoStmt}]
      /\ \A q \in Clients : stmts'[q].pc = "running" => stmts'[q] = stmts[q]
  BY <1>1, EndsKeeps
<1>3. /\ stmts[p].key \in Keys /\ stmts[p].op \in Ops
      /\ stmts[p].found \in Ops \cup {NoTx} /\ Found(p) \in SUBSET Accounts
  BY <1>2, StmtTypes
<1>4. CASE ReturnFound(p)
  <2>1. TypeOK'
    BY <1>2, <1>3, <1>4 DEF ReturnFound, TypeOK, tables
  <2>2. StmtsHonest' /\ AnswersAreJournaled'
    BY <1>2, <1>3, <1>4 DEF ReturnFound, StmtsHonest, AnswersAreJournaled, tables
  <2> QED BY <2>1, <2>2
<1>5. CASE Commit(p)
  <2>1. Transacts(p) /\ UNCHANGED <<refused, faults>>
        /\ answers' = answers \cup {[key |-> stmts[p].key, tx |-> stmts[p].op]}
    BY <1>5 DEF Commit
  <2>2. TypeOK'
    BY <1>2, <1>3, <2>1, TransactsKeeps DEF TypeOK
  <2>3. StmtsHonest'
    BY <1>2, <1>3, <2>1, TransactsKeeps, StmtTypes DEF StmtsHonest
  <2>4. AnswersAreJournaled'
    BY <1>3, <2>1, TransactsKeeps, RequestsAssumption DEF AnswersAreJournaled, TypeOK
  <2> QED BY <2>2, <2>3, <2>4
<1>6. CASE CommitUnheard(p)
  <2>1. Transacts(p) /\ UNCHANGED <<answers, refused>> /\ faults' \in 0..MaxFaults
    BY <1>6, LedgerAssumption DEF CommitUnheard, TypeOK
  <2>2. TypeOK'
    BY <1>2, <1>3, <2>1, TransactsKeeps DEF TypeOK
  <2>3. StmtsHonest'
    BY <1>2, <1>3, <2>1, TransactsKeeps, StmtTypes DEF StmtsHonest
  <2>4. AnswersAreJournaled'
    BY <1>3, <2>1, TransactsKeeps, RequestsAssumption DEF AnswersAreJournaled, TypeOK
  <2> QED BY <2>2, <2>3, <2>4
<1>7. CASE CommitPart(p)
  <2>1. PICK op \in Ops, rows \in SUBSET Accounts : op = stmts[p].op /\ rows = Found(p)
    BY <1>3
  <2>2. Covered(op, rows) /\ UpdateRows(op, rows)
    BY <1>7, <2>1 DEF CommitPart
  <2>3. /\ balance' \in [Accounts -> Nat] /\ held' \in [Accounts -> Nat]
        /\ \A a \in Accounts : held'[a] <= balance'[a]
    BY <2>2, UpdatesCover
  <2>4. \A a \in Accounts \ opened' : balance'[a] = 0
    BY <1>2, <1>7, UpdatesStayInside DEF CommitPart
  <2>5. TypeOK'
    BY <1>2, <1>7, <2>3, <2>4 DEF CommitPart, TypeOK, Throws, Errors
  <2> QED BY <1>2, <1>7, <2>5 DEF CommitPart, StmtsHonest, AnswersAreJournaled
<1>8. CASE Short(p) \/ KeyTaken(p)
  <2>1. TypeOK'
    BY <1>2, <1>8 DEF Short, KeyTaken, TypeOK, Throws, Errors, tables
  <2> QED BY <1>2, <1>8, <2>1 DEF Short, KeyTaken, StmtsHonest, AnswersAreJournaled, tables
<1>9. CASE Aborts(p)
  <2>1. TypeOK'
    BY <1>2, <1>9, LedgerAssumption DEF Aborts, TypeOK, tables
  <2> QED BY <1>2, <1>9, <2>1 DEF Aborts, StmtsHonest, AnswersAreJournaled, tables
<1> QED BY <1>4, <1>5, <1>6, <1>7, <1>8, <1>9 DEF Step

LEMMA StepIInv == IInv /\ [Next]_vars => IInv'
<1> SUFFICES ASSUME IInv, [Next]_vars PROVE IInv'
  OBVIOUS
<1>1. CASE UNCHANGED vars
  BY <1>1 DEF vars, IInv, TypeOK, StmtsHonest, AnswersAreJournaled
<1>2. ASSUME NEW p \in Clients, NEW r \in Requests, Begin(p, r) PROVE IInv'
  BY <1>2, BeginIInv, RequestsAssumption
<1> QED BY <1>1, <1>2, EnsureIInv, EndIInv DEF Next

LEMMA Invariance == Spec => []IInv
  BY InitIInv, StepIInv, PTL DEF Spec

\* transfer and the CHECK constraints: every balance covers what is held of it,
\* whoever calls.
THEOREM TypeCorrect == Spec => []TypeOK
<1>1. IInv => TypeOK
  BY DEF IInv
<1> QED BY <1>1, Invariance, PTL

\* transfer's idempotency: the transaction a caller was given for a key is the one
\* of the table, for ever, whoever calls and whatever is lost.
THEOREM AnswersCorrect == Spec => []AnswersAreJournaled
<1>1. IInv => AnswersAreJournaled
  BY DEF IInv
<1> QED BY <1>1, Invariance, PTL

-----------------------------------------------------------------------------
(* Callers that open the accounts first *)

\* A transaction that finds its accounts is all of its operation.
LEMMA TransactsAll ==
  ASSUME IInv, NEW p \in Clients, Transacts(p), accountsFirst
  PROVE  \E k \in Keys, op \in Ops :
            /\ journal[k] = NoTx
            /\ journal' = [journal EXCEPT ![k] = op]
            /\ \A a \in Accounts : 0 <= NewHeld(op, a) /\ NewHeld(op, a) <= NewBalance(op, a)
            /\ balance' = [a \in Accounts |-> NewBalance(op, a)]
            /\ held' = [a \in Accounts |-> NewHeld(op, a)]
            /\ accountsFirst' = accountsFirst
<1>1. stmts[p].pc = "running" /\ TypeOK
  BY DEF Transacts, Ends, IInv
<1>2. PICK k \in Keys, op \in Ops : k = stmts[p].key /\ op = stmts[p].op
  BY <1>1, StmtTypes
<1>3. Found(p) = Parties(op) /\ Covered(op, Parties(op)) /\ UpdateRows(op, Parties(op))
      /\ journal[k] = NoTx /\ journal' = [journal EXCEPT ![k] = op]
  BY <1>2 DEF Transacts
<1>4. \A a \in Accounts : a \notin Parties(op) => a # op.source /\ a # op.destination
  BY LedgerAssumption DEF Parties
<1>5. \A a \in Accounts : balance[a] \in Nat /\ held[a] \in Nat /\ held[a] <= balance[a]
  BY <1>1 DEF TypeOK
<1>6. \A a \in Accounts \ Parties(op) : NewBalance(op, a) = balance[a] /\ NewHeld(op, a) = held[a]
  BY <1>4, <1>5 DEF NewBalance, NewHeld, Moved, Kept
<1>7. \A a \in Accounts : 0 <= NewHeld(op, a) /\ NewHeld(op, a) <= NewBalance(op, a)
  BY <1>3, <1>5, <1>6 DEF Covered
<1>8. /\ balance' = [a \in Accounts |-> NewBalance(op, a)]
      /\ held' = [a \in Accounts |-> NewHeld(op, a)]
  BY <1>3, <1>6 DEF UpdateRows
<1>9. accountsFirst' = accountsFirst
  BY DEF Transacts, Ends
<1> QED BY <1>3, <1>7, <1>8, <1>9

\* So every step is a whole transaction or leaves the tables it is about alone.
LEMMA StepsTransact ==
  ASSUME IInv, [Next]_vars, accountsFirst
  PROVE  (\E p \in Clients : Transacts(p)) \/ UNCHANGED <<balance, held, journal>>
<1>1. ASSUME NEW p \in Clients PROVE ~CommitPart(p)
  <2> SUFFICES ASSUME CommitPart(p) PROVE FALSE
    OBVIOUS
  <2>1. stmts[p].pc = "running"
    BY DEF CommitPart, Ends
  <2>2. Found(p) = Parties(stmts[p].op)
    BY <2>1 DEF IInv, StmtsHonest, Found
  <2> QED BY <2>2 DEF CommitPart
<1> QED
  BY <1>1
     DEF Next, Step, EnsureAccount, Begin, ReturnFound, Commit, CommitUnheard, Short, KeyTaken,
         Aborts, vars, tables

\* Callers do not change their ways.
LEMMA WaysStay == [Next]_vars => accountsFirst' = accountsFirst
  BY DEF Next, Step, EnsureAccount, Begin, ReturnFound, Commit, CommitUnheard, Transacts,
         CommitPart, Short, KeyTaken, Aborts, Ends, vars

-----------------------------------------------------------------------------
(* The accounts are what the transactions table says *)

\* There are so many transactions as to be added up.
Explained == accountsFirst => IsFiniteSet(Done) /\ JournalExplains

LEMMA InitExplained == Init => Explained
<1> SUFFICES ASSUME Init PROVE Explained
  OBVIOUS
<1>1. Done = {}
  BY DEF Init, Done
<1>2. \A a \in Accounts : balance[a] = 0 /\ held[a] = 0
  BY DEF Init
<1> HIDE DEF Done
<1> QED BY <1>1, <1>2, SumOfNone, FS_EmptySet DEF Explained, JournalExplains

\* What was moved and held by the transactions of the table are integers.
LEMMA MovedInt ==
  ASSUME NEW op \in Ops, NEW a \in Accounts
  PROVE  Moved(op, a) \in Int /\ Kept(op, a) \in Int
  BY OpTypes DEF Moved, Kept

\* A transaction more.
LEMMA TransactionAdds ==
  ASSUME TypeOK, Explained, accountsFirst, NEW k \in Keys, NEW op \in Ops,
         journal[k] = NoTx, journal' = [journal EXCEPT ![k] = op],
         balance' = [a \in Accounts |-> NewBalance(op, a)],
         held' = [a \in Accounts |-> NewHeld(op, a)]
  PROVE  Explained'
<1>1. op # NoTx /\ journal'[k] = op /\ \A j \in Keys \ {k} : journal'[j] = journal[j]
  BY RequestsAssumption DEF TypeOK
<1>2. Done' = Done \cup {k} /\ k \notin Done /\ Done \subseteq Keys
  BY <1>1 DEF Done
<1>3. IsFiniteSet(Done) /\ IsFiniteSet(Done')
  BY <1>2, FS_AddElement DEF Explained
<1>4. ASSUME NEW j \in Done' PROVE journal'[j] \in Ops
  BY <1>1, <1>2, <1>4 DEF Done, TypeOK
<1>5. ASSUME NEW a \in Accounts
      PROVE  /\ balance'[a] = SumFunctionOnSet([j \in Done' |-> Moved(journal'[j], a)], Done')
             /\ held'[a] = SumFunctionOnSet([j \in Done' |-> Kept(journal'[j], a)], Done')
  <2> DEFINE moved == [j \in Done |-> Moved(journal[j], a)]
             kept == [j \in Done |-> Kept(journal[j], a)]
             movedNow == [j \in Done' |-> Moved(journal'[j], a)]
             keptNow == [j \in Done' |-> Kept(journal'[j], a)]
  <2>1. \A j \in Done' : movedNow[j] \in Int /\ keptNow[j] \in Int
    BY <1>4, MovedInt
  <2>2. \A j \in Done : movedNow[j] = moved[j] /\ keptNow[j] = kept[j]
    BY <1>1, <1>2
  <2>3. movedNow[k] = Moved(op, a) /\ keptNow[k] = Kept(op, a)
    BY <1>1, <1>2
  <2>4. balance[a] = SumFunctionOnSet(moved, Done) /\ held[a] = SumFunctionOnSet(kept, Done)
    BY DEF Explained, JournalExplains
  <2> HIDE DEF moved, kept, movedNow, keptNow
  <2>5. /\ SumFunctionOnSet(movedNow, Done) = SumFunctionOnSet(moved, Done)
        /\ SumFunctionOnSet(keptNow, Done) = SumFunctionOnSet(kept, Done)
    BY <1>3, <2>2, SumSame
  <2>6. /\ SumFunctionOnSet(movedNow, Done') = Moved(op, a) + SumFunctionOnSet(movedNow, Done)
        /\ SumFunctionOnSet(keptNow, Done') = Kept(op, a) + SumFunctionOnSet(keptNow, Done)
    BY <1>2, <1>3, <2>1, <2>3, SumAdds
  <2>7. balance'[a] = balance[a] + Moved(op, a) /\ held'[a] = held[a] + Kept(op, a)
    BY DEF NewBalance, NewHeld
  <2>8. balance[a] \in Int /\ held[a] \in Int /\ Moved(op, a) \in Int /\ Kept(op, a) \in Int
    BY MovedInt DEF TypeOK
  <2> QED BY <2>4, <2>5, <2>6, <2>7, <2>8 DEF movedNow, keptNow
<1> QED BY <1>3, <1>5 DEF Explained, JournalExplains

LEMMA StepExplained == IInv /\ Explained /\ [Next]_vars => Explained'
<1> SUFFICES ASSUME IInv, Explained, [Next]_vars PROVE Explained'
  OBVIOUS
<1>1. accountsFirst' = accountsFirst
  BY WaysStay
<1>2. CASE ~accountsFirst
  BY <1>1, <1>2 DEF Explained
<1>3. CASE accountsFirst
  <2>1. CASE UNCHANGED <<balance, held, journal>>
    BY <1>1, <2>1 DEF Explained, JournalExplains, Done
  <2>2. ASSUME NEW p \in Clients, Transacts(p) PROVE Explained'
    BY <1>3, <2>2, TransactsAll, TransactionAdds DEF IInv
  <2> QED BY <1>3, <2>1, <2>2, StepsTransact
<1> QED BY <1>2, <1>3

\* The sum of the table: for callers that open the accounts first no funds move without
\* a transaction, and none move twice for one, whoever calls and whatever is lost.
THEOREM JournalCorrect == Spec => []JournalExplains
<1>1. Explained => JournalExplains
  BY DEF Explained, JournalExplains
<1> QED BY <1>1, InitExplained, StepExplained, Invariance, PTL DEF Spec

-----------------------------------------------------------------------------
(* The refinement of AtomicLedger *)

\* transfer is "atomic" and idempotent for callers that open the accounts first:
\* its statements are those of AtomicLedger.
THEOREM AtomicCorrect == Spec => AtomicSpec
<1>1. Init => A!Init
  BY DEF Init, A!Init
<1>2. IInv /\ [Next]_vars => [A!Next]_A!vars
  <2> SUFFICES ASSUME IInv, [Next]_vars PROVE A!Next \/ UNCHANGED A!vars
    OBVIOUS
  <2>1. accountsFirst' = accountsFirst
    BY WaysStay
  <2>2. CASE ~accountsFirst
    BY <2>1, <2>2 DEF A!vars
  <2>3. CASE accountsFirst
    <3>1. ASSUME NEW p \in Clients, Transacts(p) PROVE A!Next
      <4>1. PICK k \in Keys, op \in Ops :
              /\ journal[k] = NoTx
              /\ journal' = [journal EXCEPT ![k] = op]
              /\ \A a \in Accounts : 0 <= NewHeld(op, a) /\ NewHeld(op, a) <= NewBalance(op, a)
              /\ balance' = [a \in Accounts |-> NewBalance(op, a)]
              /\ held' = [a \in Accounts |-> NewHeld(op, a)]
        BY <2>3, <3>1, TransactsAll
      <4>2. \A a \in Accounts : A!NewBalance(op, a) = NewBalance(op, a) /\ A!NewHeld(op, a) = NewHeld(op, a)
        BY <2>3 DEF A!NewBalance, A!NewHeld, NewBalance, NewHeld, A!Moved, A!Kept, Moved, Kept
      <4>3. A!Apply(k, op)
        BY <2>1, <2>3, <4>1, <4>2 DEF A!Apply
      <4> QED BY <4>3 DEF A!Next
    <3> QED BY <2>1, <2>3, <3>1, StepsTransact DEF A!vars
  <2> QED BY <2>2, <2>3
<1> QED BY <1>1, <1>2, Invariance, PTL DEF AtomicSpec, A!Spec, Spec
=============================================================================
