# Formal models of the FinP2P Node.js skeleton adapter

This directory holds TLA+ models of the adapter, TLC configurations that check
them on small instances, and TLAPS proofs of their main properties for every
value of the constants. Paths below are relative to the repository's root.

## 1. The system

An adapter connects a ledger to a FinP2P router. The router calls it over HTTP;
the adapter runs operations on the ledger and reports their outcome by callback
or when polled.

| Component | Where | State | Operations |
|---|---|---|---|
| Asynchronous operations | `skeleton/src/workflows/service.ts`, `storage.ts` | `operations` table (cid, method, inputs, status, outputs); the `ready` promise; calls and background runs | proxied calls, `operationStatus`, recovery at start, `finalize` |
| Migrations | `skeleton/src/workflows/migrator.ts`, `storage/config.ts` | schema version tables | `migrateIfNeeded` |
| Routes and API mapping | `skeleton/src/routes/` | none | one handler per endpoint, one service call each |
| Plan approval | `skeleton/src/services/plan/`, `plugins/` | none of its own; the plan is fetched from the router | `approvePlan`, `proposeCancelPlan`, `proposeResetPlan`, `proposeInstructionApproval`, `proposalStatus` |
| Payments, proofs, signatures | `skeleton/src/services/payments`, `proof`, `verify.ts` | none | forward to a plugin; build or verify one signature |
| Account mappings | `skeleton/src/storage/accounts.ts`, `vanilla-service/src/service.ts` | `account_mappings` (finId, field, value) | save, delete, look up |
| Vanilla ledger storage | `vanilla-service/src/storage.ts` | `accounts` (balance, held), `transactions` (journal) | `ensureAccount`, `credit` ... `unlockAndDebit` (all `transfer`), `setBalance`, `syncOmnibusBalance`, queries |
| Vanilla token and escrow service | `vanilla-service/src/service.ts` | none of its own: the ledger storage and external delegates | `issue`, `transfer`, `redeem`, `hold`, `release`, `rollback`, inbound transfer hook |
| Vanilla distribution | `vanilla-service/src/service.ts` | the omnibus account | `syncOmnibus`, `distribute`, `reclaim`, `flushDistributions` |
| Sample adapter | `sample-adapter/src/` | in-memory balances, holds, receipts | the token and escrow interfaces |
| FinP2P client | `finp2p-client/src/` | none | one HTTP request per method; three polling loops |

**How they interact.** A route takes the `idempotency-key` header and calls a
service. The service is a proxy (`createServiceProxy`): the call saves a row for
(method, inputs), answers `pending` with the row's correlation id and goes on in
the background. The real method (vanilla service, sample adapter, plan approval)
changes the ledger by statements keyed by the same idempotency key. `finalize`
writes the outcome to the row and then tells the router through the client. After
a crash the rows still `in_progress` are executed again, which is why the ledger
must be idempotent.

**What is hard.** Calls, recovery queries and background runs interleave at every
`await`; the process may die between any two of them; a statement may commit and
its acknowledgement be lost; recovery uses rows read some time ago; a Postgres
statement works on a snapshot taken before it holds the lock it asks for; clients
repeat requests. `PROJECT.json` lists every such hazard at its line.

**What makes each part correct.**

- *Operations*: a repeated request is answered about one operation; an operation
  has one outcome; nothing is told that is not stored; nothing pending is stranded.
- *Ledger storage*: funds move once per key, both sides or neither; balances are
  explained by the journal; no overdraft.
- *Vanilla service*: an outbound transfer is made only while the funds are locked;
  what the delegate did and what the ledger says agree; a hold is used once.
- *Distribution*: the omnibus account and the investors together have what the chain
  had when it was last read; a caller is told what was moved.
- *Plan approval*: funds are credited for what was received and verified, once; an
  approved plan is prepared; a plugin hears of ends the plan has come to, and of no other.
- *Sample adapter*: receipts explain balances; what is held comes back, once.
- *Account mappings*: a save that was answered is what lookups find.
- *Client*: a flow that resolves has been done, every call ends, and an execution pays
  who gives the asset.

## 2. Modules

| Module | Content |
|---|---|
| `Workflows` | the operation layer: table, proxy, recovery, runs, crashes |
| `Registry` | what the operation layer promises, without processes |
| `MCWorkflows` | small instances for TLC |
| `WorkflowsProofs` | theorems about `Workflows`: whatever the timing, and for clients that wait for recovery |
| `Ledger` | `LedgerStorage.transfer` as two steps under READ COMMITTED |
| `AtomicLedger` | what the ledger promises: one atomic step per key |
| `MCLedger` | small instances for TLC |
| `LedgerProofs` | theorems about `Ledger` |
| `Sums` | lemmas about sums over finite sets, which the proofs about funds share |
| `VanillaService` | the token and escrow methods over an instance of `Ledger`, with delegates, crashes and repeated runs |
| `MCVanillaService` | small instances for TLC |
| `VanillaServiceProofs` | theorems about `VanillaService` |
| `Distribution` | syncs, distributions, reclaims and flushes over an instance of `Ledger`, with imports to the router |
| `MCDistribution` | small instances for TLC |
| `DistributionProofs` | theorems about `Distribution` |
| `PlanApproval` | the plan approval service with its plugin and the inbound transfer hook |
| `MCPlanApproval` | small plans and setups for TLC |
| `PlanApprovalProofs` | theorems about `PlanApproval` |
| `ClientFlows` | the flows of the client, and its waits |
| `MCClientFlows` | small instances for TLC |
| `ClientFlowsProofs` | theorems about `ClientFlows` |
| `InMemoryLedger` | the ledger of the sample adapter |
| `AccountMapping` | saves, deletes and lookups of account mappings |
| `SampleAdapter` | the two, as the sample adapter puts them together |
| `MCSampleAdapter` | small instances for TLC |
| `SampleAdapterProofs` | theorems about `SampleAdapter` |

Definitions marked `(Slip)` in a module are not part of its model. Each is the definition
that follows it with one plausible mistake in it, and makes a property fail when it is
put in the place of that definition.

### Workflows

One action is one SQL statement, or what Node does between two awaits.

| State | Code |
|---|---|
| `phase` | the process and its `ready` promise: down, migrating, ready, broken (`ready` rejected) |
| `ops` | the `operations` table |
| `calls` | the async function the proxy returns, at its two awaits |
| `fetch`, `fetched` | the query of `getPendingOperations` of each method, and its rows |
| `tasks` | runs of `executeAndFinalize`: `live` from the proxy, `replay` from recovery |
| `unstarted` | rows whose INSERT was committed and not acknowledged, or came late |
| `lateInserts`, `lateUpdates` | statements on their way to Postgres whose sender is gone |
| `replies`, `notices`, `written` | history: answers, callbacks and polls, outcomes stored |

| Action | Code (`service.ts`) |
|---|---|
| `Start`, `MigrationSucceeds`, `MigrationFails` | `migrationJob().then(...)`, 212-228 |
| `AnswerFetch`, `FetchFails`, `Replay` | 219-226: the query runs, fails, or its rows arrive and their methods start |
| `ClientCalls`, `CallRejected` | 258-259 |
| `SaveInserts`, `SaveFindsRow`, `SaveFails`, `SaveAckLost` | 264-270 and `saveOperation` |
| `LaunchAndReply`, `ReplyDuplicate` | 272-282 |
| `PollStatus` | 234-246 |
| `MethodEnds` | 194, 197-198: the method returns or throws |
| `Persist`, `PersistFails`, `PersistAckLost` | 145-150 and `completeOperation` |
| `SendCallback`, `ConversionThrows` | 151-177, and the catch of 196-200 |
| `Crash` | the process is killed; the table stays, and what it had sent may still arrive |
| `InsertArrives`, `UpdateArrives` | `saveOperation` (93) or `completeOperation` (122) executed for a sender that is gone: the process died or the connection was lost |

Inputs are abstracted to a request, outputs to a type and a reference (a receipt
or a correlation id); `approved` and `rejected` are success and failure. A method
may return any result at each execution: nothing is assumed of the services. A
row of the table never goes away, as in the code.

Three CONSTANTS state conditions the code does not enforce. `QuietStart` says that
clients call only when every recovery query has been used; `LateStatements` that a
statement may be executed after its sender is gone; `Unmappable` is the set of receipts
on which `operationStatusToAPI` throws. The strong properties (one run, final outcomes,
notices that stay true, the refinement) need `QuietStart`, `~LateStatements` and
`Unmappable = {}`. With `QuietStart = FALSE` the run `WorkflowsRace` shows what goes
wrong; the code's readiness probe only pings, so nothing makes clients wait. With late
statements an UPDATE of a process that is gone overwrites what recovery has settled, and
an INSERT executed after the recovery query waits for another restart, its row with
nobody to run it (`unstarted`). The properties of `WorkflowsOpen` hold with them.

### Ledger

`transfer` is one statement: CTEs for the advisory lock, the look-up of the key
(`found_tx`), the two UPDATEs and the INSERT. Under READ COMMITTED all of them
share the snapshot taken when the statement starts, before the advisory lock is
granted; the UPDATEs re-read the latest version of the rows they found. So a
statement is `Begin` (the snapshot: the transaction of the key, the accounts that
exist) followed by one outcome:

| Action | Code (`storage.ts`, `transfer`) |
|---|---|
| `ReturnFound` | `found_tx` has a row: it is returned |
| `Commit`, `CommitUnheard` | both UPDATEs and the INSERT commit; the answer may be lost |
| `CommitPart` | one party has no row: the other's UPDATE commits, `transfer` throws |
| `Short` | a CHECK constraint fails |
| `KeyTaken` | the unique index on the key refuses the INSERT |
| `Aborts` | a deadlock, or a connection lost before the commit |

`Found`, `Covered`, `NewBalance` and `NewHeld` are the WHERE clauses, the CHECK
constraints and the SET clauses. Accounts are those of one asset. A key and an
operation make a request; the same key may come with different operations, since
the index covers the key alone. The account name `''` for no party becomes `None`.

`accountsFirst` says that callers ensure both accounts before they move funds, which
the code leaves to them: the vanilla service does so for the destination only. It is
chosen at the start among `AccountsFirst` and does not change. Where it is false
nothing is claimed of atomicity (finding 2).

### VanillaService

A method of the service is a sequence of statements and delegate calls, so a run is
a place in that sequence (`runs[p].pc`) on a connection `p`. `First`,
`AfterStatement` and `AfterDelegate` are the sequence of each method: what it does
first, after a statement has returned, and after its delegate has answered.
`Ledger` is instantiated with keys `<<job, step>>`, where a step is one of the key's
suffixes (`:hold`, `:unlock`, `:debit`, or none), and keeps all its actions.

| Action | Code |
|---|---|
| `Serve`, `Recover` | the proxy starts a method; recovery starts it again |
| `Ensure`, `Send` | `ensureAccount`; the next statement of the method |
| `Returns`, `Throws` | the statement's promise is resolved or rejected |
| `DelegateAnswers`, `DelegateThrows` | `outboundTransfer`, `hold`, `release`, `rollback` of the delegates |
| `Finish` | `finalize` stores the outcome |
| `Crash`, `Orphaned`, `Restart` | the process dies; the database ends its statements; the process is back |

`sent` and `denied` are what delegates have done outside. A setup says which delegates
there are and what may go wrong: `steadfast`, that a delegate asked again with the same
key answers the same, which no code here ensures; `outlives`, that a statement may still
be running in the database when the process is back; `faults`, that statements are lost
and delegates throw; and which requests the router may send. The router sends each request
once and uses a hold for no more than it held (`Legal`, `Claimed`), as plans do; the
service itself never checks this. The
races of `Workflows` (finding 1) are left out: a job has one run at a time.

### Distribution

The distribution service keeps one omnibus account for funds that are on the chain and
not yet an investor's. A job serves one request of its REST interface; `Ledger` is
instantiated once more, a job being a client with one statement in flight.

| Action | Code |
|---|---|
| `Serve` | `routes.ts`: a request arrives; the jobs share nothing but the database |
| `Ensure`, `ListAccounts`, `SendsNothing`, `Send`, `Moved`, `Threw` | `distribute`, `reclaim`, `flushDistributions` (`service.ts` 405-429): each await, and `move` refusing equal accounts |
| `Import` | `importTransaction`: the router imports the transaction or does not; errors are only logged |
| `ReadChain`, `ReadFails`, `SumDistributed`, `SetOmnibus`, `SetFails` | `syncOmnibus` and `syncOmnibusBalance`: the delegate, then the snapshot and the UPDATE of one statement |
| `ChainMoves` | somebody pays into or out of the omnibus account on the chain |
| `Crash`, `Orphaned` | the process dies, and the database ends what it had |

`owed` and `astray` are history: the balance last synced with what was issued since, and
what statements that threw did to the accounts. `SyncAlone` says that nothing is moved
while a sync runs, which nothing ensures; the run `DistributionSync` does without it.

### PlanApproval

| State | Code |
|---|---|
| `plan`, `events`, `status` | the execution at the router, which moves on, is reset and retried meanwhile |
| `received`, `ended` | history: the instructions that ever had a receipt, the ends the plan ever came to |
| `requests` | the calls of the five methods, each with what it fetched |
| `opened`, `verified`, `journal`, `funds` | the accounts the hook opened, what the transfer delegate verified, the transaction of each key, and the funds credited |
| `told` | the ends the plugin was told of |

| Action | Code (`services/plan/service.ts`) |
|---|---|
| `Completes`, `Advances`, `Resets`, `Serve` | the router |
| `AnswersAtOnce`, `FetchThrows`, `NotFound`, `Fetch` | no client, hook or plugin; `fetchExecution` and the conversion of the contract |
| `Approves`, `Prepares`, `PrepareThrows`, `LooksAt`, `PluginAnswers`, `LooksOn` | the loop of `validatePlan`, 192-263 |
| `Unlisted`, `NothingInbound`, `Verifies`, `VerifyThrows`, `CreditsAccount`, `CreditThrows` | `proposeInstructionApproval` and `onInboundTransfer` of the vanilla service |
| `Tells` | `proposalStatus` |
| `Finish`, `Crash` | the outcome is stored; the process dies, and what was pending runs again from the start, a status call excepted since it has no row |

A setup says which of client, hook and plugin there is, whether the delegate verifies,
and whether the router proposes an instruction under one key. Where it does not, an
instruction is credited once per key.

`proposeResetPlan` approves every reset and does nothing else (`AnswersAtOnce`); what it
leads to happens at the router, whose API says that a plan is reset to the proposed
sequence and retried from there once all participants approve
(`finp2p-client/apis/application-api.base.yaml`, `/tokens/execute/reset`). `Resets` does
that: a plan with a reset this adapter has approved (`Granted`) goes back to `approved`,
from any end, and the events of that instruction and of those behind it are gone. It may
do so any number of times for one approval, which is more than the API says and leaves
out nothing. So a plan may end twice, and its plugin be told that it failed and, later,
that it completed; `ToldItsEnds` claims that it is told of nothing else. With one key for
an instruction a retry credits nothing again (`CreditedOnce`); with another key it does.

A plugin may put its answer off: `validatePlan` returns `pending` as it is, the row stays
`in_progress`, nothing in this process continues it, and a crash runs it again.

### ClientFlows

A call of a flow is a record that goes from `sent` to `answered`, perhaps `poll`, `body`,
and `resolved` or `rejected`; a wait stays at `look`. The router makes what it is asked
for at once or later, or answers with an error or nothing; `heard = FALSE` is a
connection that fails before the answer arrives.

| Definitions | Code |
|---|---|
| `createPrimarySale` ... `createRequestForTransferIntent`, `executePrimarySale` ... `executeRequestForTransferIntent` | the flows of the same names in `flows.ts`: who is named on which side of which leg, and whose binding is used; assets and amounts are not told apart |
| `Starts`, `Refuses` | the checks of parameters; `Sufficient` is `requireSettlementAsset` and `requireSettlementOrgId` |
| `Serves`, `Defers`, `Declines`, `Completes`, `CompletesWithErrors` | the router |
| `Unwraps`, `ReadsCompleted`, `TimesOut`, `Elapses`, `ReadThrows` | `unwrapOperation` and `waitForOperationCompletion` |
| `AsksForAccount`, `ReturnsId`, `ReturnsAnyway` | what each flow does with the body |
| `LooksAtPlan`, `LooksAtBalance`, `LookFails`, `GivesUp` | the two loops of `client.ts`, 251-346 |

### InMemoryLedger, AccountMapping, SampleAdapter

The sample adapter's ledger has one await in each method, that of the proof of the
receipt; up to there a method is one step. `createAsset` ... `rollback` are the seven
methods, `BusinessError` is any of them throwing, which `hold` does with its record
saved; `ledgerProof` is the provider answering or failing. `Crash` ends the memory while
the operations table keeps its rows: those that were pending run again on an empty
ledger. Quantities are in halves, and `parseInt` drops the half, as the code does with
what follows the point; "0" and "0.5" move nothing and still need an account to be there
(`known`). That recovery may run a completed operation again is shown in `Workflows`
(finding 1) and not repeated here. `held` of a balance is always `0.00` in this code and
so is not modelled, and neither are quantities that are not numbers.

The router may ask anything of its type at any time (`Askable`; a run takes a subset of
it, `Asked`): a hold made twice or by another account, settled for more or less than it
holds, by somebody else, or never made. The methods credit what the request names and
drop the record of the hold without comparing the two (`escrow.ts` 60-62 and 84-86), so
a larger settlement creates funds and a smaller one loses the rest. `HeldComesBack` is
therefore about the operations for which all quantities named agree (`OneQuantity`).

A save of a mapping is one `SaveField` per field, each its own statement, whose answer may
be lost; `deleteAccount` is one statement; `Arrives` is a statement still executed after
the process died or the connection was lost and the call rejected. The lookups are single SELECTs and thus functions of the table.
`caseSensitive` is the option of the service, chosen at the start; the vanilla service
always lowercases. Deleting one field has no caller outside the tests.

Nothing on the ledger reads a mapping and neither changes the other, so a behaviour of
`SampleAdapter` shows one of the two, chosen at the start by `mapping`.

## 3. Runs

| Run | Expect | Shows | Bounds |
|---|---|---|---|
| `WorkflowsOpen` | pass | `TypeOK`, `AnswersNameOneOperation`, `NoticesArePersisted`, `PendingRowsAreOwned`, with any client timing | 1 request, 2 cids, 2 calls, a receipt that does not convert (failures and deferred answers do), late statements, 1 crash, 1 fault; 1.5 million states |
| `WorkflowsQuiet` | pass | `OneRunPerOperation`, `NoticesStayTrue`, `OutcomeIsFinal`, `CompletedNotReexecuted`, `RegistrySpec` (refinement of `Registry`) and `PendingRowsSettle` (liveness) under `QuietStart` and `~LateStatements` | 1 request, 2 methods to recover, 2 cids, 2 calls, 2 receipts, 2 crashes, 2 faults, no symmetry; 257 thousand states |
| `WorkflowsRace` | violation | `CompletedNotReexecuted` when clients do not wait | no crash and no fault needed |
| `LedgerAtomic` | pass | `TypeOK`, `AnswersAreJournaled` for any caller; `JournalExplains`, `AtomicSpec` for callers that open accounts | 2 accounts, 5 keys of which one is used for two operations, 2 statements in flight, 1 fault; 155 thousand states |
| `LedgerMissing` | violation | `RefusedMovesNothing`: a refused transfer moves funds | no fault |
| `Vanilla` | pass | `TypeOK`, `SuccessIsBacked` in every setup; `OutcomesAreTrue`, `LocksUsedOnce`, `LockedFundsAreThere` in the calm ones | three setups: a rough one (2 faults, a delegate that changes its mind, statements that outlive the process), one with steadfast delegates and a hold used in three ways, one without delegates; 2 connections, 1 crash; 229 thousand states |
| `Distribution` | pass | `TypeOK`, `TotalIsOwed`, `RepliesAreTrue`, `ImportsWereMade` while nothing moves during a sync | 2 investors, 3 requests out of 8, an on-chain balance up to 2, an omnibus account that is not there at first, 1 fault, 1 crash; 304 thousand states |
| `DistributionSync` | violation | `TotalIsOwed` when a distribution runs beside a sync | no fault, no crash |
| `PlanApproval` | pass | `TypeOK`, `CreditsAreBacked`, `CreditedOnce`, `ApprovedIsCredited`, `ApprovedIsPrepared`, `ToldItsEnds` | 2 requests of any kind, 6 plans of up to 2 instructions, 5 setups, any number of resets, 1 crash; 4.0 million states |
| `ClientFlows` | pass | `TypeOK`, `ResolvedUnlessFailed`, `ChangesAreHeard`, `PaidByTaker`, `ExecutedAsIntended`, `CallsEnd` (liveness) | 2 calls of any flows, every kind of intent, 2 looks; 179 thousand states |
| `ClientFlowsFailed` | violation | `ResolvedIsDone`: an update that failed resolves | as above |
| `SampleAdapter` | pass | `TypeOK`, `ReceiptsExplainBalances`, `HeldComesBack`, `SavedIsFound`, `MixedOnlyByOverlap` | 4 requests out of 14 about 2 accounts and 1 hold, quantities 2.5 and 1.5 less 1, 1 crash; 3 saves or deletes about 2 fields, 1 crash; 580 thousand states |

**Why the bounds are enough.** In `Workflows` rows of different requests meet only
in the recovery query of their method and in the choice of a correlation id, and
one request called twice shows the race on its row; that nothing changes with more
requests is what the theorems of section 5 say. A crash separates two lives of the
process; two crashes let a replay itself be replayed. One fault hits every statement
in turn. In `Ledger` two statements in flight are a race, and a third only repeats it;
the amounts 1 and 2 allow a hold of part of a balance; `MaxFunds` bounds only what
`CommitPart` creates, which the journal does not limit. In `VanillaService` two
connections interleave any two methods; three jobs that share one hold are enough to
use it too often. In `Distribution` three requests are a sync, something that moves
funds before it and something beside it; two investors let a flush fail between them.
In `PlanApproval` two requests about one instruction, or about the plan and its
instruction, are all that can meet; an instruction after another is enough for
`validatePlan` to stop early. That a plugin is told of two ends takes a third request,
the reset between two status calls: the run shows each call beside a reset, the theorem
any number of them. In `ClientFlows` the second call executes the intent of
the first or waits for its plan, and two looks show a change between them. In
`SampleAdapter` the four requests are an issue, a hold, and two that settle it, or a hold
refused and repeated for another quantity or by another account; two saves that overlap and one more that follows mix two fields.

**Deadlock** is checked in every run of `Workflows` and `Ledger`. The other components
have a finite set of requests and stop when all are served.

**Fairness.** `FairSpec` of `Workflows` assumes weak fairness of the process (the
supervisor restarts it and migrations end), of each recovery query, of each call and of
each run: Node resumes an awaited promise and Postgres answers or fails. `PendingRowsSettle`
excepts the rows abandoned by a failure that `LeftBehind` lists. `Spec` of `ClientFlows`
assumes that a request is answered or its connection fails, that the clock moves and that
the event loop runs; not that a deferred operation ever completes nor that a read fails,
so that it is the timeout that ends a call. Nothing is assumed of clients or crashes;
a bounded number of crashes is a bound of the model. Symmetry is used in safety runs only.

## 4. Findings

1. **Recovery may execute a completed operation again** (`WorkflowsRace`).
   `ready` does not wait for the recovery queries, and `Replay` does not look at
   the row again. A call served in between is executed twice, its outcome may be
   replaced, and the router be told two things. The test at
   `skeleton/tests/workflows/crash-recovery.test.ts:278` promises the contrary.
2. **A transfer refused for a missing account has moved funds** (`LedgerMissing`).
   The UPDATE of the party that exists is committed with no transaction, where the
   comment at `vanilla-service/src/storage.ts:251` says atomic. It is reached by
   `distribute` before the omnibus account has ever been synced, and by `transfer` from
   an account that was never opened.
3. **A sync overwrites a distribution that commits while it waits** (`DistributionSync`).
   `syncOmnibusBalance` sums what the investors have on the snapshot it took before it
   was granted the advisory lock, and sets the omnibus balance from that. The comment at
   `vanilla-service/src/storage.ts:203` says the lock serializes the two.
4. **An update that failed resolves** (`ClientFlowsFailed`). `unwrapOperation` returns the
   response of any completed operation, which holds the errors when it failed;
   `updateAsset` and `createOwner` do not look at it, where `finp2p-client/src/flows.ts:53`
   speaks of the success body.

Seen while modelling, and allowed for in the properties named:

- A lost acknowledgement of the UPDATE in `finalize` loses the callback: the row is
  terminal and no restart replays it, although the comment at
  `skeleton/src/workflows/service.ts:86` says so (`NoticesArePersisted` claims no more).
- A key in use by one method is not refused to another by the operations table, while the
  ledger answers it with the first transaction (`AnswersAreJournaled`). A second statement
  with a key in flight is refused by the unique index, not answered (`KeyTaken`).
- When the process dies after the unlock of a transfer and before its outcome is stored,
  the second run calls the delegate with nothing locked; a delegate that then changes its
  answer makes outcomes false (`OutcomesAreTrue` needs `steadfast`).
- An `InboundTransferVerificationError` is not caught, although
  `vanilla-service/src/interfaces.ts:33` says it is: the approval fails (`VerifyThrows`).
- With a plugin, `validatePlan` returns its answer for the first instruction it validates
  and looks at no other (`Unseen` in `ApprovedIsPrepared`). Any answer of the router that
  is not an execution, a passing error too, rejects the plan (`NotFound`).
- An approval asked for before the completion event is visible is given and credits
  nothing (`asked` in `ApprovedIsCredited`).
- Distributing before the first sync credits the investor and then throws (`astray` in
  `TotalIsOwed`); a request repeated moves again, each call drawing its own keys
  (`RepliesAreTrue`); an import the router did not take is only logged (`ImportsWereMade`).
- A hold refused for lack of funds leaves its record in the sample adapter, and settling
  it creates funds (`AmountRefused` in `HeldComesBack`).
- A release or rollback of part of a hold loses the rest, and one of more creates funds
  (`escrow.ts` 60-62 and 84-86; `business-logic.test.ts:609` releases a part and is
  content with it; `OneQuantity` in `HeldComesBack`).
- An operation of the sample adapter whose proof fails is reported failed with its funds
  moved (`ReceiptsExplainBalances` says that its transaction is there).
- A plan reset after its end is retried, and the plugin told of both ends (`ToldItsEnds`).
  An approval asked for before the reset may find the receipt gone when it fetches the
  execution (`Stands` in `ApprovedIsCredited`).
- A failure recorded while a delegate has moved the asset outside: the statement after the
  delegate failed (`vanilla-service/src/service.ts:114`). No property denies it;
  `OutcomesAreTrue` is about setups without such faults.
- A plan whose instructions were empty at first and appear later would not have that
  reported (`client.ts:286`); plans have their instructions from the start. The requests
  of the client have no timeout of their own: only polling has (`CallsEnd` assumes that a
  connection ends).

## 5. Proofs

All theorems hold for every value of the constants that satisfies the ASSUMEs of the
module they are about. These say what kind of thing each constant is and that the values
that stand for nothing (`None`, `NoTx`) are none of the others, and besides:

- `Ledger`, `PlanApproval`, `SampleAdapter`: a request's operation is one of `Ops`, a
  request names what its kind needs (`Asked \subseteq Askable`), quantities are naturals;
- `VanillaService`: the jobs are finitely many, each names the parties of its method and no
  party twice (`move` refuses that), holds and what settles them name an operation, and two
  holds do not share one, the id being the router's;
- `Distribution`: the investors are a sequence without repetition that leaves out the
  omnibus account, since `listDistributedAccounts` orders the rows by a key;
- `ClientFlows`: what intents may be about is a record of `TermsType`.

| Theorem | Statement |
|---|---|
| `WorkflowsProofs!TypeCorrect` | `Spec => []TypeOK` |
| `WorkflowsProofs!AnswersCorrect` | `Spec => []AnswersNameOneOperation` |
| `WorkflowsProofs!NoticesCorrect` | `Spec => []NoticesArePersisted` |
| `WorkflowsProofs!OwnersCorrect` | `Spec => []PendingRowsAreOwned` |
| `WorkflowsProofs!OneRunCorrect`, `NoticesStayTrueCorrect`, `OutcomeCorrect`, `ReplayCorrect` | the safety properties of `WorkflowsQuiet`, assuming `QuietAssumption`: `QuietStart`, `~LateStatements`, `Unmappable = {}` |
| `WorkflowsProofs!RegistryCorrect` | `Spec => RegistrySpec`, assuming `QuietAssumption` |
| `LedgerProofs!TypeCorrect` | `Spec => []TypeOK`: no overdraft |
| `LedgerProofs!AnswersCorrect` | `Spec => []AnswersAreJournaled` |
| `LedgerProofs!JournalCorrect` | `Spec => []JournalExplains` |
| `LedgerProofs!AtomicCorrect` | `Spec => AtomicSpec` |
| `VanillaServiceProofs!TypeCorrect` | `Spec => []TypeOK`, in every setup |
| `VanillaServiceProofs!BackedCorrect` | `Spec => []SuccessIsBacked`, in every setup |
| `VanillaServiceProofs!OutcomesCorrect` | `Spec => []OutcomesAreTrue` |
| `VanillaServiceProofs!LocksCorrect` | `Spec => []LocksUsedOnce` |
| `VanillaServiceProofs!LockedFundsCorrect` | `Spec => []LockedFundsAreThere` |
| `DistributionProofs!TypeCorrect` | `Spec => []TypeOK` |
| `DistributionProofs!RepliesCorrect` | `Spec => []RepliesAreTrue` |
| `DistributionProofs!ImportsCorrect` | `Spec => []ImportsWereMade` |
| `DistributionProofs!TotalCorrect` | `SyncAlone => (Spec => []TotalIsOwed)` |
| `PlanApprovalProofs!TypeCorrect` | `Spec => []TypeOK` |
| `PlanApprovalProofs!CreditsCorrect` | `Spec => []CreditsAreBacked` |
| `PlanApprovalProofs!OnceCorrect` | `Spec => []CreditedOnce` |
| `PlanApprovalProofs!ToldCorrect` | `Spec => []ToldItsEnds` |
| `PlanApprovalProofs!ApprovalCorrect` | `Spec => []ApprovedIsCredited` |
| `PlanApprovalProofs!PreparedCorrect` | `Spec => []ApprovedIsPrepared` |
| `SampleAdapterProofs!TypeCorrect` | `Spec => []TypeOK`: no overdraft of the ledger in memory |
| `SampleAdapterProofs!ReceiptsCorrect` | `Spec => []ReceiptsExplainBalances` |
| `SampleAdapterProofs!HoldsCorrect` | `Spec => []HeldComesBack` |
| `SampleAdapterProofs!MixedCorrect` | `Spec => []MixedOnlyByOverlap` |
| `SampleAdapterProofs!FoundCorrect` | `Spec => []SavedIsFound` |
| `ClientFlowsProofs!TypeCorrect` | `Spec => []TypeOK` |
| `ClientFlowsProofs!ResolvedCorrect` | `Spec => []ResolvedUnlessFailed` |
| `ClientFlowsProofs!ChangesCorrect` | `Spec => []ChangesAreHeard` |
| `ClientFlowsProofs!PaidCorrect` | `Spec => []PaidByTaker` |
| `ClientFlowsProofs!IntendedCorrect` | `Spec => []ExecutedAsIntended` |

Every invariant and every step property that a passing run checks is one of these.

**Sums.** What funds add up to is `SumFunctionOnSet`, which the community modules define by
a recursive function. Its laws (an element joins, leaves, or changes its value; two sums
add; sums that agree are equal) are proved in `Sums` without an induction theorem: the
subsets of a finite set are well founded under strict inclusion, so if a law failed for
one of them it would fail for one all of whose strict subsets have it (`MinimalSubset`).

**Workflows, any timing.** `OpenInv` adds to the two properties what they rest on:
a request has one row (`RowsUnique`); a row holds its placeholder or an outcome
that was stored (`RowsHonest`); a call back from `saveOperation` holds the row of
its request (`CallsHonest`); a run that tells has stored (`RunsHonest`). The lemmas
`TableSteps`, `CallSteps`, `CallingSteps` and `ToldSteps` say once which actions
touch which state, so that each conjunct is proved against the few that matter.
`PendingRowsAreOwned` is inductive together with `TypeOK`; its proof goes through
what each action does to one row.

**Workflows, quiet start.** None of the properties is inductive: they need that at
most one thing will ever run a row. `OneOwner` says it: the call that inserted it,
the query that returned it, or one run, never two of them, and what runs it still
finds it in progress. `~LateStatements` leaves `Arrival` out: a statement that outlived its
process would be a second owner. `NothingBeforeReady` gives that at start, and `RowsAgree` ties
the status column to the outputs. The refinement maps a row to its request and, once
terminal, its outputs: an insert is `Accept`, a write that settles is `Settle`, a
notice is `Tell`, everything else stutters.

**Ledger.** `IInv` is `TypeOK /\ StmtsHonest /\ AnswersAreJournaled`. `StmtsHonest`
says what survives between snapshot and commit: a transaction found is still there,
accounts seen are still there, and a caller that opens accounts first has seen both of
its own. Only that makes `Commit` an atomic step: `Covered` speaks of the rows updated,
and of no others because both parties were found. `accountsFirst` does not change, so a
behaviour in which it is false maps to a ledger that stands still. `JournalCorrect` adds
`Explained`: a step that changes the journal by one transaction moves what the
transaction says, and no other step changes a balance or a hold.

**VanillaService.** The steps of the instantiated ledger are taken from `LedgerProofs`
through an INSTANCE. `Moves` says once what any step does to the rest: a run stays, arrives,
goes on or fails; a statement stays or is sent; the journal, what delegates did and the
outcomes grow, each for a reason. `Base` follows a success back: a job that has reached a
place in its method has what the places before it left (`Reached`), and so have its
statements, its transactions and its delegate, so that a run cannot end in success unbacked.
In calm, `Quiet` adds that a delegate does not both do and refuse (`Unmixed`), that a job in
flight is pending and has one statement, whose snapshot is still true (`InFlight`), and what
an outcome not yet stored says (`Outcomes`). `Uses` is the router's part: what uses a hold
uses one it was told of, within its amount (`Budget`); from these a lock is used up once.
`HeldExplained`, that what is on hold is the sum of what was locked and not given back,
makes `LockedFundsAreThere` inductive: the sum covers each of its parts, because none is
negative.

**Distribution.** `Placed` and `Progress` tie the place of a job to the moves it has made,
`StmtsPlaced` a statement in flight to the move of its job. `RepliesAreTrue` and
`ImportsWereMade` follow. `TotalCorrect` adds `SyncsAlone`, that a sync about to write has
the sum of now and nothing is in flight, and `Accounted`, that the accounts add up to what
is owed and what went astray: every other step that moves funds conserves them or is
counted. `SyncAlone` is a hypothesis of the theorem because the code does not ensure it;
`DistributionSync` shows what happens without.

**ClientFlows.** Who pays whom is a fact about terms: `ExecutionsAreFair` and
`ExecutionsAreIntended` prove it for every record of `TermsType` by the kind of intent.
`Recorded` says that the router has what the calls asked for, `Named` that what a call
names was returned by another, `Placed` how far a call has come and what the router then
has of it, `WaitsSaw` what a wait that ended saw. `Turns` and `Persist` carry them: one call
moves on, what calls are about stays, and a call that has resolved stays as it is.

**PlanApproval.** `Typed` adds to the types that a request is at a stage of its kind.
Funds are followed back to the router by a chain, each link inductive with those before
it: what a request has seen is there (`Seen`); a request about to credit has every reason
to (`Crediting`); an entry of the journal is of a request for that instruction and was
made with reason (`Journaled`); where there are funds there is an entry (`Funded`). A
reset may take back the status and the events, so what a request read is compared with
what was ever there: `Remembered` says that `received` has every receipt among the events
and `ended` every end the plan is at. What makes each link stay true is proved once:
`Monotone` (`received` and `ended`, verifications, open accounts and funds stay) and `Fate`
(a request stays as it is, takes a step of its own, arrives or is run again). `OnceCorrect`
adds `OneRequest`: under `oneKey` two requests about one instruction are the same one.
`ToldCorrect` rests on `EndSeen`: an end that was read is one the plan came to, and is its
status for good unless a reset was approved (`Standing`: an end stays while no reset is
approved, a receipt while none takes its instruction back). `ApprovalCorrect` adds `Answered`, that an outcome
not yet stored already says the truth, and `PreparedCorrect` adds `Prepared`, that the loop
has prepared what is behind it.

**SampleAdapter, mappings.** Both properties speak of what is left of a save after others
ran. `Ordered` says that what a call came after is over, and that an answered save has
nothing left to write; `Owned`, that the rows of a finId were written by calls about it;
`Superseded`, that what a later call has written is not an earlier one's; `Kept`, that
what a call without company has written stays. What a step does to each call and to each
row is proved once (`Effects`): a call stays, arrives or goes on, a row is the same or
was changed by a call that was not over.

**SampleAdapter, ledger.** `Shapes` says what fields a request of each kind names; nothing
is assumed about whether its quantity, source or operation are those of a hold. With it
every method keeps balances natural: what is debited was covered. `Receipted` adds the
sums: a method that registers a receipt changes the balances by what the receipt says
(`Faithful`: by what its request asked). For each operation `Marked` has two parts.
`Backed`: the record that is there was saved by a hold that took its funds or was refused,
and is about its quantity. `ComesBack`: where all requests about the operation name one
quantity, the amounts settled and still kept are at most those held or refused, and, where
there was one hold, at least those held. A settlement adds to one side what it takes from
the record by `Backed` only if the quantities agree, which is why the premise is needed:
`escrow.ts` compares none.

**Only model-checked.** Liveness (`PendingRowsSettle`, `CallsEnd`), which needs ENABLED;
and the four properties that the code violates, each with a counterexample.

## 6. What is not modelled, and what is left

One process per database is assumed: two replicas would each recover the other's
running operations. A rejected `ready` ends a Node process by default; `Crash` is that.

Left for later: `Workflows` composed with `Ledger`, where finding 1 lets two runs meet on
one key and `KeyTaken` turns the success of the first into a failure of the second; and the
refinement of `AtomicLedger` by the ledger that `VanillaService` uses, which opens the
destination only.

Not modelled, because they keep no state and do nothing in steps:

- generated API types (`model-gen.ts`, `op-model-gen.ts`, `graphql.d.ts`) and the record
  types of `models/` and `oss/model.ts`, which are half of the repository's lines and
  declarations only; what a module needs of them is a set of records there;
- the conversions of `routes/mapping.ts` and of the plugins' mappers, but for the one that
  may throw after an outcome is stored, and for the one of plans; the HTTP routes beyond
  the call of one service method;
- receipt proofs, EIP-712 hashing and signature checks: functions of one record;
- payments and the plugin manager's other look-ups: they forward to a plugin;
- the OSS client and the authentication of requests: I/O;
- goose as a child process (its outcome is in `Workflows`) and `toPostgresIdentifier`,
  which rewrites one name at start;
- `setBalance` of the ledger storage, which has no caller; queries that only read;
- the test environment and the adapter tests.
