----------------------------- MODULE Workflows -----------------------------
(***************************************************************************)
(* The asynchronous operation layer of the skeleton adapter: the proxy     *)
(* that createServiceProxy puts around a service, the operations table it  *)
(* keeps in Postgres (WorkflowStorage) and the crash recovery it runs when *)
(* the process starts.                                                     *)
(*                                                                         *)
(* A client calls a proxied method; the proxy saves one row for the pair   *)
(* (method, inputs), answers with a pending placeholder that carries the   *)
(* row's correlation id, and runs the method in the background.  When the  *)
(* method returns, finalize writes the outcome to the row and then sends   *)
(* the callback to the router.  After a restart the rows still in_progress *)
(* are read and their methods run again.                                   *)
(*                                                                         *)
(* Every statement the database runs is one atomic step; whatever happens  *)
(* in Node between two awaits is one atomic step as well.                  *)
(*                                                                         *)
(* Definitions marked (Slip) are not part of the model.  Each is a         *)
(* definition that follows it with one mistake in it; put in its place, it *)
(* makes a property fail.                                                  *)
(***************************************************************************)
EXTENDS Naturals

CONSTANTS
    Requests,          \* the (method, inputs) pairs clients send; inputs hold the idempotency key
    Methods,           \* the method names given to createServiceProxy
    MethodOf,          \* the method of each request
    Cids,              \* the correlation ids generateCid can return
    Calls,             \* the HTTP requests the process may be serving at one time
    Receipts,          \* what a successful execution may return
    Unmappable,        \* the receipts operationStatusToAPI throws on
    None,              \* no request, no output, no reference
    RouterConfigured,  \* TRUE when a finP2PClient is given, so that callbacks are sent
    QuietStart,        \* TRUE when clients call only once recovery has read the table
    LateStatements,    \* TRUE when a statement may be executed after its sender is gone
    MaxCrashes,        \* bound: how often the process is killed
    MaxFaults          \* bound: how many statements or migrations fail

ASSUME ConstantsAssumption ==
    /\ Unmappable \subseteq Receipts
    /\ MethodOf \in [Requests -> Methods]
    /\ None \notin Requests \cup Cids \cup Receipts
    /\ RouterConfigured \in BOOLEAN
    /\ QuietStart \in BOOLEAN
    /\ LateStatements \in BOOLEAN
    /\ MaxCrashes \in Nat
    /\ MaxFaults \in Nat

VARIABLES
    phase,     \* what the process and its `ready` promise are doing
    ops,       \* the operations table, by correlation id
    calls,     \* the calls of proxied methods being served
    fetch,     \* the getPendingOperations query of each method
    fetched,   \* the rows that query has returned and that are not replayed yet
    tasks,     \* the runs of executeAndFinalize: live ones and replayed ones
    unstarted, \* rows inserted by a statement whose acknowledgement was lost
    replies,   \* what clients were answered, by request
    notices,   \* what callbacks and status polls have told, by correlation id
    written,   \* the outcomes completeOperation has ever written
    lateInserts, lateUpdates,  \* the statements still under way whose sender is gone
    crashes, faults

vars == <<phase, ops, calls, fetch, fetched, tasks, unstarted, replies, notices,
          written, lateInserts, lateUpdates, crashes, faults>>
late     == <<lateInserts, lateUpdates>>
dbVars   == <<ops, written, late>>
toldVars == <<replies, notices>>

-----------------------------------------------------------------------------
(* Data *)

Phases     == {"down", "migrating", "ready", "broken"}
FetchState == {"none", "sent", "answered", "done", "failed"}
Kinds      == {"live", "replay"}

Pending(c) == [type |-> "pending", ref |-> c]
Success(r) == [type |-> "success", ref |-> r]
Failure    == [type |-> "failure", ref |-> None]
\* A service may itself answer `pending`; nothing in this process continues it.
Deferred   == Pending(None)

\* What a proxied method can return or, for Failure, throw.
Results == {Success(r) : r \in Receipts} \cup {Failure, Deferred}
Outputs == Results \cup {Pending(c) : c \in Cids}

ASSUME NoneAssumption == None \notin Outputs

NoRow == [req |-> None, status |-> "absent", outputs |-> None]
Row   == [req : Requests, status : {"in_progress", "succeeded", "failed"}, outputs : Outputs]

\* A run of executeAndFinalize: none, in the method, in completeOperation, in
\* sendCallback, ended, or ended because completeOperation rejected.
NoTask  == [pc |-> "none", out |-> None]
Running == [pc |-> "executing", out |-> None]
Task    == {NoTask, Running}
           \cup [pc : {"persisting", "calling", "done", "abandoned"}, out : Results]

\* A call being served: none, awaiting `ready`, or back from saveOperation.
CallStage(pc, req, cid, out) == [pc |-> pc, req |-> req, cid |-> cid, out |-> out]
IdleCall          == CallStage("idle", None, None, None)
Waiting(r)        == CallStage("waiting", r, None, None)
Inserted(r, c)    == CallStage("inserted", r, c, None)
Duplicate(r, out) == CallStage("duplicate", r, None, out)
Call == {IdleCall} \cup {Waiting(r) : r \in Requests}
        \cup {Inserted(r, c) : r \in Requests, c \in Cids}
        \cup {Duplicate(r, out) : r \in Requests, out \in Outputs}

\* (Slip: the column takes the operation's type as it is.)
dbStatusRaw(out) == out.type

\* The column value for a result: succeeded, failed, or still in_progress.
dbStatus(out) == CASE out.type = "success" -> "succeeded"
                   [] out.type = "pending" -> "in_progress"
                   [] OTHER                -> "failed"

Terminal(c)   == ops[c].status \in {"succeeded", "failed"}
InProgress(c) == ops[c].status = "in_progress"
RowsOf(r)     == {c \in Cids : ops[c].req = r}
Active(k, c)  == tasks[k][c].pc \in {"executing", "persisting"}

-----------------------------------------------------------------------------
Init ==
    /\ phase = "down"
    /\ ops = [c \in Cids |-> NoRow]
    /\ calls = [k \in Calls |-> IdleCall]
    /\ fetch = [m \in Methods |-> "none"]
    /\ fetched = [m \in Methods |-> {}]
    /\ tasks = [k \in Kinds |-> [c \in Cids |-> NoTask]]
    /\ unstarted = {}
    /\ replies = {}
    /\ notices = {}
    /\ written = {}
    /\ lateInserts = {} /\ lateUpdates = {}
    /\ crashes = 0
    /\ faults = 0

-----------------------------------------------------------------------------
(* Process lifetime: start, migrations, recovery, crash *)

\* The process starts and createServiceProxy calls migrationJob().
Start ==
    /\ phase = "down"
    /\ phase' = "migrating"
    /\ UNCHANGED <<dbVars, calls, fetch, fetched, tasks, unstarted, toldVars, crashes, faults>>

\* (Slip: `ready` resolves and the recovery queries are never sent.)
MigrationSkipsRecovery ==
    /\ phase = "migrating"
    /\ phase' = "ready"
    /\ fetch' = [m \in Methods |-> "done"]
    /\ UNCHANGED <<dbVars, calls, fetched, tasks, unstarted, toldVars, crashes, faults>>

\* The migrations are done: a query for the pending rows of every proxied method
\* goes out, and `ready` resolves without waiting for any of the answers.
MigrationSucceeds ==
    /\ phase = "migrating"
    /\ phase' = "ready"
    /\ fetch' = [m \in Methods |-> "sent"]
    /\ UNCHANGED <<dbVars, calls, fetched, tasks, unstarted, toldVars, crashes, faults>>

\* `ready` rejects: from now on every proxied call of this process rejects.
MigrationFails ==
    /\ phase = "migrating"
    /\ faults < MaxFaults
    /\ phase' = "broken"
    /\ faults' = faults + 1
    /\ UNCHANGED <<dbVars, calls, fetch, fetched, tasks, unstarted, toldVars, crashes>>

\* (Slip: the query forgets its condition on the status.)
RowsOfMethod(m) ==
    {c \in Cids : ops[c] # NoRow /\ MethodOf[ops[c].req] = m}

\* getPendingOperations: the rows of the method with status in_progress.
PendingRows(m) ==
    {c \in Cids : InProgress(c) /\ MethodOf[ops[c].req] = m}

\* The database runs the query; its answer is on the way.
AnswerFetch(m) ==
    /\ fetch[m] = "sent"
    /\ fetch' = [fetch EXCEPT ![m] = "answered"]
    /\ fetched' = [fetched EXCEPT ![m] = PendingRows(m)]
    /\ UNCHANGED <<phase, dbVars, calls, tasks, unstarted, toldVars, crashes, faults>>

\* The query is rejected: logged, and these rows wait for another restart.
FetchFails(m) ==
    /\ fetch[m] = "sent"
    /\ faults < MaxFaults
    /\ fetch' = [fetch EXCEPT ![m] = "failed"]
    /\ faults' = faults + 1
    /\ UNCHANGED <<phase, dbVars, calls, fetched, tasks, unstarted, toldVars, crashes>>

\* (Slip: the answer is read and nothing is started.)
ReplayForgets(m) ==
    /\ fetch[m] = "answered"
    /\ fetch' = [fetch EXCEPT ![m] = "done"]
    /\ fetched' = [fetched EXCEPT ![m] = {}]
    /\ UNCHANGED <<phase, dbVars, calls, tasks, unstarted, toldVars, crashes, faults>>

\* The answer arrives: executeAndFinalize is started for every row it holds,
\* whatever has become of the row since the query ran.
Replay(m) ==
    /\ fetch[m] = "answered"
    /\ fetch' = [fetch EXCEPT ![m] = "done"]
    /\ fetched' = [fetched EXCEPT ![m] = {}]
    /\ tasks' = [tasks EXCEPT !["replay"] =
                    [c \in Cids |-> IF c \in fetched[m]
                                    THEN Running
                                    ELSE @[c]]]
    /\ UNCHANGED <<phase, dbVars, calls, unstarted, toldVars, crashes, faults>>

\* The statements of saveOperation and completeOperation that are on their way.
InsertsSent == {r \in Requests :
                    phase = "ready" /\ \E k \in Calls : calls[k].pc = "waiting" /\ calls[k].req = r}
UpdatesSent == {w \in [cid : Cids, out : Results] :
                    \E k \in Kinds : tasks[k][w.cid].pc = "persisting" /\ tasks[k][w.cid].out = w.out}

\* Whoever sent them is gone: they may still be executed, or never.
GoAstray(inserts, updates) ==
    /\ lateInserts' = IF LateStatements THEN lateInserts \cup inserts ELSE lateInserts
    /\ lateUpdates' = IF LateStatements THEN lateUpdates \cup updates ELSE lateUpdates

\* The process is killed; only the database survives, with the statements it was sent.
Crash ==
    /\ phase # "down"
    /\ crashes < MaxCrashes
    /\ phase' = "down"
    /\ calls' = [k \in Calls |-> IdleCall]
    /\ fetch' = [m \in Methods |-> "none"]
    /\ fetched' = [m \in Methods |-> {}]
    /\ tasks' = [k \in Kinds |-> [c \in Cids |-> NoTask]]
    /\ unstarted' = {}
    /\ crashes' = crashes + 1
    /\ GoAstray(InsertsSent, UpdatesSent)
    /\ UNCHANGED <<ops, written, toldVars, faults>>

-----------------------------------------------------------------------------
(* A proxied call *)

RecoverySettled == \A m \in Methods : fetch[m] \in {"done", "failed"}

\* A client's request reaches the proxy, which awaits `ready`.  Clients repeat
\* requests freely: the same request may be in flight several times.
ClientCalls(k, r) ==
    /\ phase # "down"
    /\ QuietStart => phase = "broken" \/ RecoverySettled
    /\ calls[k] = IdleCall
    /\ calls' = [calls EXCEPT ![k] = Waiting(r)]
    /\ UNCHANGED <<phase, dbVars, fetch, fetched, tasks, unstarted, toldVars, crashes, faults>>

\* `await ready` throws and the client gets an error.
CallRejected(k) ==
    /\ phase = "broken"
    /\ calls[k].pc = "waiting"
    /\ calls' = [calls EXCEPT ![k] = IdleCall]
    /\ UNCHANGED <<phase, dbVars, fetch, fetched, tasks, unstarted, toldVars, crashes, faults>>

\* (Slip: no unique index on the method and its inputs.)
InsertAlways(r, c) ==
    /\ ops[c] = NoRow
    /\ ops' = [ops EXCEPT ![c] = [req |-> r, status |-> "in_progress", outputs |-> Pending(c)]]

\* INSERT of a fresh correlation id with the pending placeholder, when no row
\* holds the same method and inputs.
InsertRow(r, c) ==
    /\ RowsOf(r) = {}
    /\ ops[c] = NoRow
    /\ ops' = [ops EXCEPT ![c] = [req |-> r, status |-> "in_progress", outputs |-> Pending(c)]]

SaveInserts(k, c) ==
    /\ phase = "ready"
    /\ calls[k].pc = "waiting"
    /\ InsertRow(calls[k].req, c)
    /\ calls' = [calls EXCEPT ![k] = Inserted(@.req, c)]
    /\ UNCHANGED <<phase, written, late, fetch, fetched, tasks, unstarted, toldVars, crashes, faults>>

\* (Slip: the proxy does not look at `inserted` and runs the method again.)
SaveFindsRowRunsIt(k, c) ==
    /\ phase = "ready"
    /\ calls[k].pc = "waiting"
    /\ c \in RowsOf(calls[k].req)
    /\ calls' = [calls EXCEPT ![k] = Inserted(@.req, c)]
    /\ UNCHANGED <<phase, dbVars, fetch, fetched, tasks, unstarted, toldVars, crashes, faults>>

\* ON CONFLICT: the statement changes nothing and returns the existing row.
SaveFindsRow(k, c) ==
    /\ phase = "ready"
    /\ calls[k].pc = "waiting"
    /\ c \in RowsOf(calls[k].req)
    /\ calls' = [calls EXCEPT ![k] = Duplicate(@.req, ops[c].outputs)]
    /\ UNCHANGED <<phase, dbVars, fetch, fetched, tasks, unstarted, toldVars, crashes, faults>>

\* The statement fails before it takes effect, or the connection is lost before it is
\* executed; the client gets an error.
SaveFails(k) ==
    /\ phase = "ready"
    /\ calls[k].pc = "waiting"
    /\ faults < MaxFaults
    /\ GoAstray({calls[k].req}, {})
    /\ calls' = [calls EXCEPT ![k] = IdleCall]
    /\ faults' = faults + 1
    /\ UNCHANGED <<phase, ops, written, fetch, fetched, tasks, unstarted, toldVars, crashes>>

\* The row is inserted and the acknowledgement lost: the proxy throws, so the
\* row exists and nothing runs it.
SaveAckLost(k, c) ==
    /\ phase = "ready"
    /\ calls[k].pc = "waiting"
    /\ faults < MaxFaults
    /\ InsertRow(calls[k].req, c)
    /\ unstarted' = unstarted \cup {c}
    /\ calls' = [calls EXCEPT ![k] = IdleCall]
    /\ faults' = faults + 1
    /\ UNCHANGED <<phase, written, late, fetch, fetched, tasks, toldVars, crashes>>

\* The row was inserted by this call: run the method in the background and
\* answer with the placeholder.
LaunchAndReply(k) ==
    /\ calls[k].pc = "inserted"
    /\ tasks' = [tasks EXCEPT !["live"][calls[k].cid] = Running]
    /\ replies' = replies \cup {[req |-> calls[k].req, out |-> Pending(calls[k].cid)]}
    /\ calls' = [calls EXCEPT ![k] = IdleCall]
    /\ UNCHANGED <<phase, dbVars, fetch, fetched, unstarted, notices, crashes, faults>>

\* The row was there: answer with the outputs it held, run nothing.
ReplyDuplicate(k) ==
    /\ calls[k].pc = "duplicate"
    /\ replies' = replies \cup {[req |-> calls[k].req, out |-> calls[k].out]}
    /\ calls' = [calls EXCEPT ![k] = IdleCall]
    /\ UNCHANGED <<phase, dbVars, fetch, fetched, tasks, unstarted, notices, crashes, faults>>

\* operationStatus(cid), asked by whoever was given the correlation id.
PollStatus(c) ==
    /\ phase = "ready"
    /\ \E x \in replies : x.out = Pending(c)
    /\ ops[c] # NoRow
    /\ notices' = notices \cup {[cid |-> c, out |-> ops[c].outputs]}
    /\ UNCHANGED <<phase, dbVars, calls, fetch, fetched, tasks, unstarted, replies, crashes, faults>>

-----------------------------------------------------------------------------
(* executeAndFinalize, for the run of kind k of operation c *)

\* (Slip: the callback is sent before the outcome is written.)
MethodEndsCallsFirst(k, c, out) ==
    /\ tasks[k][c].pc = "executing"
    /\ tasks' = [tasks EXCEPT ![k][c] = [pc |-> "calling", out |-> out]]
    /\ UNCHANGED <<phase, dbVars, calls, fetch, fetched, unstarted, toldVars, crashes, faults>>

\* The method returns a result, or throws and wrappedResponse makes a failure.
MethodEnds(k, c, out) ==
    /\ tasks[k][c].pc = "executing"
    /\ tasks' = [tasks EXCEPT ![k][c] = [pc |-> "persisting", out |-> out]]
    /\ UNCHANGED <<phase, dbVars, calls, fetch, fetched, unstarted, toldVars, crashes, faults>>

\* The UPDATE of completeOperation: it names the row by cid and looks at
\* nothing else, so it overwrites whatever the row holds.
WriteOutcome(c, out) ==
    /\ ops[c] # NoRow
    /\ ops' = [ops EXCEPT ![c].status = dbStatus(out), ![c].outputs = out]
    /\ written' = written \cup {[cid |-> c, out |-> out]}

Persist(k, c) ==
    /\ tasks[k][c].pc = "persisting"
    /\ WriteOutcome(c, tasks[k][c].out)
    /\ tasks' = [tasks EXCEPT ![k][c].pc = IF RouterConfigured THEN "calling" ELSE "done"]
    /\ UNCHANGED <<phase, late, calls, fetch, fetched, unstarted, toldVars, crashes, faults>>

\* (Slip: finalize does not return when completeOperation rejects.)
PersistFailsCallsAnyway(k, c) ==
    /\ tasks[k][c].pc = "persisting"
    /\ faults < MaxFaults
    /\ tasks' = [tasks EXCEPT ![k][c].pc = "calling"]
    /\ faults' = faults + 1
    /\ UNCHANGED <<phase, dbVars, calls, fetch, fetched, unstarted, toldVars, crashes>>

\* completeOperation rejects: finalize logs it and returns without a callback.
PersistFails(k, c) ==
    /\ tasks[k][c].pc = "persisting"
    /\ faults < MaxFaults
    /\ GoAstray({}, {[cid |-> c, out |-> tasks[k][c].out]})
    /\ tasks' = [tasks EXCEPT ![k][c].pc = "abandoned"]
    /\ faults' = faults + 1
    /\ UNCHANGED <<phase, ops, written, calls, fetch, fetched, unstarted, toldVars, crashes>>

\* completeOperation rejects although the database has committed the UPDATE.
PersistAckLost(k, c) ==
    /\ tasks[k][c].pc = "persisting"
    /\ faults < MaxFaults
    /\ WriteOutcome(c, tasks[k][c].out)
    /\ tasks' = [tasks EXCEPT ![k][c].pc = "abandoned"]
    /\ faults' = faults + 1
    /\ UNCHANGED <<phase, late, calls, fetch, fetched, unstarted, toldVars, crashes>>

Mappable(out) == out \notin {Success(r) : r \in Unmappable}

\* The callback is sent once; an HTTP error or a lost answer is only logged.
SendCallback(k, c) ==
    /\ tasks[k][c].pc = "calling"
    /\ Mappable(tasks[k][c].out)
    /\ \/ notices' = notices \cup {[cid |-> c, out |-> tasks[k][c].out]}
       \/ UNCHANGED notices
    /\ tasks' = [tasks EXCEPT ![k][c].pc = "done"]
    /\ UNCHANGED <<phase, dbVars, calls, fetch, fetched, unstarted, replies, crashes, faults>>

\* operationStatusToAPI throws inside the try of executeAndFinalize: its catch
\* finalizes the operation again, as failed.
ConversionThrows(k, c) ==
    /\ tasks[k][c].pc = "calling"
    /\ ~Mappable(tasks[k][c].out)
    /\ tasks' = [tasks EXCEPT ![k][c] = [pc |-> "persisting", out |-> Failure]]
    /\ UNCHANGED <<phase, dbVars, calls, fetch, fetched, unstarted, toldVars, crashes, faults>>

-----------------------------------------------------------------------------
(* Statements whose sender is gone *)

\* The INSERT is executed after all: nothing in this process runs the row.  One that
\* finds the row there changes nothing.
InsertArrives(r, c) ==
    /\ r \in lateInserts
    /\ InsertRow(r, c)
    /\ lateInserts' = lateInserts \ {r}
    /\ unstarted' = IF phase \in {"down", "migrating"} THEN unstarted ELSE unstarted \cup {c}
    /\ UNCHANGED <<phase, written, lateUpdates, calls, fetch, fetched, tasks, toldVars,
                   crashes, faults>>

\* The UPDATE is executed after all, whatever has been made of the row since.
UpdateArrives(w) ==
    /\ w \in lateUpdates
    /\ WriteOutcome(w.cid, w.out)
    /\ lateUpdates' = lateUpdates \ {w}
    /\ UNCHANGED <<phase, lateInserts, calls, fetch, fetched, tasks, unstarted, toldVars,
                   crashes, faults>>

Arrival ==
    \/ \E r \in Requests, c \in Cids : InsertArrives(r, c)
    \/ \E w \in lateUpdates : UpdateArrives(w)

-----------------------------------------------------------------------------
ProcessStep == Start \/ MigrationSucceeds \/ MigrationFails
FetchStep(m) == AnswerFetch(m) \/ FetchFails(m) \/ Replay(m)
CallStep(k) ==
    \/ CallRejected(k) \/ SaveFails(k) \/ LaunchAndReply(k) \/ ReplyDuplicate(k)
    \/ \E c \in Cids : SaveInserts(k, c) \/ SaveFindsRow(k, c) \/ SaveAckLost(k, c)
TaskStep(k, c) ==
    \/ \E out \in Results : MethodEnds(k, c, out)
    \/ Persist(k, c) \/ PersistFails(k, c) \/ PersistAckLost(k, c)
    \/ SendCallback(k, c) \/ ConversionThrows(k, c)

Next ==
    \/ ProcessStep
    \/ Crash
    \/ \E m \in Methods : FetchStep(m)
    \/ \E k \in Calls, r \in Requests : ClientCalls(k, r)
    \/ \E k \in Calls : CallStep(k)
    \/ \E c \in Cids : PollStatus(c)
    \/ \E k \in Kinds, c \in Cids : TaskStep(k, c)
    \/ Arrival

Spec == Init /\ [][Next]_vars

\* The supervisor restarts the process, the database answers every statement in
\* the end, and a service method returns in the end.  Clients owe nothing.
Fairness ==
    /\ WF_vars(ProcessStep)
    /\ \A m \in Methods : WF_vars(FetchStep(m))
    /\ \A k \in Calls : WF_vars(CallStep(k))
    /\ \A k \in Kinds, c \in Cids : WF_vars(TaskStep(k, c))

FairSpec == Spec /\ Fairness

-----------------------------------------------------------------------------
(* Properties *)

\* Types.  Every variable stays within the sets declared above.
TypeOK ==
    /\ phase \in Phases
    /\ ops \in [Cids -> Row \cup {NoRow}]
    /\ calls \in [Calls -> Call]
    /\ fetch \in [Methods -> FetchState]
    /\ fetched \in [Methods -> SUBSET Cids]
    /\ tasks \in [Kinds -> [Cids -> Task]]
    /\ unstarted \subseteq Cids
    /\ replies \subseteq [req : Requests, out : Outputs]
    /\ notices \subseteq [cid : Cids, out : Outputs]
    /\ written \subseteq [cid : Cids, out : Results]
    /\ lateInserts \subseteq IF LateStatements THEN Requests ELSE {}
    /\ lateUpdates \subseteq IF LateStatements THEN [cid : Cids, out : Results] ELSE {}
    /\ crashes \in 0..MaxCrashes
    /\ faults \in 0..MaxFaults

\* However often a request is repeated, across crashes and lost answers, every
\* answer its clients get is about the one row of that request: a pending answer
\* names that row's correlation id, any other answer is an outcome that was
\* written to it.  (saveOperation's ON CONFLICT and the proxy's early return.)
AnswerAbout(r, out, c) ==
    /\ RowsOf(r) = {c}
    /\ out = Pending(c) \/ [cid |-> c, out |-> out] \in written

AnswersNameOneOperation ==
    \A x \in replies : \E c \in Cids : AnswerAbout(x.req, x.out, c)

\* Nothing terminal is told about an operation, by callback or by status poll,
\* that was not first written to its row: a crash cannot take back what the
\* router has heard.  (finalize: completeOperation before sendCallback.)
NoticesArePersisted ==
    \A n \in notices : n.out.type # "pending" => n \in written

\* Someone is going to finish a pending row: the recovery query that will read
\* it, the call that inserted it, or a run of its method ...
Owned(c) ==
    LET m == MethodOf[ops[c].req] IN
    \/ phase \in {"down", "migrating"}
    \/ fetch[m] = "sent" \/ c \in fetched[m]
    \/ \E k \in Calls : calls[k].pc = "inserted" /\ calls[k].cid = c
    \/ \E k \in Kinds : Active(k, c)

\* ... unless the process gave it up until the next restart.
LeftBehind(c) ==
    /\ InProgress(c)
    /\ \/ phase = "broken"
       \/ fetch[MethodOf[ops[c].req]] = "failed"
       \/ c \in unstarted
       \/ ops[c].outputs = Deferred
       \/ \E k \in Kinds : tasks[k][c].pc = "abandoned"

\* No interleaving of calls, recovery and crashes strands a pending row with
\* nobody to finish it, but for the failures LeftBehind lists.
PendingRowsAreOwned ==
    \A c \in Cids : InProgress(c) => Owned(c) \/ LeftBehind(c)

\* A pending row becomes terminal in the end, across crashes and restarts, unless
\* the process gives it up.
PendingRowsSettle ==
    \A c \in Cids : InProgress(c) ~> (Terminal(c) \/ LeftBehind(c))

\* The next three hold of the code when clients call only after recovery has
\* read the table (QuietStart), no statement outlives its sender (~LateStatements)
\* and every receipt converts (Unmappable = {}).

\* At most one run of an operation is under way, and none once it is settled.
OneRunPerOperation ==
    \A c \in Cids :
        /\ ~(Active("live", c) /\ Active("replay", c))
        /\ Terminal(c) => ~Active("live", c) /\ ~Active("replay", c)

\* What the router has heard of an operation stays what the table says of it.
NoticesStayTrue ==
    \A n \in notices : n.out.type # "pending" =>
        Terminal(n.cid) /\ ops[n.cid].outputs = n.out

\* The outcome of an operation, once written, is never replaced.
OutcomeIsFinal ==
    [][\A c \in Cids : Terminal(c) => ops'[c] = ops[c]]_vars

\* A test's title: "already completed operations are not re-executed on restart"
\* (skeleton/tests/workflows/crash-recovery.test.ts).  Recovery starts a method
\* only for rows that are still in progress.
CompletedNotReexecuted ==
    [][\A c \in Cids :
        tasks["replay"][c].pc = "none" /\ tasks'["replay"][c].pc = "executing"
            => InProgress(c)]_vars

-----------------------------------------------------------------------------
(* Inductive invariants: what the properties above rest on *)

\* The unique index on (method, inputs): a request has at most one row.
RowsUnique ==
    \A c, d \in Cids : ops[c] # NoRow /\ ops[c].req = ops[d].req => c = d

\* A row holds its own placeholder or an outcome completeOperation wrote to it.
RowsHonest ==
    \A c \in Cids : ops[c] # NoRow =>
        \/ ops[c].outputs = Pending(c)
        \/ [cid |-> c, out |-> ops[c].outputs] \in written

\* A call back from saveOperation holds the row of its own request.
CallsHonest ==
    \A k \in Calls :
        /\ calls[k].pc = "inserted" => AnswerAbout(calls[k].req, Pending(calls[k].cid), calls[k].cid)
        /\ calls[k].pc = "duplicate" =>
                \E c \in Cids : AnswerAbout(calls[k].req, calls[k].out, c)

\* A run sends a callback only after its outcome is in the table.
RunsHonest ==
    \A k \in Kinds, c \in Cids :
        tasks[k][c].pc = "calling" => [cid |-> c, out |-> tasks[k][c].out] \in written

\* Holds whenever clients call, whatever fails.
OpenInv ==
    /\ TypeOK
    /\ RowsUnique /\ RowsHonest /\ CallsHonest /\ RunsHonest
    /\ AnswersNameOneOperation
    /\ NoticesArePersisted

\* With QuietStart nothing runs and nobody calls before the recovery queries are
\* answered ...
NothingBeforeReady ==
    /\ phase \in {"down", "migrating"} => \A k \in Calls : calls[k] = IdleCall
    /\ phase \in {"down", "migrating", "broken"} =>
        /\ \A k \in Kinds, c \in Cids : tasks[k][c] = NoTask
        /\ \A k \in Calls : calls[k].pc \in {"idle", "waiting"}
        /\ \A m \in Methods : fetch[m] = "none" /\ fetched[m] = {}
    /\ \A k \in Calls : calls[k] # IdleCall => phase = "broken" \/ RecoverySettled
    /\ \A c \in Cids : tasks["live"][c] # NoTask => RecoverySettled

\* ... so that a row has at most one thing that will run it.  It is the call that
\* inserted it, which nothing has run yet ...
CallsOwn ==
    \A k \in Calls : calls[k].pc = "inserted" =>
        /\ InProgress(calls[k].cid)
        /\ \A l \in Kinds : tasks[l][calls[k].cid] = NoTask
        /\ \A j \in Calls : calls[j].pc = "inserted" /\ calls[j].cid = calls[k].cid => j = k

\* ... or the recovery query that returned it ...
FetchOwns ==
    \A m \in Methods, c \in Cids : c \in fetched[m] =>
        /\ fetch[m] = "answered"
        /\ InProgress(c) /\ MethodOf[ops[c].req] = m
        /\ \A l \in Kinds : tasks[l][c] = NoTask

\* ... or one run, replayed or live, never both ...
OneKindOfRun ==
    \A c \in Cids :
        /\ tasks["live"][c] # NoTask => ops[c] # NoRow /\ tasks["replay"][c] = NoTask
        /\ tasks["replay"][c] # NoTask =>
            ops[c] # NoRow /\ fetch[MethodOf[ops[c].req]] = "done"

\* ... and that run still finds the row in progress.
RunsFindPending ==
    \A k \in Kinds, c \in Cids : Active(k, c) => InProgress(c)

OneOwner == CallsOwn /\ FetchOwns /\ OneKindOfRun /\ RunsFindPending

\* The status column says whether the outputs are pending, and a run about to
\* send its callback finds its own outcome in the row.
RowsAgree ==
    /\ \A c \in Cids : ops[c] # NoRow => (InProgress(c) <=> ops[c].outputs.type = "pending")
    /\ \A k \in Kinds, c \in Cids : tasks[k][c].pc = "calling" =>
        ops[c] # NoRow /\ ops[c].outputs = tasks[k][c].out

QuietInv ==
    /\ TypeOK
    /\ NothingBeforeReady
    /\ OneOwner
    /\ RowsAgree
    /\ NoticesStayTrue

-----------------------------------------------------------------------------
(* Refinement: with QuietStart, no late statement and no unmappable receipt,   *)
(* the operations table and the notices, read as below, behave as a Registry.  *)

R == INSTANCE Registry WITH
        Outcomes <- Results \ {Deferred},
        request  <- [c \in Cids |-> ops[c].req],
        outcome  <- [c \in Cids |-> IF Terminal(c) THEN ops[c].outputs ELSE None],
        told     <- {<<n.cid, n.out>> : n \in {x \in notices : x.out.type # "pending"}}

\* Calls, recovery, crashes and lost answers cannot be seen in what the table
\* and the notices say: each step is a step of the Registry or changes nothing.
RegistrySpec == R!Spec
=============================================================================
