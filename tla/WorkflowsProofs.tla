-------------------------- MODULE WorkflowsProofs --------------------------
(***************************************************************************)
(* Theorems about Workflows, for any number of requests, correlation ids,  *)
(* calls, receipts, crashes and faults.                                    *)
(***************************************************************************)
EXTENDS Workflows, TLAPS

\* The status column of a result: in_progress exactly when the service deferred.
LEMMA StatusOfResult ==
  ASSUME NEW out \in Results
  PROVE  /\ out.type \in {"success", "failure", "pending"}
         /\ dbStatus(out) \in {"in_progress", "succeeded", "failed"}
         /\ dbStatus(out) = "in_progress" <=> out = Deferred
         /\ out.type = "pending" <=> out = Deferred
<1>1. CASE \E r \in Receipts : out = Success(r)
  BY <1>1 DEF Success, Deferred, Pending, dbStatus
<1>2. CASE out = Failure
  BY <1>2 DEF Failure, Deferred, Pending, dbStatus
<1>3. CASE out = Deferred
  BY <1>3 DEF Deferred, Pending, dbStatus
<1> QED BY <1>1, <1>2, <1>3 DEF Results

\* Types of the values the actions build.
LEMMA RecordTypes ==
  /\ \A r \in Requests, c \in Cids :
        [req |-> r, status |-> "in_progress", outputs |-> Pending(c)] \in Row
  /\ \A out \in Results : [pc |-> "persisting", out |-> out] \in Task
  /\ {NoTask, Running} \subseteq Task
  /\ IdleCall \in Call
  /\ Failure \in Results
  /\ \A c \in Cids : Pending(c) \in Outputs
  /\ Results \subseteq Outputs
BY DEF Row, Task, Call, Results, Outputs

\* What a call, a task and a row hold at each of their stages.
LEMMA CallStages ==
  ASSUME NEW k \in Calls, TypeOK
  PROVE  /\ calls[k].pc \in {"idle", "waiting", "inserted", "duplicate"}
         /\ calls[k].pc = "idle" => calls[k] = IdleCall
         /\ calls[k].pc = "waiting" => calls[k].req \in Requests
         /\ calls[k].pc = "inserted" => calls[k].req \in Requests /\ calls[k].cid \in Cids
         /\ calls[k].pc = "duplicate" => calls[k].req \in Requests /\ calls[k].out \in Outputs
<1>1. calls[k] \in Call
  BY DEF TypeOK
<1> QED BY <1>1 DEF Call, IdleCall, Waiting, Inserted, Duplicate, CallStage

\* Types of the calls the actions build.
LEMMA CallTypes ==
  /\ IdleCall \in Call
  /\ \A r \in Requests : Waiting(r) \in Call
  /\ \A r \in Requests, c \in Cids : Inserted(r, c) \in Call
  /\ \A r \in Requests, out \in Outputs : Duplicate(r, out) \in Call
BY DEF Call

LEMMA TaskStages ==
  ASSUME NEW k \in Kinds, NEW c \in Cids, TypeOK,
         tasks[k][c].pc \in {"persisting", "calling", "done", "abandoned"}
  PROVE  /\ tasks[k][c].out \in Results
         /\ tasks[k][c] = [pc |-> tasks[k][c].pc, out |-> tasks[k][c].out]
<1>1. tasks[k][c] \in Task
  BY DEF TypeOK
<1> QED BY <1>1 DEF Task, NoTask, Running

\* Moving a run on to a later stage keeps the type of tasks.
LEMMA TaskMoves ==
  ASSUME NEW k \in Kinds, NEW c \in Cids, TypeOK,
         tasks[k][c].pc \in {"persisting", "calling", "done", "abandoned"},
         NEW p \in {"persisting", "calling", "done", "abandoned"}
  PROVE  /\ [tasks EXCEPT ![k][c].pc = p]
              = [tasks EXCEPT ![k][c] = [pc |-> p, out |-> tasks[k][c].out]]
         /\ [tasks EXCEPT ![k][c].pc = p] \in [Kinds -> [Cids -> Task]]
<1> DEFINE t == [pc |-> p, out |-> tasks[k][c].out]
<1>1. /\ tasks[k][c].out \in Results
      /\ tasks[k][c] = [pc |-> tasks[k][c].pc, out |-> tasks[k][c].out]
  BY TaskStages
<1>2. [tasks[k][c] EXCEPT !.pc = p] = t
  BY <1>1
<1>3. t \in Task
  BY <1>1 DEF Task
<1>4. [tasks EXCEPT ![k][c] = t] \in [Kinds -> [Cids -> Task]]
  BY <1>3 DEF TypeOK
<1>5. [tasks EXCEPT ![k][c].pc = p] = [tasks EXCEPT ![k][c] = t]
  BY <1>2
<1> QED BY <1>4, <1>5

LEMMA RowStages ==
  ASSUME NEW c \in Cids, TypeOK, ops[c] # NoRow
  PROVE  ops[c] \in Row
BY DEF TypeOK

\* An UPDATE whose sender is gone names an operation and a result of a method.
LEMMA LateOutcomes ==
  ASSUME TypeOK, NEW w \in lateUpdates
  PROVE  w.cid \in Cids /\ w.out \in Results /\ LateStatements
BY DEF TypeOK

\* The UPDATE and the INSERT keep the type of the table.
LEMMA WriteOutcomeType ==
  ASSUME NEW c \in Cids, NEW out \in Results, TypeOK, WriteOutcome(c, out)
  PROVE  /\ ops[c] \in Row
         /\ ops'[c] = [req |-> ops[c].req, status |-> dbStatus(out), outputs |-> out]
         /\ ops'[c].req = ops[c].req /\ ops'[c].outputs = out /\ ops'[c].status = dbStatus(out)
         /\ ops'[c] \in Row
         /\ \A d \in Cids \ {c} : ops'[d] = ops[d]
         /\ ops' \in [Cids -> Row \cup {NoRow}]
         /\ written' \subseteq [cid : Cids, out : Results]
<1>1. ops[c] \in Row
  BY RowStages DEF WriteOutcome
<1>2. ops'[c] = [req |-> ops[c].req, status |-> dbStatus(out), outputs |-> out]
  BY <1>1 DEF WriteOutcome, TypeOK, Row
<1>3. ops'[c] \in Row
  BY <1>1, <1>2, StatusOfResult, RecordTypes DEF Row
<1>4. ops' = [ops EXCEPT ![c] = ops'[c]]
  BY <1>1, <1>2 DEF WriteOutcome, TypeOK, Row
<1>5. \A d \in Cids \ {c} : ops'[d] = ops[d]
  BY <1>4, CallTypes DEF TypeOK
<1>6. ops' \in [Cids -> Row \cup {NoRow}]
  BY <1>3, <1>4 DEF TypeOK
<1>7. written' \subseteq [cid : Cids, out : Results]
  BY DEF WriteOutcome, TypeOK
<1> QED BY <1>1, <1>2, <1>3, <1>5, <1>6, <1>7

-----------------------------------------------------------------------------
(* Type correctness *)

LEMMA InitTypeOK == Init => TypeOK
BY RecordTypes, ConstantsAssumption
   DEF Init, TypeOK, Phases, FetchState, Kinds

LEMMA StepTypeOK == TypeOK /\ [Next]_vars => TypeOK'
<1> SUFFICES ASSUME TypeOK, [Next]_vars PROVE TypeOK'
  OBVIOUS
<1> USE ConstantsAssumption, RecordTypes
<1>1. CASE ProcessStep
  BY <1>1 DEF TypeOK, ProcessStep, Start, MigrationSucceeds, MigrationFails, Phases,
              FetchState, dbVars, late, toldVars
<1>2. CASE Crash
  <2>1. InsertsSent \subseteq Requests /\ UpdatesSent \subseteq [cid : Cids, out : Results]
    BY DEF InsertsSent, UpdatesSent
  <2>2. /\ lateInserts' \subseteq IF LateStatements THEN Requests ELSE {}
        /\ lateUpdates' \subseteq IF LateStatements THEN [cid : Cids, out : Results] ELSE {}
    BY <1>2, <2>1 DEF TypeOK, Crash, GoAstray
  <2> QED BY <1>2, <2>2 DEF TypeOK, Crash, Phases, FetchState, toldVars, Kinds
<1>3. ASSUME NEW m \in Methods, FetchStep(m) PROVE TypeOK'
  <2>1. CASE AnswerFetch(m)
    BY <2>1 DEF TypeOK, AnswerFetch, PendingRows, FetchState, dbVars, late, toldVars
  <2>2. CASE FetchFails(m)
    BY <2>2 DEF TypeOK, FetchFails, FetchState, dbVars, late, toldVars
  <2>3. CASE Replay(m)
    BY <2>3 DEF TypeOK, Replay, FetchState, dbVars, late, toldVars, Kinds
  <2> QED BY <1>3, <2>1, <2>2, <2>3 DEF FetchStep
<1>4. ASSUME NEW k \in Calls, NEW r \in Requests, ClientCalls(k, r) PROVE TypeOK'
  BY <1>4, CallTypes DEF TypeOK, ClientCalls, dbVars, late, toldVars
<1>5. ASSUME NEW k \in Calls, CallStep(k) PROVE TypeOK'
  <2>1. CASE CallRejected(k)
    BY <2>1 DEF TypeOK, CallRejected, dbVars, late, toldVars
  <2>2. CASE SaveFails(k)
    <3>1. calls[k].req \in Requests
      BY <2>2, CallStages DEF SaveFails
    <3> QED BY <2>2, <3>1 DEF TypeOK, SaveFails, GoAstray, toldVars
  <2>3. CASE LaunchAndReply(k)
    BY <2>3, CallStages DEF TypeOK, LaunchAndReply, Kinds, dbVars, late
  <2>4. CASE ReplyDuplicate(k)
    BY <2>4, CallStages DEF TypeOK, ReplyDuplicate, dbVars, late
  <2>5. ASSUME NEW c \in Cids, SaveInserts(k, c) PROVE TypeOK'
    <3>1. calls'[k] \in Call
      BY <2>5, CallStages, CallTypes DEF TypeOK, SaveInserts
    <3>2. calls' = [calls EXCEPT ![k] = calls'[k]]
      BY <2>5 DEF TypeOK, SaveInserts
    <3> QED BY <2>5, <3>1, <3>2, CallStages DEF TypeOK, SaveInserts, InsertRow, late, toldVars
  <2>6. ASSUME NEW c \in Cids, SaveFindsRow(k, c) PROVE TypeOK'
    <3>1. ops[c] \in Row
      BY <2>6, CallStages, RowStages DEF SaveFindsRow, RowsOf, NoRow
    <3>2. calls'[k] \in Call
      BY <2>6, <3>1, CallStages, CallTypes DEF TypeOK, SaveFindsRow, Row
    <3>3. calls' = [calls EXCEPT ![k] = calls'[k]]
      BY <2>6 DEF TypeOK, SaveFindsRow
    <3> QED BY <2>6, <3>2, <3>3 DEF TypeOK, SaveFindsRow, dbVars, late, toldVars
  <2>7. ASSUME NEW c \in Cids, SaveAckLost(k, c) PROVE TypeOK'
    BY <2>7, CallStages, CallTypes, RecordTypes DEF TypeOK, SaveAckLost, InsertRow, late,
                                                        toldVars
  <2> QED BY <1>5, <2>1, <2>2, <2>3, <2>4, <2>5, <2>6, <2>7 DEF CallStep
<1>6. ASSUME NEW c \in Cids, PollStatus(c) PROVE TypeOK'
  BY <1>6 DEF TypeOK, PollStatus, dbVars, late, Row
<1>7. ASSUME NEW k \in Kinds, NEW c \in Cids, TaskStep(k, c) PROVE TypeOK'
  <2>1. ASSUME NEW out \in Results, MethodEnds(k, c, out) PROVE TypeOK'
    BY <2>1 DEF TypeOK, MethodEnds, dbVars, late, toldVars
  <2>2. CASE Persist(k, c)
    <3>1. tasks[k][c].out \in Results
      BY <2>2, TaskStages DEF Persist
    <3>2. ops' \in [Cids -> Row \cup {NoRow}] /\ written' \subseteq [cid : Cids, out : Results]
      BY <2>2, <3>1, WriteOutcomeType DEF Persist
    <3>3. tasks' \in [Kinds -> [Cids -> Task]]
      BY <2>2, TaskMoves DEF Persist
    <3> QED BY <2>2, <3>2, <3>3 DEF TypeOK, Persist, late, toldVars
  <2>3. CASE PersistFails(k, c)
    <3>1. tasks' \in [Kinds -> [Cids -> Task]]
      BY <2>3, TaskMoves DEF PersistFails
    <3>2. [cid |-> c, out |-> tasks[k][c].out] \in [cid : Cids, out : Results]
      BY <2>3, TaskStages DEF PersistFails
    <3>3. /\ lateInserts' \subseteq IF LateStatements THEN Requests ELSE {}
          /\ lateUpdates' \subseteq IF LateStatements THEN [cid : Cids, out : Results] ELSE {}
      BY <2>3, <3>2 DEF TypeOK, PersistFails, GoAstray
    <3> QED BY <2>3, <3>1, <3>3 DEF TypeOK, PersistFails, toldVars
  <2>4. CASE PersistAckLost(k, c)
    <3>1. tasks[k][c].out \in Results
      BY <2>4, TaskStages DEF PersistAckLost
    <3>2. ops' \in [Cids -> Row \cup {NoRow}] /\ written' \subseteq [cid : Cids, out : Results]
      BY <2>4, <3>1, WriteOutcomeType DEF PersistAckLost
    <3>3. tasks' \in [Kinds -> [Cids -> Task]]
      BY <2>4, TaskMoves DEF PersistAckLost
    <3> QED BY <2>4, <3>2, <3>3 DEF TypeOK, PersistAckLost, late, toldVars
  <2>5. CASE SendCallback(k, c)
    <3>1. tasks' \in [Kinds -> [Cids -> Task]]
      BY <2>5, TaskMoves DEF SendCallback
    <3>2. tasks[k][c].out \in Outputs
      BY <2>5, TaskStages DEF SendCallback
    <3>3. notices' \subseteq [cid : Cids, out : Outputs]
      BY <2>5, <3>2 DEF TypeOK, SendCallback
    <3> QED BY <2>5, <3>1, <3>3 DEF TypeOK, SendCallback, dbVars, late
  <2>6. CASE ConversionThrows(k, c)
    BY <2>6 DEF TypeOK, ConversionThrows, dbVars, late, toldVars
  <2> QED BY <1>7, <2>1, <2>2, <2>3, <2>4, <2>5, <2>6 DEF TaskStep
<1>8. CASE UNCHANGED vars
  BY <1>8 DEF TypeOK, vars, dbVars, late, toldVars
<1>9. CASE Arrival
  <2>1. ASSUME NEW r \in Requests, NEW c \in Cids, InsertArrives(r, c) PROVE TypeOK'
    BY <2>1 DEF TypeOK, InsertArrives, InsertRow, toldVars
  <2>2. ASSUME NEW w \in lateUpdates, UpdateArrives(w) PROVE TypeOK'
    <3>1. w.cid \in Cids /\ w.out \in Results
      BY LateOutcomes
    <3>2. ops' \in [Cids -> Row \cup {NoRow}] /\ written' \subseteq [cid : Cids, out : Results]
      BY <2>2, <3>1, WriteOutcomeType DEF UpdateArrives
    <3> QED BY <2>2, <3>2 DEF TypeOK, UpdateArrives, toldVars
  <2> QED BY <1>9, <2>1, <2>2 DEF Arrival
<1> QED BY <1>1, <1>2, <1>3, <1>4, <1>5, <1>6, <1>7, <1>8, <1>9 DEF Next

\* The operations table, the calls, the tasks and everything told keep their types.
THEOREM TypeCorrect == Spec => []TypeOK
<1>1. Init => TypeOK                BY InitTypeOK
<1>2. TypeOK /\ [Next]_vars => TypeOK'   BY StepTypeOK
<1> QED BY <1>1, <1>2, PTL DEF Spec

-----------------------------------------------------------------------------
(* What a step can do to the table, the calls, the tasks and what is told *)

\* The table changes by one INSERT or by one UPDATE, of a running finalize or of one
\* that is gone.
LEMMA TableSteps ==
  ASSUME TypeOK, [Next]_vars
  PROVE  \/ UNCHANGED <<ops, written>>
         \/ \E r \in Requests, c \in Cids : InsertRow(r, c) /\ written' = written
         \/ \E c \in Cids, out \in Results :
               /\ WriteOutcome(c, out)
               /\ \/ \E k \in Kinds : tasks[k][c].pc = "persisting" /\ tasks[k][c].out = out
                  \/ LateStatements
<1>1. ASSUME NEW k \in Calls, CallStep(k)
      PROVE  \/ UNCHANGED <<ops, written>>
             \/ \E r \in Requests, c \in Cids : InsertRow(r, c) /\ written' = written
  <2>1. ASSUME NEW c \in Cids, SaveInserts(k, c) \/ SaveAckLost(k, c)
        PROVE  \E r \in Requests : InsertRow(r, c) /\ written' = written
    <3>1. calls[k].req \in Requests
      BY <2>1, CallStages DEF SaveInserts, SaveAckLost
    <3> QED BY <2>1, <3>1 DEF SaveInserts, SaveAckLost
  <2>2. ASSUME NEW c \in Cids, SaveFindsRow(k, c) PROVE UNCHANGED <<ops, written>>
    BY <2>2 DEF SaveFindsRow, dbVars
  <2>3. CASE CallRejected(k) \/ SaveFails(k) \/ LaunchAndReply(k) \/ ReplyDuplicate(k)
    BY <2>3 DEF CallRejected, SaveFails, LaunchAndReply, ReplyDuplicate, dbVars
  <2> QED BY <1>1, <2>1, <2>2, <2>3 DEF CallStep
<1>2. ASSUME NEW k \in Kinds, NEW c \in Cids, TaskStep(k, c)
      PROVE  \/ UNCHANGED <<ops, written>>
             \/ /\ tasks[k][c].pc = "persisting" /\ tasks[k][c].out \in Results
                /\ WriteOutcome(c, tasks[k][c].out)
  BY <1>2, TaskStages
     DEF TaskStep, MethodEnds, Persist, PersistFails, PersistAckLost, SendCallback,
         ConversionThrows, dbVars
<1>3. CASE Arrival
  <2>1. ASSUME NEW r \in Requests, NEW c \in Cids, InsertArrives(r, c)
        PROVE  InsertRow(r, c) /\ written' = written
    BY <2>1 DEF InsertArrives
  <2>2. ASSUME NEW w \in lateUpdates, UpdateArrives(w)
        PROVE  \E c \in Cids, out \in Results : WriteOutcome(c, out) /\ LateStatements
    BY <2>2, LateOutcomes DEF UpdateArrives
  <2> QED BY <1>3, <2>1, <2>2 DEF Arrival
<1> QED
  BY <1>1, <1>2, <1>3
     DEF Next, ProcessStep, Start, MigrationSucceeds, MigrationFails, Crash, FetchStep,
         AnswerFetch, FetchFails, Replay, ClientCalls, PollStatus, vars, dbVars

\* A call moves through its stages by its own actions only.
LEMMA CallSteps ==
  ASSUME TypeOK, [Next]_vars, NEW k \in Calls
  PROVE  \/ calls'[k] = calls[k]
         \/ calls'[k] = IdleCall
         \/ \E r \in Requests : calls'[k] = Waiting(r)
         \/ \E c \in Cids : SaveInserts(k, c) \/ SaveFindsRow(k, c)
<1> USE DEF TypeOK
<1>1. CASE Crash
  BY <1>1 DEF Crash
<1>2. ASSUME NEW j \in Calls, CallStep(j)
      PROVE  \/ calls'[k] = calls[k]
             \/ calls'[k] = IdleCall
             \/ \E c \in Cids : SaveInserts(k, c) \/ SaveFindsRow(k, c)
  BY <1>2 DEF CallStep, CallRejected, SaveFails, LaunchAndReply, ReplyDuplicate, SaveInserts,
              SaveFindsRow, SaveAckLost
<1>3. ASSUME NEW j \in Calls, NEW r \in Requests, ClientCalls(j, r)
      PROVE  calls'[k] = calls[k] \/ calls'[k] = Waiting(r)
  BY <1>3 DEF ClientCalls
<1>4. ASSUME NEW l \in Kinds, NEW c \in Cids, TaskStep(l, c) PROVE calls' = calls
  BY <1>4 DEF TaskStep, MethodEnds, Persist, PersistFails, PersistAckLost, SendCallback,
              ConversionThrows
<1>5. CASE Arrival
  BY <1>5 DEF Arrival, InsertArrives, UpdateArrives
<1>6. CASE ProcessStep \/ (\E m \in Methods : FetchStep(m)) \/ (\E c \in Cids : PollStatus(c))
           \/ UNCHANGED vars
  BY <1>6 DEF ProcessStep, Start, MigrationSucceeds, MigrationFails, FetchStep, AnswerFetch,
              FetchFails, Replay, PollStatus, vars
<1> QED BY <1>1, <1>2, <1>3, <1>4, <1>5, <1>6 DEF Next

\* A run reaches sendCallback only from completeOperation.
LEMMA CallingSteps ==
  ASSUME TypeOK, [Next]_vars, NEW k \in Kinds, NEW c \in Cids, tasks'[k][c].pc = "calling"
  PROVE  tasks'[k][c] = tasks[k][c] \/ Persist(k, c)
<1> USE DEF TypeOK
<1>1. CASE Crash
  BY <1>1 DEF Crash, NoTask
<1>2. ASSUME NEW m \in Methods, FetchStep(m) PROVE tasks'[k][c] = tasks[k][c]
  BY <1>2 DEF FetchStep, AnswerFetch, FetchFails, Replay, Running, Kinds
<1>3. ASSUME NEW j \in Calls, CallStep(j) PROVE tasks'[k][c] = tasks[k][c]
  BY <1>3, CallStages
     DEF CallStep, CallRejected, SaveFails, LaunchAndReply, ReplyDuplicate, SaveInserts,
         SaveFindsRow, SaveAckLost, Running, Kinds
<1>4. ASSUME NEW l \in Kinds, NEW d \in Cids, TaskStep(l, d)
      PROVE  tasks'[k][c] = tasks[k][c] \/ Persist(k, c)
  <2>1. CASE l = k /\ d = c
    <3>1. \A p \in {"done", "abandoned"} :
              tasks' = [tasks EXCEPT ![k][c].pc = p] => tasks'[k][c].pc = p
      <4> SUFFICES ASSUME NEW p \in {"done", "abandoned"}, tasks' = [tasks EXCEPT ![k][c].pc = p]
                   PROVE  tasks'[k][c].pc = p
        OBVIOUS
      <4>1. tasks'[k][c] = [tasks[k][c] EXCEPT !.pc = p]
        OBVIOUS
      <4>2. tasks[k][c] \in Task
        OBVIOUS
      <4> QED BY <4>1, <4>2 DEF Task, NoTask, Running
    <3> QED BY <1>4, <2>1, <3>1
               DEF TaskStep, MethodEnds, PersistFails, PersistAckLost, SendCallback,
                   ConversionThrows
  <2>2. CASE ~(l = k /\ d = c)
    BY <1>4, <2>2 DEF TaskStep, MethodEnds, Persist, PersistFails, PersistAckLost, SendCallback,
                      ConversionThrows
  <2> QED BY <2>1, <2>2
<1> QED
  BY <1>1, <1>2, <1>3, <1>4
     DEF Next, ProcessStep, Start, MigrationSucceeds, MigrationFails, ClientCalls, PollStatus,
         Arrival, InsertArrives, UpdateArrives, vars

\* Clients and the router are told something by four actions.
LEMMA ToldSteps ==
  ASSUME TypeOK, [Next]_vars
  PROVE  \/ UNCHANGED <<replies, notices>>
         \/ \E k \in Calls : LaunchAndReply(k) \/ ReplyDuplicate(k)
         \/ \E c \in Cids : PollStatus(c)
         \/ \E k \in Kinds, c \in Cids : SendCallback(k, c)
<1>1. ASSUME NEW k \in Calls, CallStep(k)
      PROVE  UNCHANGED <<replies, notices>> \/ LaunchAndReply(k) \/ ReplyDuplicate(k)
  BY <1>1 DEF CallStep, CallRejected, SaveFails, SaveInserts, SaveFindsRow, SaveAckLost, toldVars
<1>2. ASSUME NEW k \in Kinds, NEW c \in Cids, TaskStep(k, c)
      PROVE  UNCHANGED <<replies, notices>> \/ SendCallback(k, c)
  BY <1>2 DEF TaskStep, MethodEnds, Persist, PersistFails, PersistAckLost, ConversionThrows,
              toldVars
<1>3. CASE ProcessStep \/ Crash \/ (\E m \in Methods : FetchStep(m))
           \/ (\E k \in Calls, r \in Requests : ClientCalls(k, r)) \/ Arrival \/ UNCHANGED vars
  BY <1>3 DEF ProcessStep, Start, MigrationSucceeds, MigrationFails, Crash, FetchStep,
              AnswerFetch, FetchFails, Replay, ClientCalls, Arrival, InsertArrives,
              UpdateArrives, vars, toldVars
<1> QED BY <1>1, <1>2, <1>3 DEF Next

-----------------------------------------------------------------------------
(* Answers and notices, for any timing of the clients *)

\* No step removes a row, changes its request, or forgets a written outcome.
LEMMA TableGrows ==
  ASSUME TypeOK, [Next]_vars
  PROVE  /\ written \subseteq written'
         /\ \A c \in Cids : ops[c] # NoRow => ops'[c] # NoRow /\ ops'[c].req = ops[c].req
<1>1. CASE UNCHANGED <<ops, written>>
  BY <1>1
<1>2. ASSUME NEW r \in Requests, NEW c \in Cids, InsertRow(r, c), written' = written
      PROVE  \A d \in Cids : ops[d] # NoRow => ops'[d] = ops[d]
  BY <1>2 DEF InsertRow, TypeOK
<1>3. ASSUME NEW c \in Cids, NEW out \in Results, WriteOutcome(c, out)
      PROVE  /\ written \subseteq written'
             /\ \A d \in Cids : ops[d] # NoRow => ops'[d] # NoRow /\ ops'[d].req = ops[d].req
  <2>1. written \subseteq written'
    BY <1>3 DEF WriteOutcome
  <2>2. ops'[c] \in Row /\ ops'[c].req = ops[c].req
    BY <1>3, WriteOutcomeType
  <2>3. \A d \in Cids \ {c} : ops'[d] = ops[d]
    BY <1>3, WriteOutcomeType
  <2>4. NoRow \notin Row
    BY ConstantsAssumption DEF NoRow, Row
  <2> QED BY <2>1, <2>2, <2>3, <2>4
<1> QED BY <1>1, <1>2, <1>3, TableSteps

LEMMA RowsStayUnique == TypeOK /\ RowsUnique /\ [Next]_vars => RowsUnique'
<1> SUFFICES ASSUME TypeOK, RowsUnique, [Next]_vars PROVE RowsUnique'
  OBVIOUS
<1>1. CASE UNCHANGED <<ops, written>>
  BY <1>1 DEF RowsUnique
<1>2. ASSUME NEW r \in Requests, NEW c \in Cids, InsertRow(r, c) PROVE RowsUnique'
  <2>1. ops'[c].req = r /\ \A d \in Cids \ {c} : ops'[d] = ops[d]
    BY <1>2 DEF InsertRow, TypeOK
  <2>2. \A d \in Cids : ops[d].req # r
    BY <1>2 DEF InsertRow, RowsOf
  <2> QED BY <2>1, <2>2 DEF RowsUnique
<1>3. ASSUME NEW c \in Cids, NEW out \in Results, WriteOutcome(c, out)
      PROVE  RowsUnique'
  <2>1. \A d \in Cids : ops'[d].req = ops[d].req /\ (ops'[d] # NoRow => ops[d] # NoRow)
    BY <1>3, WriteOutcomeType DEF WriteOutcome
  <2> QED BY <2>1 DEF RowsUnique
<1> QED BY <1>1, <1>2, <1>3, TableSteps

LEMMA RowsStayHonest == TypeOK /\ RowsHonest /\ [Next]_vars => RowsHonest'
<1> SUFFICES ASSUME TypeOK, RowsHonest, [Next]_vars, NEW c \in Cids, ops'[c] # NoRow
             PROVE  \/ ops'[c].outputs = Pending(c)
                    \/ [cid |-> c, out |-> ops'[c].outputs] \in written'
  BY DEF RowsHonest
<1>1. CASE UNCHANGED <<ops, written>>
  BY <1>1 DEF RowsHonest
<1>2. ASSUME NEW r \in Requests, NEW d \in Cids, InsertRow(r, d), written' = written
      PROVE  \/ ops'[c].outputs = Pending(c)
             \/ [cid |-> c, out |-> ops'[c].outputs] \in written'
  BY <1>2 DEF InsertRow, TypeOK, RowsHonest
<1>3. ASSUME NEW d \in Cids, NEW out \in Results, WriteOutcome(d, out)
      PROVE  \/ ops'[c].outputs = Pending(c)
             \/ [cid |-> c, out |-> ops'[c].outputs] \in written'
  <2>1. ops'[d].outputs = out
    BY <1>3, WriteOutcomeType
  <2>2. \A e \in Cids \ {d} : ops'[e] = ops[e]
    BY <1>3, WriteOutcomeType
  <2>3. [cid |-> d, out |-> out] \in written' /\ written \subseteq written'
    BY <1>3 DEF WriteOutcome
  <2> QED BY <2>1, <2>2, <2>3 DEF RowsHonest
<1> QED BY <1>1, <1>2, <1>3, TableSteps

\* An answer that is about an operation stays about it.
LEMMA AnswerPersists ==
  ASSUME TypeOK, RowsUnique, [Next]_vars, NEW r \in Requests, NEW out, NEW c \in Cids,
         AnswerAbout(r, out, c)
  PROVE  AnswerAbout(r, out, c)'
<1>1. ops[c].req = r /\ ops[c] # NoRow
  BY ConstantsAssumption DEF AnswerAbout, RowsOf, NoRow
<1>2. ops'[c].req = r /\ ops'[c] # NoRow /\ written \subseteq written'
  BY <1>1, TableGrows
<1>3. RowsUnique'
  BY RowsStayUnique
<1>4. RowsOf(r)' = {c}
  BY <1>2, <1>3 DEF RowsUnique, RowsOf
<1> QED BY <1>2, <1>4 DEF AnswerAbout

LEMMA CallsStayHonest ==
  TypeOK /\ RowsUnique /\ RowsHonest /\ CallsHonest /\ [Next]_vars => CallsHonest'
<1> SUFFICES ASSUME TypeOK, RowsUnique, RowsHonest, CallsHonest, [Next]_vars, NEW k \in Calls
             PROVE  /\ calls'[k].pc = "inserted" =>
                          AnswerAbout(calls[k].req, Pending(calls[k].cid), calls[k].cid)'
                    /\ calls'[k].pc = "duplicate" =>
                          (\E c \in Cids : AnswerAbout(calls[k].req, calls[k].out, c))'
  BY DEF CallsHonest
<1>1. CASE calls'[k] = calls[k]
  <2>1. CASE calls[k].pc = "inserted"
    <3>1. AnswerAbout(calls[k].req, Pending(calls[k].cid), calls[k].cid)
      BY <2>1 DEF CallsHonest
    <3>2. calls[k].req \in Requests /\ calls[k].cid \in Cids
      BY <2>1, CallStages
    <3>3. PICK r \in Requests, c \in Cids : r = calls[k].req /\ c = calls[k].cid
      BY <3>2
    <3>4. AnswerAbout(r, Pending(c), c)'
      BY <3>1, <3>3, AnswerPersists
    <3> QED BY <1>1, <2>1, <3>3, <3>4 DEF AnswerAbout, RowsOf
  <2>2. CASE calls[k].pc = "duplicate"
    <3>1. calls[k].req \in Requests
      BY <2>2, CallStages
    <3>2. PICK c \in Cids : AnswerAbout(calls[k].req, calls[k].out, c)
      BY <2>2 DEF CallsHonest
    <3>3. PICK r \in Requests, out \in Outputs : r = calls[k].req /\ out = calls[k].out
      BY <2>2, CallStages
    <3>4. AnswerAbout(r, out, c)'
      BY <3>2, <3>3, AnswerPersists
    <3> QED BY <1>1, <2>2, <3>3, <3>4 DEF AnswerAbout, RowsOf
  <2> QED BY <1>1, <2>1, <2>2
<1>2. CASE calls'[k] = IdleCall \/ \E r \in Requests : calls'[k] = Waiting(r)
  <2>1. IdleCall.pc = "idle" /\ \A r \in Requests : Waiting(r).pc = "waiting"
    BY DEF IdleCall, Waiting, CallStage
  <2> QED BY <1>2, <2>1
<1>3. ASSUME NEW c \in Cids, SaveInserts(k, c)
      PROVE  /\ calls'[k].pc = "inserted"
             /\ AnswerAbout(calls[k].req, Pending(calls[k].cid), calls[k].cid)'
  <2>1. calls'[k] = Inserted(calls[k].req, c)
    BY <1>3 DEF SaveInserts, TypeOK
  <2>2. ops'[c].req = calls[k].req /\ RowsOf(calls[k].req) = {}
        /\ \A d \in Cids \ {c} : ops'[d] = ops[d]
    BY <1>3 DEF SaveInserts, InsertRow, TypeOK
  <2> QED BY <2>1, <2>2 DEF Inserted, CallStage, AnswerAbout, RowsOf
<1>4. ASSUME NEW c \in Cids, SaveFindsRow(k, c)
      PROVE  /\ calls'[k].pc = "duplicate"
             /\ AnswerAbout(calls[k].req, calls[k].out, c)'
  <2>1. calls'[k] = Duplicate(calls[k].req, ops[c].outputs)
    BY <1>4 DEF SaveFindsRow, TypeOK
  <2>2. ops' = ops /\ written' = written /\ ops[c].req = calls[k].req
    BY <1>4 DEF SaveFindsRow, RowsOf, dbVars
  <2>3. ops[c] # NoRow
    BY <1>4, <2>2, CallStages, ConstantsAssumption DEF SaveFindsRow, NoRow
  <2>4. RowsOf(calls[k].req) = {c}
    BY <2>2, <2>3 DEF RowsOf, RowsUnique
  <2> QED BY <2>1, <2>2, <2>3, <2>4 DEF Duplicate, CallStage, AnswerAbout, RowsOf, RowsHonest
<1> QED BY <1>1, <1>2, <1>3, <1>4, CallSteps

LEMMA RunsStayHonest == TypeOK /\ RunsHonest /\ [Next]_vars => RunsHonest'
<1> SUFFICES ASSUME TypeOK, RunsHonest, [Next]_vars, NEW k \in Kinds, NEW c \in Cids,
                    tasks'[k][c].pc = "calling"
             PROVE  [cid |-> c, out |-> tasks'[k][c].out] \in written'
  BY DEF RunsHonest
<1>1. CASE tasks'[k][c] = tasks[k][c]
  BY <1>1, TableGrows DEF RunsHonest
<1>2. CASE Persist(k, c)
  <2>1. tasks[k][c] = [pc |-> "persisting", out |-> tasks[k][c].out]
    BY <1>2, TaskStages DEF Persist
  <2>2. tasks'[k][c].out = tasks[k][c].out
    BY <1>2, <2>1 DEF Persist, TypeOK
  <2> QED BY <1>2, <2>2 DEF Persist, WriteOutcome
<1> QED BY <1>1, <1>2, CallingSteps

LEMMA AnswersStay ==
  TypeOK /\ RowsUnique /\ CallsHonest /\ AnswersNameOneOperation /\ [Next]_vars
    => AnswersNameOneOperation'
<1> SUFFICES ASSUME TypeOK, RowsUnique, CallsHonest, AnswersNameOneOperation, [Next]_vars,
                    NEW x \in replies'
             PROVE  \E c \in Cids : AnswerAbout(x.req, x.out, c)'
  BY DEF AnswersNameOneOperation
<1>1. CASE x \in replies
  <2>1. x.req \in Requests
    BY <1>1 DEF TypeOK
  <2>2. PICK c \in Cids : AnswerAbout(x.req, x.out, c)
    BY <1>1 DEF AnswersNameOneOperation
  <2>3. AnswerAbout(x.req, x.out, c)'
    BY <2>1, <2>2, AnswerPersists
  <2> QED BY <2>3
<1>2. ASSUME NEW k \in Calls, LaunchAndReply(k), x \notin replies
      PROVE  \E c \in Cids : AnswerAbout(x.req, x.out, c)'
  <2>1. x.req = calls[k].req /\ x.out = Pending(calls[k].cid)
    BY <1>2 DEF LaunchAndReply
  <2>2. AnswerAbout(x.req, x.out, calls[k].cid)
    BY <1>2, <2>1 DEF LaunchAndReply, CallsHonest
  <2>3. calls[k].req \in Requests /\ calls[k].cid \in Cids
    BY <1>2, CallStages DEF LaunchAndReply
  <2> QED BY <2>1, <2>2, <2>3, AnswerPersists
<1>3. ASSUME NEW k \in Calls, ReplyDuplicate(k), x \notin replies
      PROVE  \E c \in Cids : AnswerAbout(x.req, x.out, c)'
  <2>1. x.req = calls[k].req /\ x.out = calls[k].out
    BY <1>3 DEF ReplyDuplicate
  <2>2. PICK c \in Cids : AnswerAbout(x.req, x.out, c)
    BY <1>3, <2>1 DEF ReplyDuplicate, CallsHonest
  <2>3. calls[k].req \in Requests
    BY <1>3, CallStages DEF ReplyDuplicate
  <2> QED BY <2>1, <2>2, <2>3, AnswerPersists
<1>4. CASE replies' = replies
  BY <1>1, <1>4
<1> QED BY <1>1, <1>2, <1>3, <1>4, ToldSteps DEF PollStatus, SendCallback

LEMMA NoticesStay ==
  TypeOK /\ RowsHonest /\ RunsHonest /\ NoticesArePersisted /\ [Next]_vars
    => NoticesArePersisted'
<1> SUFFICES ASSUME TypeOK, RowsHonest, RunsHonest, NoticesArePersisted, [Next]_vars,
                    NEW n \in notices', n.out.type # "pending"
             PROVE  n \in written'
  BY DEF NoticesArePersisted
<1>1. CASE n \in notices
  BY <1>1, TableGrows DEF NoticesArePersisted
<1>2. ASSUME NEW c \in Cids, PollStatus(c), n \notin notices
      PROVE  n \in written'
  <2>1. n = [cid |-> c, out |-> ops[c].outputs] /\ ops[c] # NoRow
    BY <1>2 DEF PollStatus
  <2>2. ops[c].outputs # Pending(c)
    BY <2>1 DEF Pending
  <2> QED BY <2>1, <2>2, TableGrows DEF RowsHonest
<1>3. ASSUME NEW k \in Kinds, NEW c \in Cids, SendCallback(k, c), n \notin notices
      PROVE  n \in written'
  <2>1. n = [cid |-> c, out |-> tasks[k][c].out] /\ tasks[k][c].pc = "calling"
    BY <1>3 DEF SendCallback
  <2> QED BY <2>1, TableGrows DEF RunsHonest
<1>4. CASE notices' = notices
  BY <1>1, <1>4
<1> QED BY <1>1, <1>2, <1>3, <1>4, ToldSteps DEF LaunchAndReply, ReplyDuplicate

LEMMA OpenInvariance == Spec => []OpenInv
<1>1. Init => OpenInv
  <2> SUFFICES ASSUME Init PROVE OpenInv
    OBVIOUS
  <2>1. TypeOK
    BY InitTypeOK
  <2>2. RowsUnique /\ RowsHonest /\ AnswersNameOneOperation /\ NoticesArePersisted
    BY DEF Init, RowsUnique, RowsHonest, AnswersNameOneOperation, NoticesArePersisted
  <2>3. CallsHonest /\ RunsHonest
    BY DEF Init, CallsHonest, RunsHonest, IdleCall, CallStage, NoTask
  <2> QED BY <2>1, <2>2, <2>3 DEF OpenInv
<1>2. OpenInv /\ [Next]_vars => OpenInv'
  BY StepTypeOK, RowsStayUnique, RowsStayHonest, CallsStayHonest, RunsStayHonest, AnswersStay,
     NoticesStay DEF OpenInv
<1> QED BY <1>1, <1>2, PTL DEF Spec

\* However requests are repeated and wherever the process crashes, the answers to
\* a request are about one and the same row.
THEOREM AnswersCorrect == Spec => []AnswersNameOneOperation
<1>1. OpenInv => AnswersNameOneOperation
  BY DEF OpenInv
<1> QED BY <1>1, OpenInvariance, PTL

\* Whatever terminal outcome the router hears was written to the table first.
THEOREM NoticesCorrect == Spec => []NoticesArePersisted
<1>1. OpenInv => NoticesArePersisted
  BY DEF OpenInv
<1> QED BY <1>1, OpenInvariance, PTL

-----------------------------------------------------------------------------
(* Pending rows, for any timing of the clients *)

\* A step that leaves a pending row as it is leaves it an owner, or a reason why
\* it has none.
LEMMA RowStaysOwned ==
  ASSUME TypeOK, PendingRowsAreOwned, [Next]_vars, NEW c \in Cids, InProgress(c),
         ops'[c] = ops[c]
  PROVE  Owned(c)' \/ LeftBehind(c)'
<1> USE DEF TypeOK, dbVars, late, toldVars
<1>1. ops[c] \in Row
  BY RowStages DEF InProgress, NoRow
<1>2. PICK n \in Methods : n = MethodOf[ops[c].req]
  BY <1>1, ConstantsAssumption DEF Row
<1>3. Owned(c) \/ LeftBehind(c)
  BY DEF PendingRowsAreOwned
<1>4. CASE Start \/ MigrationSucceeds \/ MigrationFails \/ Crash
  BY <1>2, <1>4 DEF Start, MigrationSucceeds, MigrationFails, Crash, Owned, LeftBehind,
                    InProgress
<1>5. ASSUME NEW m \in Methods, AnswerFetch(m) \/ FetchFails(m)
      PROVE  Owned(c)' \/ LeftBehind(c)'
  BY <1>2, <1>3, <1>5 DEF AnswerFetch, FetchFails, PendingRows, Owned, LeftBehind, InProgress,
                          Active
<1>6. ASSUME NEW m \in Methods, Replay(m)
      PROVE  Owned(c)' \/ LeftBehind(c)'
  <2>1. CASE c \in fetched[m]
    BY <1>6, <2>1 DEF Replay, Owned, Active, Running, Kinds
  <2>2. CASE c \notin fetched[m]
    <3>1. \A k \in Kinds : tasks'[k][c] = tasks[k][c]
      BY <1>6, <2>2 DEF Replay, Kinds
    <3> QED BY <1>2, <1>3, <1>6, <2>2, <3>1 DEF Replay, Owned, LeftBehind, InProgress, Active
  <2> QED BY <2>1, <2>2
<1>7. ASSUME NEW k \in Calls, CallStep(k) PROVE Owned(c)' \/ LeftBehind(c)'
  <2>1. CASE LaunchAndReply(k)
    <3>1. CASE calls[k].cid = c
      BY <2>1, <3>1 DEF LaunchAndReply, Owned, Active, Running, Kinds
    <3>2. CASE calls[k].cid # c
      <4>1. \A l \in Kinds : tasks'[l][c] = tasks[l][c]
        BY <2>1, <3>2 DEF LaunchAndReply, Kinds
      <4>2. \A j \in Calls \ {k} : calls'[j] = calls[j]
        BY <2>1 DEF LaunchAndReply
      <4> QED BY <1>3, <2>1, <3>2, <4>1, <4>2
              DEF LaunchAndReply, Owned, LeftBehind, InProgress, Active
    <3> QED BY <3>1, <3>2
  <2>2. CASE ~LaunchAndReply(k)
    <3>1. calls[k].pc # "inserted" /\ \A j \in Calls \ {k} : calls'[j] = calls[j]
      BY <1>7, <2>2 DEF CallStep, CallRejected, SaveFails, ReplyDuplicate, SaveInserts,
                        SaveFindsRow, SaveAckLost
    <3>2. UNCHANGED <<phase, fetch, fetched, tasks>> /\ unstarted \subseteq unstarted'
      BY <1>7, <2>2 DEF CallStep, CallRejected, SaveFails, ReplyDuplicate, SaveInserts,
                        SaveFindsRow, SaveAckLost
    <3> QED BY <1>3, <3>1, <3>2 DEF Owned, LeftBehind, InProgress, Active
  <2> QED BY <2>1, <2>2
<1>8. ASSUME NEW k \in Kinds, NEW d \in Cids, TaskStep(k, d) PROVE Owned(c)' \/ LeftBehind(c)'
  <2>1. UNCHANGED <<phase, calls, fetch, fetched, unstarted>>
    BY <1>8 DEF TaskStep, MethodEnds, Persist, PersistFails, PersistAckLost, SendCallback,
                ConversionThrows
  <2>2. \A l \in Kinds : l # k \/ d # c => tasks'[l][c] = tasks[l][c]
    BY <1>8 DEF TaskStep, MethodEnds, Persist, PersistFails, PersistAckLost, SendCallback,
                ConversionThrows
  <2>3. CASE d # c
    BY <1>3, <2>1, <2>2, <2>3 DEF Owned, LeftBehind, InProgress, Active
  <2>4. CASE d = c
    <3>1. CASE \E out \in Results : MethodEnds(k, c, out)
      <4>1. Active(k, c)'
        BY <3>1 DEF MethodEnds, Active
      <4> QED BY <4>1 DEF Owned
    <3>2. CASE ConversionThrows(k, c)
      <4>1. Active(k, c)'
        BY <3>2 DEF ConversionThrows, Active
      <4> QED BY <4>1 DEF Owned
    <3>3. CASE PersistFails(k, c)
      <4>1. tasks'[k][c] = [tasks[k][c] EXCEPT !.pc = "abandoned"] /\ tasks[k][c] \in Task
        BY <3>3 DEF PersistFails
      <4>2. tasks'[k][c].pc = "abandoned"
        BY <4>1 DEF Task, NoTask, Running
      <4> QED BY <4>2 DEF LeftBehind, InProgress
    <3>4. CASE Persist(k, c) \/ PersistAckLost(k, c)
      <4>1. PICK out \in Results : out = tasks[k][c].out /\ WriteOutcome(c, out)
        BY <3>4, TaskStages DEF Persist, PersistAckLost
      <4>2. dbStatus(out) = "in_progress" /\ ops'[c].outputs = out
        <5>1. ops'[c].status = dbStatus(out) /\ ops'[c].outputs = out
          BY <4>1, WriteOutcomeType
        <5> QED BY <5>1 DEF InProgress
      <4>3. ops[c].outputs = Deferred
        BY <4>2, StatusOfResult
      <4> QED BY <4>3 DEF LeftBehind, InProgress
    <3>5. CASE SendCallback(k, c)
      <4>1. tasks[k][c].pc = "calling"
        BY <3>5 DEF SendCallback
      <4> QED BY <1>3, <2>1, <2>2, <4>1 DEF Owned, LeftBehind, InProgress, Active
    <3> QED BY <1>8, <2>4, <3>1, <3>2, <3>3, <3>4, <3>5 DEF TaskStep
  <2> QED BY <2>3, <2>4
<1>9. CASE (\E k \in Calls, r \in Requests : ClientCalls(k, r)) \/ (\E d \in Cids : PollStatus(d))
           \/ UNCHANGED vars
  <2>1. UNCHANGED <<phase, fetch, fetched, tasks, unstarted>>
    BY <1>9 DEF ClientCalls, PollStatus, vars
  <2>2. \A k \in Calls : calls[k].pc = "inserted" => calls'[k] = calls[k]
    BY <1>9 DEF ClientCalls, PollStatus, vars, IdleCall, CallStage
  <2> QED BY <1>3, <2>1, <2>2 DEF Owned, LeftBehind, InProgress, Active
<1>10. CASE Arrival
  <2>1. UNCHANGED <<phase, calls, fetch, fetched, tasks>> /\ unstarted \subseteq unstarted'
    BY <1>10 DEF Arrival, InsertArrives, UpdateArrives
  <2> QED BY <1>3, <2>1 DEF Owned, LeftBehind, InProgress, Active
<1> QED BY <1>4, <1>5, <1>6, <1>7, <1>8, <1>9, <1>10 DEF Next, ProcessStep, FetchStep

\* A new row belongs to the call that inserted it, unless its INSERT was not
\* acknowledged or came late; an UPDATE leaves a row pending only with a deferred outcome.
LEMMA ChangedRowOwned ==
  ASSUME TypeOK, [Next]_vars, NEW c \in Cids, InProgress(c)', ops'[c] # ops[c]
  PROVE  Owned(c)' \/ LeftBehind(c)'
<1>1. ASSUME NEW k \in Calls, NEW d \in Cids, SaveInserts(k, d)
      PROVE  Owned(c)' \/ LeftBehind(c)'
  <2>1. d = c
    BY <1>1 DEF SaveInserts, InsertRow, TypeOK
  <2>2. calls'[k].pc = "inserted" /\ calls'[k].cid = c
    BY <1>1, <2>1 DEF SaveInserts, Inserted, CallStage, TypeOK
  <2> QED BY <2>2 DEF Owned
<1>2. ASSUME NEW k \in Calls, NEW d \in Cids, SaveAckLost(k, d)
      PROVE  Owned(c)' \/ LeftBehind(c)'
  <2>1. d = c /\ c \in unstarted'
    BY <1>2 DEF SaveAckLost, InsertRow, TypeOK
  <2> QED BY <2>1 DEF LeftBehind, InProgress
<1>3. ASSUME NEW k \in Kinds, NEW d \in Cids, Persist(k, d) \/ PersistAckLost(k, d)
      PROVE  Owned(c)' \/ LeftBehind(c)'
  <2>1. PICK out \in Results : WriteOutcome(d, out)
    BY <1>3, TaskStages DEF Persist, PersistAckLost
  <2>2. d = c
    BY <2>1, WriteOutcomeType
  <2>3. ops'[c].outputs = Deferred
    BY <2>1, <2>2, WriteOutcomeType, StatusOfResult DEF InProgress
  <2> QED BY <2>3 DEF LeftBehind, InProgress
<1>4. ASSUME NEW r \in Requests, NEW d \in Cids, InsertArrives(r, d)
      PROVE  Owned(c)' \/ LeftBehind(c)'
  <2>1. d = c
    BY <1>4 DEF InsertArrives, InsertRow, TypeOK
  <2>2. phase' \in {"down", "migrating"} \/ c \in unstarted'
    BY <1>4, <2>1 DEF InsertArrives
  <2> QED BY <2>2 DEF Owned, LeftBehind, InProgress
<1>5. ASSUME NEW w \in lateUpdates, UpdateArrives(w)
      PROVE  Owned(c)' \/ LeftBehind(c)'
  <2>1. PICK d \in Cids, out \in Results : WriteOutcome(d, out)
    BY <1>5, LateOutcomes DEF UpdateArrives
  <2>2. d = c
    BY <2>1, WriteOutcomeType
  <2>3. ops'[c].outputs = Deferred
    BY <2>1, <2>2, WriteOutcomeType, StatusOfResult DEF InProgress
  <2> QED BY <2>3 DEF LeftBehind, InProgress
<1> QED BY <1>1, <1>2, <1>3, <1>4, <1>5
  DEF Next, Arrival, ProcessStep, Start, MigrationSucceeds, MigrationFails, Crash, FetchStep, AnswerFetch,
      FetchFails, Replay, ClientCalls, CallStep, CallRejected, SaveFails, LaunchAndReply,
      ReplyDuplicate, SaveFindsRow, PollStatus, TaskStep, MethodEnds, PersistFails, SendCallback,
      ConversionThrows, vars, dbVars

\* createServiceProxy, its recovery and finalize: no interleaving strands a
\* pending row, but for the failures LeftBehind lists.
THEOREM OwnersCorrect == Spec => []PendingRowsAreOwned
<1>1. Init => PendingRowsAreOwned
  BY DEF Init, PendingRowsAreOwned, InProgress, NoRow
<1>2. TypeOK /\ PendingRowsAreOwned /\ [Next]_vars => PendingRowsAreOwned'
  <2> SUFFICES ASSUME TypeOK, PendingRowsAreOwned, [Next]_vars, NEW c \in Cids, InProgress(c)'
               PROVE  Owned(c)' \/ LeftBehind(c)'
    BY DEF PendingRowsAreOwned
  <2>1. CASE ops'[c] = ops[c]
    BY <2>1, RowStaysOwned DEF InProgress
  <2>2. CASE ops'[c] # ops[c]
    BY <2>2, ChangedRowOwned
  <2> QED BY <2>1, <2>2
<1> QED BY <1>1, <1>2, TypeCorrect, PTL DEF Spec

-----------------------------------------------------------------------------
(* Clients that call only after recovery has read the table, statements that
   end with their sender, and receipts that all convert: one run per operation, outcomes that are final, and the
   refinement of Registry *)

\* Clients wait for recovery, no statement outlives its sender, and
\* operationStatusToAPI converts every receipt.
QuietAssumption == QuietStart /\ ~LateStatements /\ Unmappable = {}

LEMMA QuietInit == Init => QuietInv
<1> SUFFICES ASSUME Init PROVE QuietInv
  OBVIOUS
<1>1. TypeOK
  BY InitTypeOK
<1>2. NothingBeforeReady /\ RowsAgree /\ NoticesStayTrue
  BY DEF Init, NothingBeforeReady, RowsAgree, NoticesStayTrue, IdleCall, CallStage, NoTask,
         Kinds,
         NoRow
<1>3. OneOwner
  BY DEF Init, OneOwner, CallsOwn, FetchOwns, OneKindOfRun, RunsFindPending, IdleCall,
         CallStage, NoTask, Kinds, Active
<1> QED BY <1>1, <1>2, <1>3 DEF QuietInv

\* Starting changes no row and finds nothing running.
LEMMA QuietProcess ==
  ASSUME QuietInv, ProcessStep
  PROVE  NothingBeforeReady' /\ OneOwner' /\ RowsAgree' /\ NoticesStayTrue'
<1> USE DEF QuietInv, TypeOK, ProcessStep, Start, MigrationSucceeds, MigrationFails, IdleCall,
            CallStage, Kinds, NoTask, dbVars, toldVars
<1>1. NothingBeforeReady'
  BY DEF NothingBeforeReady, RecoverySettled
<1>2. OneOwner'
  BY DEF OneOwner, CallsOwn, FetchOwns, OneKindOfRun, RunsFindPending, NothingBeforeReady,
         RecoverySettled, Active, InProgress
<1>3. RowsAgree'
  BY DEF RowsAgree, InProgress
<1>4. NoticesStayTrue'
  BY DEF NoticesStayTrue, Terminal
<1> QED BY <1>1, <1>2, <1>3, <1>4

\* After a crash nothing runs.
LEMMA QuietCrash ==
  ASSUME QuietInv, Crash
  PROVE  NothingBeforeReady' /\ OneOwner' /\ RowsAgree' /\ NoticesStayTrue'
<1> USE DEF QuietInv, TypeOK, Crash, IdleCall, CallStage, Kinds, NoTask, dbVars, toldVars
<1>1. NothingBeforeReady'
  BY DEF NothingBeforeReady, RecoverySettled
<1>2. OneOwner'
  BY DEF OneOwner, CallsOwn, FetchOwns, OneKindOfRun, RunsFindPending, NothingBeforeReady,
         RecoverySettled, Active, InProgress
<1>3. RowsAgree'
  BY DEF RowsAgree, InProgress
<1>4. NoticesStayTrue'
  BY DEF NoticesStayTrue, Terminal
<1> QED BY <1>1, <1>2, <1>3, <1>4

\* The query returns rows nothing runs yet.
LEMMA QuietAnswerFetch ==
  ASSUME QuietInv, NEW m \in Methods, AnswerFetch(m)
  PROVE  NothingBeforeReady' /\ OneOwner' /\ RowsAgree' /\ NoticesStayTrue'
<1> USE DEF QuietInv, TypeOK, AnswerFetch, PendingRows, Kinds, NoTask, dbVars, toldVars
<1>1. NothingBeforeReady'
  BY DEF NothingBeforeReady, RecoverySettled
<1>2. OneOwner'
  BY DEF OneOwner, CallsOwn, FetchOwns, OneKindOfRun, RunsFindPending, NothingBeforeReady,
         RecoverySettled, Active, InProgress
<1>3. RowsAgree'
  BY DEF RowsAgree, InProgress
<1>4. NoticesStayTrue'
  BY DEF NoticesStayTrue, Terminal
<1> QED BY <1>1, <1>2, <1>3, <1>4

\* A failed query changes neither rows nor runs.
LEMMA QuietFetchFails ==
  ASSUME QuietInv, NEW m \in Methods, FetchFails(m)
  PROVE  NothingBeforeReady' /\ OneOwner' /\ RowsAgree' /\ NoticesStayTrue'
<1> USE DEF QuietInv, TypeOK, FetchFails, Kinds, NoTask, dbVars, toldVars
<1>1. NothingBeforeReady'
  BY DEF NothingBeforeReady, RecoverySettled
<1>2. OneOwner'
  BY DEF OneOwner, CallsOwn, FetchOwns, OneKindOfRun, RunsFindPending, NothingBeforeReady,
         RecoverySettled, Active, InProgress
<1>3. RowsAgree'
  BY DEF RowsAgree, InProgress
<1>4. NoticesStayTrue'
  BY DEF NoticesStayTrue, Terminal
<1> QED BY <1>1, <1>2, <1>3, <1>4

\* Recovery becomes the one owner of the rows it was given.
LEMMA QuietReplay ==
  ASSUME QuietInv, NEW m \in Methods, Replay(m)
  PROVE  NothingBeforeReady' /\ OneOwner' /\ RowsAgree' /\ NoticesStayTrue'
<1> USE DEF QuietInv, TypeOK, Replay, Running, Kinds, NoTask, dbVars, toldVars
<1>1. NothingBeforeReady'
  BY DEF NothingBeforeReady, RecoverySettled
<1>2. OneOwner'
  <2>1. CallsOwn'
    <3>1. \A k \in Calls : calls[k].pc # "inserted"
      BY DEF NothingBeforeReady, RecoverySettled, IdleCall, CallStage
    <3> QED BY <3>1 DEF CallsOwn
  <2>2. FetchOwns'
    BY DEF OneOwner, CallsOwn, FetchOwns, InProgress
  <2>3. OneKindOfRun'
    <3> SUFFICES ASSUME NEW c \in Cids, tasks'["replay"][c] # NoTask
                 PROVE  ops[c] # NoRow /\ fetch'[MethodOf[ops[c].req]] = "done"
      BY DEF OneKindOfRun, NothingBeforeReady, RecoverySettled
    <3>1. CASE c \in fetched[m]
      BY <3>1 DEF OneOwner, FetchOwns, InProgress, NoRow
    <3>2. CASE c \notin fetched[m]
      BY <3>2 DEF OneOwner, OneKindOfRun
    <3> QED BY <3>1, <3>2
  <2>4. RunsFindPending'
    BY DEF OneOwner, RunsFindPending, FetchOwns, Active, InProgress
  <2> QED BY <2>1, <2>2, <2>3, <2>4 DEF OneOwner
<1>3. RowsAgree'
  BY DEF RowsAgree, InProgress
<1>4. NoticesStayTrue'
  BY DEF NoticesStayTrue, Terminal
<1> QED BY <1>1, <1>2, <1>3, <1>4

\* A call waits only once recovery is over.
LEMMA QuietClientCalls ==
  ASSUME QuietInv, QuietAssumption, NEW k \in Calls, NEW r \in Requests, ClientCalls(k, r)
  PROVE  NothingBeforeReady' /\ OneOwner' /\ RowsAgree' /\ NoticesStayTrue'
<1> USE DEF QuietInv, TypeOK, QuietAssumption, ClientCalls, Waiting, IdleCall, CallStage, Kinds,
            NoTask, dbVars, toldVars
<1>1. NothingBeforeReady'
  <2>1. MethodOf[r] \in Methods
    BY ConstantsAssumption
  <2>2. phase \in {"ready", "broken"}
    BY <2>1 DEF NothingBeforeReady, RecoverySettled, Phases
  <2> QED BY <2>2 DEF NothingBeforeReady, RecoverySettled
<1>2. OneOwner'
  BY DEF OneOwner, CallsOwn, FetchOwns, OneKindOfRun, RunsFindPending, NothingBeforeReady,
         RecoverySettled, Active, InProgress
<1>3. RowsAgree'
  BY DEF RowsAgree, InProgress
<1>4. NoticesStayTrue'
  BY DEF NoticesStayTrue, Terminal
<1> QED BY <1>1, <1>2, <1>3, <1>4

\* A new row belongs to the call that inserted it.
LEMMA QuietSaveInserts ==
  ASSUME QuietInv, NEW k \in Calls, NEW c \in Cids, SaveInserts(k, c)
  PROVE  NothingBeforeReady' /\ OneOwner' /\ RowsAgree' /\ NoticesStayTrue'
<1> USE DEF QuietInv, TypeOK, SaveInserts, InsertRow, Inserted, IdleCall, CallStage, Pending,
            NoRow, Kinds, NoTask, dbVars, toldVars
<1>1. NothingBeforeReady'
  BY DEF NothingBeforeReady, RecoverySettled
<1>2. OneOwner'
  <2>1. CallsOwn'
    <3>1. \A l \in Kinds : tasks[l][c] = NoTask
      BY DEF OneOwner, OneKindOfRun
    <3>2. \A j \in Calls \ {k} : calls'[j] = calls[j] /\ (calls[j].pc = "inserted" => calls[j].cid # c)
      BY CallStages DEF OneOwner, CallsOwn, InProgress
    <3>3. calls'[k].pc = "inserted" /\ calls'[k].cid = c /\ InProgress(c)'
      BY DEF InProgress
    <3> QED BY <3>1, <3>2, <3>3, CallStages DEF OneOwner, CallsOwn, InProgress
  <2>2. FetchOwns'
    BY DEF OneOwner, CallsOwn, FetchOwns, InProgress
  <2>3. OneKindOfRun'
    BY DEF OneOwner, FetchOwns, OneKindOfRun, NothingBeforeReady, RecoverySettled, InProgress
  <2>4. RunsFindPending'
    BY DEF OneOwner, RunsFindPending, FetchOwns, Active, InProgress
  <2> QED BY <2>1, <2>2, <2>3, <2>4 DEF OneOwner
<1>3. RowsAgree'
  BY DEF RowsAgree, InProgress
<1>4. NoticesStayTrue'
  BY DEF NoticesStayTrue, Terminal
<1> QED BY <1>1, <1>2, <1>3, <1>4

\* A call that inserts nothing owns nothing.
LEMMA QuietEndCall ==
  ASSUME QuietInv, NEW k \in Calls,
         CallRejected(k) \/ SaveFails(k) \/ ReplyDuplicate(k) \/ (\E c \in Cids : SaveFindsRow(k, c))
  PROVE  NothingBeforeReady' /\ OneOwner' /\ RowsAgree' /\ NoticesStayTrue'
<1> USE DEF QuietInv, TypeOK, CallRejected, SaveFails, ReplyDuplicate, SaveFindsRow,
         Duplicate, IdleCall, CallStage, Kinds, NoTask, dbVars, toldVars
<1>1. NothingBeforeReady'
  BY DEF NothingBeforeReady, RecoverySettled
<1>2. OneOwner'
  BY DEF OneOwner, CallsOwn, FetchOwns, OneKindOfRun, RunsFindPending, NothingBeforeReady,
         RecoverySettled, Active, InProgress
<1>3. RowsAgree'
  BY DEF RowsAgree, InProgress
<1>4. NoticesStayTrue'
  BY DEF NoticesStayTrue, Terminal
<1> QED BY <1>1, <1>2, <1>3, <1>4

\* A row whose INSERT was not acknowledged has no owner until the next restart.
LEMMA QuietSaveAckLost ==
  ASSUME QuietInv, NEW k \in Calls, NEW c \in Cids, SaveAckLost(k, c)
  PROVE  NothingBeforeReady' /\ OneOwner' /\ RowsAgree' /\ NoticesStayTrue'
<1> USE DEF QuietInv, TypeOK, SaveAckLost, InsertRow, Pending, NoRow,
         IdleCall, CallStage, Kinds, NoTask, dbVars, toldVars
<1>1. NothingBeforeReady'
  BY DEF NothingBeforeReady, RecoverySettled
<1>2. OneOwner'
  <2>1. CallsOwn'
    BY CallStages DEF OneOwner, CallsOwn, FetchOwns, OneKindOfRun, InProgress
  <2>2. FetchOwns'
    BY CallStages DEF OneOwner, CallsOwn, FetchOwns, OneKindOfRun, InProgress
  <2>3. OneKindOfRun'
    BY CallStages DEF OneOwner, CallsOwn, FetchOwns, OneKindOfRun, NothingBeforeReady,
                      RecoverySettled
  <2>4. RunsFindPending'
    BY CallStages DEF OneOwner, CallsOwn, OneKindOfRun, RunsFindPending, Active, InProgress
  <2> QED BY <2>1, <2>2, <2>3, <2>4 DEF OneOwner
<1>3. RowsAgree'
  BY DEF RowsAgree, InProgress
<1>4. NoticesStayTrue'
  BY DEF NoticesStayTrue, Terminal
<1> QED BY <1>1, <1>2, <1>3, <1>4

\* The call hands its row over to a live run.
LEMMA QuietLaunch ==
  ASSUME QuietInv, NEW k \in Calls, LaunchAndReply(k)
  PROVE  NothingBeforeReady' /\ OneOwner' /\ RowsAgree' /\ NoticesStayTrue'
<1> USE DEF QuietInv, TypeOK, LaunchAndReply, Running, NoRow,
         IdleCall, CallStage, Kinds, NoTask, dbVars, toldVars
<1>1. NothingBeforeReady'
  BY CallStages DEF NothingBeforeReady, RecoverySettled
<1>2. OneOwner'
  <2>1. CallsOwn'
    BY CallStages DEF OneOwner, CallsOwn, FetchOwns, OneKindOfRun, InProgress
  <2>2. FetchOwns'
    <3>1. calls[k] # IdleCall /\ phase # "broken"
      BY DEF NothingBeforeReady
    <3>2. RecoverySettled
      BY <3>1 DEF NothingBeforeReady
    <3>3. \A m \in Methods : fetch[m] # "answered"
      BY <3>2 DEF RecoverySettled
    <3>4. \A m \in Methods : fetched[m] = {}
      BY <3>3 DEF OneOwner, FetchOwns
    <3> QED BY <3>4 DEF FetchOwns
  <2>3. OneKindOfRun'
    <3>1. PICK c \in Cids : c = calls[k].cid
      BY CallStages
    <3>2. ops[c] # NoRow /\ \A l \in Kinds : tasks[l][c] = NoTask
      BY <3>1 DEF OneOwner, CallsOwn, InProgress
    <3> QED BY <3>1, <3>2 DEF OneOwner, OneKindOfRun
  <2>4. RunsFindPending'
    BY CallStages DEF OneOwner, CallsOwn, OneKindOfRun, RunsFindPending, Active, InProgress
  <2> QED BY <2>1, <2>2, <2>3, <2>4 DEF OneOwner
<1>3. RowsAgree'
  BY CallStages DEF RowsAgree, InProgress
<1>4. NoticesStayTrue'
  BY DEF NoticesStayTrue, Terminal
<1> QED BY <1>1, <1>2, <1>3, <1>4

\* A status poll tells what the row holds.
LEMMA QuietPoll ==
  ASSUME QuietInv, NEW c \in Cids, PollStatus(c)
  PROVE  NothingBeforeReady' /\ OneOwner' /\ RowsAgree' /\ NoticesStayTrue'
<1> USE DEF QuietInv, TypeOK, PollStatus, Kinds, NoTask, dbVars, toldVars
<1>1. NothingBeforeReady'
  BY DEF NothingBeforeReady, RecoverySettled
<1>2. OneOwner'
  BY DEF OneOwner, CallsOwn, FetchOwns, OneKindOfRun, RunsFindPending, NothingBeforeReady,
         RecoverySettled, Active, InProgress
<1>3. RowsAgree'
  BY DEF RowsAgree, InProgress
<1>4. NoticesStayTrue'
  BY RowStages DEF NoticesStayTrue, RowsAgree, Terminal, InProgress, Row
<1> QED BY <1>1, <1>2, <1>3, <1>4

\* The run that was executing still owns its row.
LEMMA QuietMethodEnds ==
  ASSUME QuietInv, NEW k \in Kinds, NEW c \in Cids, NEW out \in Results, MethodEnds(k, c, out)
  PROVE  NothingBeforeReady' /\ OneOwner' /\ RowsAgree' /\ NoticesStayTrue'
<1> USE DEF QuietInv, TypeOK, MethodEnds, Kinds, NoTask, dbVars, toldVars
<1>1. NothingBeforeReady'
  BY DEF NothingBeforeReady, RecoverySettled
<1>2. OneOwner'
  <2>1. CallsOwn'
    BY DEF OneOwner, CallsOwn, FetchOwns, OneKindOfRun, InProgress
  <2>2. FetchOwns'
    BY DEF OneOwner, CallsOwn, FetchOwns, OneKindOfRun, InProgress
  <2>3. OneKindOfRun'
    BY DEF OneOwner, CallsOwn, FetchOwns, OneKindOfRun, NothingBeforeReady, RecoverySettled
  <2>4. RunsFindPending'
    BY DEF OneOwner, CallsOwn, OneKindOfRun, RunsFindPending, Active, InProgress
  <2> QED BY <2>1, <2>2, <2>3, <2>4 DEF OneOwner
<1>3. RowsAgree'
  BY DEF RowsAgree, InProgress
<1>4. NoticesStayTrue'
  BY DEF NoticesStayTrue, Terminal
<1> QED BY <1>1, <1>2, <1>3, <1>4

\* A run that is given up leaves the row as it was.
LEMMA QuietPersistFails ==
  ASSUME QuietInv, NEW k \in Kinds, NEW c \in Cids, PersistFails(k, c)
  PROVE  NothingBeforeReady' /\ OneOwner' /\ RowsAgree' /\ NoticesStayTrue'
<1> USE DEF QuietInv, TypeOK, PersistFails, Kinds, NoTask, dbVars, toldVars
<1>1. NothingBeforeReady'
  BY DEF NothingBeforeReady, RecoverySettled
<1>2. OneOwner'
  <2>1. CallsOwn'
    BY TaskStages DEF OneOwner, CallsOwn, FetchOwns, OneKindOfRun, InProgress
  <2>2. FetchOwns'
    BY TaskStages DEF OneOwner, CallsOwn, FetchOwns, OneKindOfRun, InProgress
  <2>3. OneKindOfRun'
    BY TaskStages DEF OneOwner, CallsOwn, FetchOwns, OneKindOfRun, NothingBeforeReady,
                      RecoverySettled
  <2>4. RunsFindPending'
    BY TaskStages DEF OneOwner, CallsOwn, OneKindOfRun, RunsFindPending, Active, InProgress
  <2> QED BY <2>1, <2>2, <2>3, <2>4 DEF OneOwner
<1>3. RowsAgree'
  BY DEF RowsAgree, InProgress
<1>4. NoticesStayTrue'
  BY DEF NoticesStayTrue, Terminal
<1> QED BY <1>1, <1>2, <1>3, <1>4

\* The UPDATE of the one run that owns the row: nobody was told an outcome of it before.
LEMMA QuietPersist ==
  ASSUME QuietInv, NEW k \in Kinds, NEW c \in Cids, Persist(k, c) \/ PersistAckLost(k, c)
  PROVE  NothingBeforeReady' /\ OneOwner' /\ RowsAgree' /\ NoticesStayTrue'
<1>1. TypeOK
  BY DEF QuietInv
<1>2. PICK out \in Results : out = tasks[k][c].out /\ WriteOutcome(c, out)
  BY <1>1, TaskStages DEF Persist, PersistAckLost
<1>3. PICK p \in {"calling", "done", "abandoned"} : tasks' = [tasks EXCEPT ![k][c].pc = p]
  BY DEF Persist, PersistAckLost
<1>4. tasks[k][c].pc = "persisting" /\ Active(k, c) /\ InProgress(c) /\ tasks[k][c] # NoTask
  BY DEF Persist, PersistAckLost, Active, NoTask, QuietInv, OneOwner, RunsFindPending
<1>5. /\ tasks'[k][c] = [pc |-> p, out |-> out]
      /\ tasks' \in [Kinds -> [Cids -> Task]]
      /\ \A l \in Kinds, d \in Cids : l # k \/ d # c => tasks'[l][d] = tasks[l][d]
  <2>1. tasks'[k][c] = [tasks[k][c] EXCEPT !.pc = p]
    BY <1>1, <1>3 DEF TypeOK
  <2>2. tasks[k][c] = [pc |-> "persisting", out |-> out]
    BY <1>1, <1>2, <1>4, TaskStages
  <2>3. tasks' \in [Kinds -> [Cids -> Task]]
    BY <1>1, <1>3, <1>4, TaskMoves
  <2>4. \A l \in Kinds, d \in Cids : l # k \/ d # c => tasks'[l][d] = tasks[l][d]
    BY <1>1, <1>3 DEF TypeOK
  <2> QED BY <2>1, <2>2, <2>3, <2>4
<1>6. UNCHANGED <<phase, calls, fetch, fetched, replies, notices>>
  BY DEF Persist, PersistAckLost, toldVars
<1>7. \A l \in Kinds \ {k} : tasks[l][c] = NoTask
  BY <1>4 DEF QuietInv, OneOwner, OneKindOfRun, Kinds
<1>8. /\ ops[c] # NoRow
      /\ ops'[c].req = ops[c].req /\ ops'[c].outputs = out /\ ops'[c].status = dbStatus(out)
      /\ ops'[c] # NoRow
      /\ \A d \in Cids \ {c} : ops'[d] = ops[d]
  <2>1. ops'[c].status # "absent"
    BY <1>1, <1>2, WriteOutcomeType, StatusOfResult
  <2>2. ops[c] # NoRow
    BY <1>2 DEF WriteOutcome
  <2>3. ops'[c] # NoRow
    BY <2>1 DEF NoRow
  <2> QED BY <1>1, <1>2, <2>2, <2>3, WriteOutcomeType
<1>9. NothingBeforeReady'
  <2>1. phase \notin {"down", "migrating", "broken"}
    BY <1>4 DEF QuietInv, NothingBeforeReady
  <2> QED BY <1>4, <1>5, <1>6, <2>1 DEF QuietInv, NothingBeforeReady, RecoverySettled, Kinds
<1>10. OneOwner'
  <2>1. CallsOwn'
    BY <1>1, <1>4, <1>5, <1>6, <1>8, CallStages DEF QuietInv, OneOwner, CallsOwn, InProgress
  <2>2. FetchOwns'
    BY <1>1, <1>4, <1>5, <1>6, <1>8 DEF QuietInv, TypeOK, OneOwner, FetchOwns, InProgress
  <2>3. OneKindOfRun'
    BY <1>1, <1>4, <1>5, <1>6, <1>7, <1>8 DEF QuietInv, OneOwner, OneKindOfRun, Kinds
  <2>4. RunsFindPending'
    BY <1>5, <1>7, <1>8 DEF QuietInv, OneOwner, RunsFindPending, Active, InProgress, NoTask
  <2> QED BY <2>1, <2>2, <2>3, <2>4 DEF OneOwner
<1>11. RowsAgree'
  <2>1. InProgress(c)' <=> ops'[c].outputs.type = "pending"
    BY <1>2, <1>8, StatusOfResult DEF InProgress
  <2>2. \A d \in Cids : ops'[d] # NoRow => (InProgress(d)' <=> ops'[d].outputs.type = "pending")
    <3> SUFFICES ASSUME NEW d \in Cids, d # c, ops'[d] # NoRow
                 PROVE  InProgress(d)' <=> ops'[d].outputs.type = "pending"
      BY <2>1
    <3>1. ops'[d] = ops[d]
      BY <1>8
    <3> QED BY <3>1 DEF QuietInv, RowsAgree, InProgress
  <2>3. \A l \in Kinds, d \in Cids : tasks'[l][d].pc = "calling" =>
            ops'[d] # NoRow /\ ops'[d].outputs = tasks'[l][d].out
    <3> SUFFICES ASSUME NEW l \in Kinds, NEW d \in Cids, tasks'[l][d].pc = "calling"
                 PROVE  ops'[d] # NoRow /\ ops'[d].outputs = tasks'[l][d].out
      OBVIOUS
    <3>1. CASE d # c
      <4>1. ops'[d] = ops[d] /\ tasks'[l][d] = tasks[l][d]
        BY <1>5, <1>8, <3>1
      <4> QED BY <4>1 DEF QuietInv, RowsAgree
    <3>2. CASE d = c /\ l # k
      <4>1. tasks'[l][c] = NoTask
        BY <1>5, <1>7, <3>2
      <4> QED BY <3>2, <4>1 DEF NoTask
    <3>3. CASE d = c /\ l = k
      BY <1>5, <1>8, <3>3
    <3> QED BY <3>1, <3>2, <3>3
  <2> QED BY <2>2, <2>3 DEF RowsAgree
<1>12. NoticesStayTrue'
  <2>1. \A n \in notices : n.out.type # "pending" => n.cid # c
    BY <1>4 DEF QuietInv, NoticesStayTrue, Terminal, InProgress
  <2>2. \A n \in notices : n.cid \in Cids
    BY <1>1 DEF TypeOK
  <2> QED BY <1>6, <1>8, <2>1, <2>2 DEF QuietInv, NoticesStayTrue, Terminal
<1> QED BY <1>9, <1>10, <1>11, <1>12

\* The callback tells what the row holds.
LEMMA QuietSendCallback ==
  ASSUME QuietInv, NEW k \in Kinds, NEW c \in Cids, SendCallback(k, c)
  PROVE  NothingBeforeReady' /\ OneOwner' /\ RowsAgree' /\ NoticesStayTrue'
<1> USE DEF QuietInv, TypeOK, SendCallback, Kinds, NoTask, dbVars, toldVars
<1>1. NothingBeforeReady'
  BY DEF NothingBeforeReady, RecoverySettled
<1>2. OneOwner'
  <2>1. CallsOwn'
    BY TaskStages DEF OneOwner, CallsOwn, FetchOwns, OneKindOfRun, InProgress
  <2>2. FetchOwns'
    BY TaskStages DEF OneOwner, CallsOwn, FetchOwns, OneKindOfRun, InProgress
  <2>3. OneKindOfRun'
    BY TaskStages DEF OneOwner, CallsOwn, FetchOwns, OneKindOfRun, NothingBeforeReady,
                      RecoverySettled
  <2>4. RunsFindPending'
    BY TaskStages DEF OneOwner, CallsOwn, OneKindOfRun, RunsFindPending, Active, InProgress
  <2> QED BY <2>1, <2>2, <2>3, <2>4 DEF OneOwner
<1>3. RowsAgree'
  BY DEF RowsAgree, InProgress
<1>4. NoticesStayTrue'
  <2>1. ops[c] # NoRow /\ ops[c].outputs = tasks[k][c].out
    BY DEF RowsAgree
  <2>2. ops[c].status \in {"in_progress", "succeeded", "failed"}
    BY <2>1, RowStages DEF Row
  <2>3. tasks[k][c].out.type # "pending" => Terminal(c)
    BY <2>1, <2>2 DEF RowsAgree, InProgress, Terminal
  <2> QED BY <2>1, <2>3 DEF NoticesStayTrue, Terminal
<1> QED BY <1>1, <1>2, <1>3, <1>4

-----------------------------------------------------------------------------
(* The invariant and what follows from it *)

\* Every step keeps the inductive invariant.
LEMMA QuietStep == QuietAssumption /\ QuietInv /\ [Next]_vars => QuietInv'
<1> SUFFICES ASSUME QuietAssumption, QuietInv, [Next]_vars PROVE QuietInv'
  OBVIOUS
<1>1. TypeOK'
  BY StepTypeOK DEF QuietInv
<1>2. CASE ProcessStep
  BY <1>2, <1>1, QuietProcess DEF QuietInv
<1>3. CASE Crash
  BY <1>3, <1>1, QuietCrash DEF QuietInv
<1>4. ASSUME NEW m \in Methods, FetchStep(m) PROVE QuietInv'
  BY <1>4, <1>1, QuietAnswerFetch, QuietFetchFails, QuietReplay DEF FetchStep, QuietInv
<1>5. ASSUME NEW k \in Calls, NEW r \in Requests, ClientCalls(k, r) PROVE QuietInv'
  BY <1>5, <1>1, QuietClientCalls DEF QuietInv
<1>6. ASSUME NEW k \in Calls, CallStep(k) PROVE QuietInv'
  <2>1. ASSUME NEW c \in Cids, SaveInserts(k, c) PROVE QuietInv'
    BY <2>1, <1>1, QuietSaveInserts DEF QuietInv
  <2>2. ASSUME NEW c \in Cids, SaveAckLost(k, c) PROVE QuietInv'
    BY <2>2, <1>1, QuietSaveAckLost DEF QuietInv
  <2>3. CASE LaunchAndReply(k)
    BY <2>3, <1>1, QuietLaunch DEF QuietInv
  <2>4. CASE CallRejected(k) \/ SaveFails(k) \/ ReplyDuplicate(k)
             \/ (\E c \in Cids : SaveFindsRow(k, c))
    BY <2>4, <1>1, QuietEndCall DEF QuietInv
  <2> QED BY <1>6, <2>1, <2>2, <2>3, <2>4 DEF CallStep
<1>7. ASSUME NEW c \in Cids, PollStatus(c) PROVE QuietInv'
  BY <1>7, <1>1, QuietPoll DEF QuietInv
<1>8. ASSUME NEW k \in Kinds, NEW c \in Cids, TaskStep(k, c) PROVE QuietInv'
  <2>1. ~ConversionThrows(k, c)
    BY DEF QuietAssumption, ConversionThrows, Mappable
  <2>2. ASSUME NEW out \in Results, MethodEnds(k, c, out) PROVE QuietInv'
    BY <2>2, <1>1, QuietMethodEnds DEF QuietInv
  <2>3. CASE Persist(k, c) \/ PersistAckLost(k, c)
    BY <2>3, <1>1, QuietPersist DEF QuietInv
  <2>4. CASE PersistFails(k, c)
    BY <2>4, <1>1, QuietPersistFails DEF QuietInv
  <2>5. CASE SendCallback(k, c)
    BY <2>5, <1>1, QuietSendCallback DEF QuietInv
  <2> QED BY <1>8, <2>1, <2>2, <2>3, <2>4, <2>5 DEF TaskStep
<1>9. CASE UNCHANGED vars
  BY <1>9, <1>1 DEF vars, QuietInv, NothingBeforeReady, RecoverySettled, OneOwner, CallsOwn,
     FetchOwns, OneKindOfRun, RunsFindPending, Active, InProgress, RowsAgree, NoticesStayTrue,
     Terminal
<1>10. ~Arrival
  BY DEF QuietInv, TypeOK, QuietAssumption, Arrival, InsertArrives
<1> QED BY <1>2, <1>3, <1>4, <1>5, <1>6, <1>7, <1>8, <1>9, <1>10 DEF Next

LEMMA QuietInvariance == ASSUME QuietAssumption PROVE Spec => []QuietInv
<1>1. QuietInv /\ [Next]_vars => QuietInv'
  BY QuietStep
<1> QED BY <1>1, QuietInit, PTL DEF Spec

\* createServiceProxy and its recovery: when clients wait for recovery, no
\* operation is ever run twice at the same time or run after it is settled.
THEOREM OneRunCorrect == ASSUME QuietAssumption PROVE Spec => []OneRunPerOperation
<1>1. QuietInv => OneRunPerOperation
  BY DEF QuietInv, OneOwner, OneKindOfRun, RunsFindPending, OneRunPerOperation, Active, NoTask,
         InProgress, Terminal, Kinds
<1> QED BY <1>1, QuietInvariance, PTL

\* finalize and operationStatus: what callbacks and polls have told of an
\* operation stays what its row says, through every later call and crash.
THEOREM NoticesStayTrueCorrect == ASSUME QuietAssumption PROVE Spec => []NoticesStayTrue
<1>1. QuietInv => NoticesStayTrue
  BY DEF QuietInv
<1> QED BY <1>1, QuietInvariance, PTL

\* completeOperation names its row by cid alone, and yet no settled row is ever
\* overwritten when clients wait for recovery.
THEOREM OutcomeCorrect == ASSUME QuietAssumption PROVE Spec => OutcomeIsFinal
<1>1. QuietInv /\ [Next]_vars => [\A c \in Cids : Terminal(c) => ops'[c] = ops[c]]_vars
  <2> SUFFICES ASSUME QuietInv, [Next]_vars, NEW c \in Cids, Terminal(c)
               PROVE  ops'[c] = ops[c]
    OBVIOUS
  <2>1. TypeOK
    BY DEF QuietInv
  <2>2. ASSUME NEW r \in Requests, NEW d \in Cids, InsertRow(r, d)
        PROVE  ops'[c] = ops[c]
    BY <2>1, <2>2 DEF TypeOK, InsertRow, NoRow, Terminal
  <2>3. ASSUME NEW k \in Kinds, NEW d \in Cids, NEW out \in Results,
               tasks[k][d].pc = "persisting", WriteOutcome(d, out)
        PROVE  ops'[c] = ops[c]
    <3>1. d # c
      BY <2>3 DEF QuietInv, OneOwner, RunsFindPending, Active, InProgress, Terminal
    <3> QED BY <2>1, <2>3, <3>1 DEF WriteOutcome, TypeOK
  <2> QED BY <2>1, <2>2, <2>3, TableSteps DEF QuietAssumption
<1> QED BY <1>1, QuietInvariance, PTL DEF OutcomeIsFinal, Spec

\* Only the answer of a recovery query starts a replayed run.
LEMMA ReplayStarts ==
  ASSUME TypeOK, [Next]_vars, NEW c \in Cids,
         tasks["replay"][c].pc = "none", tasks'["replay"][c].pc = "executing"
  PROVE  \E m \in Methods : c \in fetched[m]
<1> USE DEF TypeOK
<1>1. ASSUME NEW k \in Kinds, NEW d \in Cids, TaskStep(k, d) PROVE FALSE
  <2>1. k = "replay" /\ d = c
    BY <1>1 DEF TaskStep, MethodEnds, Persist, PersistFails, PersistAckLost, SendCallback,
                ConversionThrows, Kinds
  <2> QED BY <1>1, <2>1 DEF TaskStep, MethodEnds, Persist, PersistFails, PersistAckLost,
                            SendCallback, ConversionThrows
<1>2. ASSUME NEW k \in Calls, CallStep(k) PROVE FALSE
  BY <1>2, CallStages
     DEF CallStep, CallRejected, SaveFails, LaunchAndReply, ReplyDuplicate, SaveInserts,
         SaveFindsRow, SaveAckLost, Kinds
<1>3. ASSUME NEW m \in Methods, FetchStep(m) PROVE c \in fetched[m]
  BY <1>3 DEF FetchStep, AnswerFetch, FetchFails, Replay, Kinds
<1>4. ~Crash
  BY DEF Crash, NoTask, Kinds
<1> QED
  BY <1>1, <1>2, <1>3, <1>4
     DEF Next, ProcessStep, Start, MigrationSucceeds, MigrationFails, ClientCalls, PollStatus,
         Arrival, InsertArrives, UpdateArrives, vars

\* Recovery runs again only what is still in progress, as a test's title says,
\* when clients wait for recovery.
THEOREM ReplayCorrect == ASSUME QuietAssumption PROVE Spec => CompletedNotReexecuted
<1> DEFINE Reexecution ==
      \A c \in Cids :
        tasks["replay"][c].pc = "none" /\ tasks'["replay"][c].pc = "executing" => InProgress(c)
<1>1. QuietInv /\ [Next]_vars => [Reexecution]_vars
  BY ReplayStarts DEF QuietInv, OneOwner, FetchOwns
<1> QED BY <1>1, QuietInvariance, PTL DEF CompletedNotReexecuted, Spec

-----------------------------------------------------------------------------
(* The refinement of Registry *)

\* What the Registry sees, named as its variables.
request == [c \in Cids |-> ops[c].req]
outcome == [c \in Cids |-> IF Terminal(c) THEN ops[c].outputs ELSE None]
told    == {<<n.cid, n.out>> : n \in {x \in notices : x.out.type # "pending"}}

\* An INSERT accepts the request.
LEMMA InsertAccepts ==
  ASSUME TypeOK, NEW r \in Requests, NEW c \in Cids, InsertRow(r, c), notices' = notices
  PROVE  R!Accept(c, r)
<1>1. request[c] = None /\ \A d \in Cids : request[d] # r
  BY DEF InsertRow, NoRow, request, RowsOf
<1>2. request' = [request EXCEPT ![c] = r]
  BY DEF InsertRow, TypeOK, request
<1>3. outcome' = outcome
  <2>1. \A d \in Cids \ {c} : ops'[d] = ops[d]
    BY DEF InsertRow, TypeOK
  <2>2. ~Terminal(c) /\ ~Terminal(c)'
    BY DEF InsertRow, TypeOK, NoRow, Terminal
  <2> QED BY <2>1, <2>2 DEF outcome, Terminal
<1>4. told' = told
  BY DEF told
<1> QED BY <1>1, <1>2, <1>3, <1>4 DEF R!Accept, request, outcome, told

\* An UPDATE settles the operation, or changes nothing when the outcome is a
\* deferred one.
LEMMA WriteSettles ==
  ASSUME TypeOK, NEW c \in Cids, NEW out \in Results, InProgress(c), WriteOutcome(c, out),
         notices' = notices
  PROVE  (R!Settle(c, out) /\ out # Deferred) \/ UNCHANGED R!vars
<1>1. /\ ops[c] \in Row
      /\ ops'[c].req = ops[c].req /\ ops'[c].outputs = out /\ ops'[c].status = dbStatus(out)
      /\ \A d \in Cids \ {c} : ops'[d] = ops[d]
  BY WriteOutcomeType
<1>2. request' = request /\ told' = told
  BY <1>1 DEF request, told
<1>3. request[c] # None /\ outcome[c] = None
  BY <1>1, ConstantsAssumption DEF request, outcome, Row, Terminal, InProgress
<1>4. CASE out = Deferred
  <2>1. ~Terminal(c) /\ ~Terminal(c)'
    BY <1>1, <1>4, StatusOfResult DEF InProgress, Terminal
  <2>2. outcome' = outcome
    BY <1>1, <2>1 DEF outcome, Terminal
  <2> QED BY <1>2, <2>2 DEF R!vars, request, outcome, told
<1>5. CASE out # Deferred
  <2>1. Terminal(c)'
    BY <1>1, <1>5, StatusOfResult DEF Terminal
  <2>2. outcome' = [outcome EXCEPT ![c] = out]
    BY <1>1, <2>1 DEF outcome, Terminal
  <2> QED BY <1>2, <1>3, <1>5, <2>2 DEF R!Settle, request, outcome, told
<1> QED BY <1>4, <1>5

\* A callback or a poll tells the outcome, or nothing while there is none.
LEMMA NoticeTells ==
  ASSUME QuietInv, NEW c \in Cids, ops[c] # NoRow, ops' = ops,
         notices' = notices \cup {[cid |-> c, out |-> ops[c].outputs]}
  PROVE  R!Tell(c) \/ UNCHANGED R!vars
<1>1. request' = request /\ outcome' = outcome
  BY DEF request, outcome, Terminal
<1>2. CASE ops[c].outputs.type = "pending"
  <2>1. told' = told
    BY <1>2 DEF told
  <2> QED BY <1>1, <2>1 DEF R!vars, request, outcome, told
<1>3. CASE ops[c].outputs.type # "pending"
  <2>1. ops[c] \in Row
    BY RowStages DEF QuietInv
  <2>2. Terminal(c)
    BY <1>3, <2>1 DEF QuietInv, RowsAgree, InProgress, Terminal, Row
  <2>3. outcome[c] = ops[c].outputs /\ outcome[c] # None
    BY <2>1, <2>2, NoneAssumption DEF outcome, Row
  <2>4. told' = told \cup {<<c, outcome[c]>>}
    <3> DEFINE new == [cid |-> c, out |-> ops[c].outputs]
    <3>1. {x \in notices' : x.out.type # "pending"}
            = {x \in notices : x.out.type # "pending"} \cup {new}
      BY <1>3
    <3>2. told' = told \cup {<<new.cid, new.out>>}
      BY <3>1 DEF told
    <3> QED BY <2>3, <3>2
  <2> QED BY <1>1, <2>3, <2>4 DEF R!Tell, request, outcome, told
<1> QED BY <1>2, <1>3

\* Calls, recovery, crashes and lost answers cannot be seen in the table and the
\* notices: createServiceProxy behaves as the Registry, one outcome per request.
THEOREM RegistryCorrect == ASSUME QuietAssumption PROVE Spec => RegistrySpec
<1>1. Init => R!Init
  BY DEF Init, R!Init, NoRow, Terminal
<1>2. QuietInv /\ [Next]_vars => [R!Next]_R!vars
  <2> SUFFICES ASSUME QuietInv, [Next]_vars PROVE R!Next \/ UNCHANGED R!vars
    OBVIOUS
  <2>1. TypeOK
    BY DEF QuietInv
  <2>2. CASE UNCHANGED notices
    <3>1. CASE UNCHANGED <<ops, written>>
      BY <2>2, <3>1 DEF R!vars, Terminal
    <3>2. ASSUME NEW r \in Requests, NEW c \in Cids, InsertRow(r, c)
          PROVE  R!Next
      BY <2>1, <2>2, <3>2, InsertAccepts DEF R!Next
    <3>3. ASSUME NEW k \in Kinds, NEW c \in Cids, NEW out \in Results,
                 tasks[k][c].pc = "persisting", WriteOutcome(c, out)
          PROVE  R!Next \/ UNCHANGED R!vars
      <4>1. InProgress(c)
        BY <3>3 DEF QuietInv, OneOwner, RunsFindPending, Active
      <4>2. (R!Settle(c, out) /\ out # Deferred) \/ UNCHANGED R!vars
        BY <2>1, <2>2, <3>3, <4>1, WriteSettles
      <4> QED BY <4>2 DEF R!Next
    <3> QED BY <2>1, <3>1, <3>2, <3>3, TableSteps DEF QuietAssumption
  <2>3. ASSUME NEW c \in Cids, PollStatus(c)
        PROVE  R!Next \/ UNCHANGED R!vars
    <3>1. R!Tell(c) \/ UNCHANGED R!vars
      BY <2>3, NoticeTells DEF PollStatus, dbVars
    <3> QED BY <3>1 DEF R!Next
  <2>4. ASSUME NEW k \in Kinds, NEW c \in Cids, SendCallback(k, c), ~UNCHANGED notices
        PROVE  R!Next \/ UNCHANGED R!vars
    <3>1. ops[c] # NoRow /\ ops[c].outputs = tasks[k][c].out
      BY <2>4 DEF SendCallback, QuietInv, RowsAgree
    <3>2. ops' = ops /\ notices' = notices \cup {[cid |-> c, out |-> ops[c].outputs]}
      BY <2>4, <3>1 DEF SendCallback, dbVars
    <3>3. R!Tell(c) \/ UNCHANGED R!vars
      BY <3>1, <3>2, NoticeTells
    <3> QED BY <3>3 DEF R!Next
  <2>5. ASSUME NEW k \in Calls, LaunchAndReply(k) \/ ReplyDuplicate(k)
        PROVE  UNCHANGED notices
    BY <2>5 DEF LaunchAndReply, ReplyDuplicate
  <2> QED BY <2>1, <2>2, <2>3, <2>4, <2>5, ToldSteps
<1> QED BY <1>1, <1>2, QuietInvariance, PTL DEF RegistrySpec, R!Spec, Spec

=============================================================================
