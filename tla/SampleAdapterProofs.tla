------------------------ MODULE SampleAdapterProofs ------------------------
(***************************************************************************)
(* Theorems about SampleAdapter, for any accounts, holds, requests,        *)
(* finIds, fields, values, calls and number of crashes: no account is      *)
(* overdrawn, receipts explain the balances, the funds of holds come back, *)
(* lookups find what was saved, and only saves that overlap or are         *)
(* rejected are mixed.                                                     *)
(***************************************************************************)
EXTENDS SampleAdapter, Sums

-----------------------------------------------------------------------------
(* The mappings: definitions *)

Saves == UNION {[fields -> M!Values] : fields \in SUBSET Fields}
CallType == [pc : M!Over \cup {"active", "adrift"}, finId : FinIds, fields : Saves,
             todo : SUBSET Fields, after : SUBSET Calls]
RowType == [value : M!Values, by : Calls] \cup {M!NoRow}

Typed ==
    /\ caseSensitive \in BOOLEAN
    /\ table \in [FinIds -> [Fields -> RowType]]
    /\ calls \in [Calls -> CallType \cup {M!NoCall}]

Sent(c) == calls[c].pc # "unsent"
Over(c) == calls[c].pc \in M!Over

\* The fields a call has written.
Written(c) == DOMAIN calls[c].fields \ calls[c].todo

\* The row a call writes.
Row(c, field) == [value |-> M!normalize(calls[c].fields[field]), by |-> c]

\* What a call was after is over, and a save that was answered has written its fields.
Ordered ==
    \A c \in Calls : Sent(c) =>
        /\ \A d \in calls[c].after : Sent(d) /\ Over(d)
        /\ calls[c].todo \subseteq DOMAIN calls[c].fields
        /\ M!At(c, "replied") => calls[c].todo = {}

\* A row is written by a call about its finId.
Owned ==
    \A f \in FinIds, field \in Fields : table[f][field].by # M!None =>
        Sent(table[f][field].by) /\ calls[table[f][field].by].finId = f

\* What a call has written is not what a call before it wrote.
Superseded ==
    \A d \in Calls : Sent(d) => \A c \in calls[d].after, field \in Written(d) :
        table[calls[d].finId][field].by # c

\* What a call that is alone has written stays.
Kept ==
    \A c \in Calls : Sent(c) /\ M!Alone(c) => \A field \in Written(c) :
        table[calls[c].finId][field] = Row(c, field)

Inv == Typed /\ Ordered /\ Owned /\ Superseded /\ Kept

-----------------------------------------------------------------------------
(* What a step does to a call and to a row *)

\* A call that was sent is a record of a call.
LEMMA SentType ==
  ASSUME Typed, NEW c \in Calls, Sent(c)
  PROVE  /\ calls[c] \in CallType
         /\ calls[c] # M!NoCall
         /\ calls[c].fields \in Saves
         /\ DOMAIN calls[c].fields \subseteq Fields
<1>1. calls[c] # M!NoCall
  BY DEF Sent, M!NoCall
<1>2. calls[c] \in CallType
  BY <1>1 DEF Typed
<1>3. calls[c].fields \in Saves
  BY <1>2 DEF CallType
<1>4. PICK fields \in SUBSET Fields : calls[c].fields \in [fields -> M!Values]
  BY <1>3 DEF Saves
<1> QED BY <1>1, <1>2, <1>3, <1>4

\* A call stays, arrives, or goes on: then it was not over, it is the call it was, and
\* what it no longer has to write it has written.
Stays(c) == calls'[c] = calls[c]
Arriving(c) ==
    /\ ~Sent(c)
    /\ calls'[c] \in CallType
    /\ calls'[c].pc = "active"
    /\ calls'[c].todo = DOMAIN calls'[c].fields
    /\ \A d \in calls'[c].after : Sent(d) /\ Over(d)
Goes(c) ==
    /\ Sent(c) /\ ~Over(c)
    /\ calls'[c] \in CallType
    /\ calls'[c].finId = calls[c].finId /\ calls'[c].fields = calls[c].fields
    /\ calls'[c].after = calls[c].after
    /\ calls'[c].todo \subseteq calls[c].todo
    /\ \A field \in calls[c].todo \ calls'[c].todo :
          field \in Fields /\ table'[calls[c].finId][field] = Row(c, field)
    /\ calls'[c].pc = "replied" => calls'[c].todo = {}

\* A row is written or deleted by a call that is not over.
Changed(c, f, field) ==
    /\ Sent(c) /\ ~Over(c)
    /\ calls[c].finId = f
    /\ \/ table'[f][field].by = c /\ field \in calls[c].todo
       \/ table'[f][field] = M!NoRow /\ DOMAIN calls[c].fields = {}

LEMMA Upserting ==
  ASSUME Typed, NEW c \in Calls, Sent(c), NEW field \in calls[c].todo,
         calls[c].todo \subseteq DOMAIN calls[c].fields, M!Upsert(c, field)
  PROVE  /\ table' \in [FinIds -> [Fields -> RowType]]
         /\ field \in Fields
         /\ table'[calls[c].finId][field] = Row(c, field)
         /\ \A f \in FinIds, g \in Fields :
               table'[f][g] = table[f][g] \/ (f = calls[c].finId /\ g = field)
<1>1. calls[c].finId \in FinIds /\ field \in Fields
  BY SentType DEF CallType
<1>2. PICK fields \in SUBSET Fields : calls[c].fields \in [fields -> M!Values]
  BY SentType DEF Saves
<1>3. calls[c].fields[field] \in M!Values
  BY <1>2
<1>4. M!normalize(calls[c].fields[field]) \in M!Values
  BY <1>3 DEF M!normalize, M!toLowerCase, M!Values
<1>5. Row(c, field) \in RowType
  BY <1>4 DEF Row, RowType
<1>6. table' = [table EXCEPT ![calls[c].finId][field] = Row(c, field)]
  BY DEF M!Upsert, Row
<1>7. table \in [FinIds -> [Fields -> RowType]]
  BY DEF Typed
<1> HIDE DEF Row, RowType
<1> QED BY <1>1, <1>5, <1>6, <1>7

LEMMA Deleting ==
  ASSUME Typed, NEW c \in Calls, Sent(c), M!Delete(c)
  PROVE  /\ table' \in [FinIds -> [Fields -> RowType]]
         /\ \A f \in FinIds, g \in Fields :
               table'[f][g] = IF f = calls[c].finId THEN M!NoRow ELSE table[f][g]
<1>1. calls[c].finId \in FinIds
  BY SentType DEF CallType
<1>2. M!NoRow \in RowType
  BY DEF RowType
<1>3. table \in [FinIds -> [Fields -> RowType]]
  BY DEF Typed
<1>4. table' = [table EXCEPT ![calls[c].finId] = [field \in Fields |-> M!NoRow]]
  BY DEF M!Delete
<1> HIDE DEF RowType
<1> QED BY <1>1, <1>2, <1>3, <1>4

\* Setting a stage and what is left to write of one call.
LEMMA Setting ==
  ASSUME Typed, NEW c \in Calls, Sent(c), NEW pc \in M!Over \cup {"active", "adrift"},
         NEW todo \in SUBSET Fields,
         calls' = [calls EXCEPT ![c].todo = todo, ![c].pc = pc]
  PROVE  /\ calls' \in [Calls -> CallType \cup {M!NoCall}]
         /\ calls'[c] \in CallType
         /\ calls'[c].pc = pc /\ calls'[c].todo = todo
         /\ calls'[c].finId = calls[c].finId /\ calls'[c].fields = calls[c].fields
         /\ calls'[c].after = calls[c].after
         /\ \A d \in Calls \ {c} : Stays(d)
<1>1. calls[c] \in CallType
  BY SentType
<1>2. calls \in [Calls -> CallType \cup {M!NoCall}]
  BY DEF Typed
<1> DEFINE q == [calls[c] EXCEPT !.todo = todo, !.pc = pc]
<1>3. /\ q \in CallType /\ q.pc = pc /\ q.todo = todo
      /\ q.finId = calls[c].finId /\ q.fields = calls[c].fields /\ q.after = calls[c].after
  BY <1>1 DEF CallType
<1>4. calls' = [calls EXCEPT ![c] = q]
  BY <1>1 DEF CallType
<1> HIDE DEF q, CallType, M!NoCall
<1>5. /\ calls' \in [Calls -> CallType \cup {M!NoCall}]
      /\ calls'[c] = q /\ \A d \in Calls \ {c} : calls'[d] = calls[d]
  BY <1>2, <1>3, <1>4
<1> QED BY <1>3, <1>5 DEF Stays

\* What a step does: to the option, to each call, to each row.
Effects ==
    /\ Typed'
    /\ caseSensitive' = caseSensitive
    /\ \A c \in Calls : Stays(c) \/ Arriving(c) \/ Goes(c)
    /\ \A f \in FinIds, field \in Fields :
          table'[f][field] = table[f][field] \/ \E c \in Calls : Changed(c, f, field)

\* A step that leaves the table alone and sets the stage of one call.
LEMMA Staging ==
  ASSUME Typed, Ordered, NEW c \in Calls, Sent(c), ~Over(c),
         NEW pc \in M!Over \cup {"adrift"}, pc = "replied" => calls[c].todo = {},
         calls' = [calls EXCEPT ![c].pc = pc], UNCHANGED <<caseSensitive, table>>
  PROVE  Effects
<1> DEFINE todo == calls[c].todo
<1>1. todo \in SUBSET Fields /\ pc \in M!Over \cup {"active", "adrift"}
  BY SentType DEF CallType
<1>2. calls[c] \in CallType /\ calls[c].todo = todo
  BY SentType
<1>3. calls' = [calls EXCEPT ![c].todo = todo, ![c].pc = pc]
  BY <1>2 DEF CallType
<1> HIDE DEF todo
<1>4. /\ calls' \in [Calls -> CallType \cup {M!NoCall}]
      /\ calls'[c] \in CallType
      /\ calls'[c].pc = pc /\ calls'[c].todo = todo
      /\ calls'[c].finId = calls[c].finId /\ calls'[c].fields = calls[c].fields
      /\ calls'[c].after = calls[c].after
      /\ \A d \in Calls \ {c} : Stays(d)
  BY <1>1, <1>3, Setting
<1>5. Goes(c)
  BY <1>2, <1>4 DEF Goes
<1> QED BY <1>4, <1>5 DEF Effects, Typed

LEMMA ServeEffects ==
  ASSUME Typed, Ordered, NEW c \in Calls, M!Serve(c)
  PROVE  Effects
<1> DEFINE before == {d \in Calls : calls[d] # M!NoCall /\ calls[d].pc \in M!Over}
<1>1. PICK finId \in FinIds, fields \in Submitted \cup {[field \in {} |-> M!NoRow]} :
        calls' = [calls EXCEPT ![c] = M!Call(finId, fields, before)]
  BY DEF M!Serve
<1>2. fields \in Saves /\ DOMAIN fields \subseteq Fields
  <2>1. CASE fields \in Submitted
    <3>1. PICK F \in SUBSET Fields : fields \in [F -> M!Values]
      BY <2>1, SampleAssumption DEF M!Values
    <3> QED BY <3>1 DEF Saves
  <2>2. CASE fields = [field \in {} |-> M!NoRow]
    <3>1. fields \in [{} -> M!Values] /\ DOMAIN fields = {}
      BY <2>2
    <3> QED BY <3>1 DEF Saves
  <2> QED BY <2>1, <2>2
<1>3. M!Call(finId, fields, before) \in CallType
  BY <1>2 DEF M!Call, CallType
<1>4. /\ calls' \in [Calls -> CallType \cup {M!NoCall}]
      /\ calls'[c] = M!Call(finId, fields, before)
      /\ \A d \in Calls \ {c} : Stays(d)
  BY <1>1, <1>3 DEF Typed, Stays
<1>5. ~Sent(c)
  BY DEF M!Serve, M!NoCall, Sent
<1>6. \A d \in before : Sent(d) /\ Over(d)
  BY DEF Sent, Over, M!Over
<1>7. Arriving(c)
  BY <1>3, <1>4, <1>5, <1>6 DEF Arriving, M!Call
<1> QED BY <1>4, <1>7 DEF Effects, Typed, M!Serve

LEMMA SaveEffects ==
  ASSUME Typed, Ordered, NEW c \in Calls, M!SaveField(c)
  PROVE  Effects
<1>1. Sent(c) /\ ~Over(c) /\ calls[c].pc = "active"
  BY DEF M!SaveField, M!At, Sent, Over, M!Over
<1>2. calls[c].todo \subseteq DOMAIN calls[c].fields
  BY <1>1 DEF Ordered
<1>3. PICK field \in calls[c].todo, heard \in BOOLEAN :
        /\ M!Upsert(c, field)
        /\ calls' = [calls EXCEPT ![c].todo = @ \ {field}, ![c].pc = IF heard THEN @ ELSE "rejected"]
  BY DEF M!SaveField
<1> DEFINE pc == IF heard THEN "active" ELSE "rejected"
           todo == calls[c].todo \ {field}
<1>4. calls[c] \in CallType /\ pc \in M!Over \cup {"active", "adrift"} /\ todo \in SUBSET Fields
  BY <1>1, SentType DEF CallType, M!Over
<1>5. calls' = [calls EXCEPT ![c].todo = todo, ![c].pc = pc]
  BY <1>1, <1>3, <1>4 DEF CallType
<1> HIDE DEF pc, todo
<1>6. /\ calls' \in [Calls -> CallType \cup {M!NoCall}]
      /\ calls'[c] \in CallType
      /\ calls'[c].pc = pc /\ calls'[c].todo = todo
      /\ calls'[c].finId = calls[c].finId /\ calls'[c].fields = calls[c].fields
      /\ calls'[c].after = calls[c].after
      /\ \A d \in Calls \ {c} : Stays(d)
  BY <1>1, <1>4, <1>5, Setting
<1>7. /\ table' \in [FinIds -> [Fields -> RowType]]
      /\ field \in Fields
      /\ table'[calls[c].finId][field] = Row(c, field)
      /\ \A f \in FinIds, g \in Fields :
            table'[f][g] = table[f][g] \/ (f = calls[c].finId /\ g = field)
  BY <1>1, <1>2, <1>3, Upserting
<1>8. pc # "replied" /\ todo \subseteq calls[c].todo /\ calls[c].todo \ todo = {field}
  BY <1>3 DEF pc, todo
<1>9. Goes(c)
  BY <1>1, <1>6, <1>7, <1>8 DEF Goes
<1>10. \A f \in FinIds, g \in Fields : table'[f][g] = table[f][g] \/ Changed(c, f, g)
  BY <1>1, <1>3, <1>7 DEF Changed, Row
<1>11. caseSensitive' = caseSensitive
  BY DEF M!SaveField
<1> QED BY <1>6, <1>7, <1>9, <1>10, <1>11 DEF Effects, Typed

LEMMA DeleteEffects ==
  ASSUME Typed, Ordered, NEW c \in Calls, M!deleteAccount(c)
  PROVE  Effects
<1>1. Sent(c) /\ ~Over(c) /\ DOMAIN calls[c].fields = {}
  BY DEF M!deleteAccount, M!At, M!Deletes, Sent, Over, M!Over
<1>2. PICK pc \in M!Over : calls' = [calls EXCEPT ![c].pc = pc]
  BY DEF M!deleteAccount
<1>3. calls[c].todo = {} /\ calls[c] \in CallType /\ pc \in M!Over \cup {"active", "adrift"}
  BY <1>1, SentType DEF Ordered
<1>4. calls' = [calls EXCEPT ![c].todo = {}, ![c].pc = pc]
  BY <1>2, <1>3 DEF CallType
<1>5. /\ calls' \in [Calls -> CallType \cup {M!NoCall}]
      /\ calls'[c] \in CallType
      /\ calls'[c].pc = pc /\ calls'[c].todo = {}
      /\ calls'[c].finId = calls[c].finId /\ calls'[c].fields = calls[c].fields
      /\ calls'[c].after = calls[c].after
      /\ \A d \in Calls \ {c} : Stays(d)
  BY <1>1, <1>3, <1>4, Setting
<1>6. Goes(c)
  BY <1>1, <1>3, <1>5 DEF Goes
<1>7. /\ table' \in [FinIds -> [Fields -> RowType]]
      /\ \A f \in FinIds, g \in Fields :
            table'[f][g] = IF f = calls[c].finId THEN M!NoRow ELSE table[f][g]
  BY <1>1, Deleting DEF M!deleteAccount
<1>8. \A f \in FinIds, g \in Fields : table'[f][g] = table[f][g] \/ Changed(c, f, g)
  BY <1>1, <1>7 DEF Changed
<1>9. caseSensitive' = caseSensitive
  BY DEF M!deleteAccount
<1> QED BY <1>5, <1>6, <1>7, <1>8, <1>9 DEF Effects, Typed

LEMMA ArriveEffects ==
  ASSUME Typed, Ordered, NEW c \in Calls, M!Arrives(c)
  PROVE  Effects
<1>1. Sent(c) /\ ~Over(c) /\ calls[c] \in CallType /\ calls[c].todo \in SUBSET Fields
      /\ calls[c].todo \subseteq DOMAIN calls[c].fields
  <2>1. Sent(c) /\ ~Over(c)
    BY DEF M!Arrives, M!At, Sent, Over, M!Over
  <2> QED BY <2>1, SentType DEF Ordered, CallType
<1>2. calls' = [calls EXCEPT ![c].todo = calls[c].todo, ![c].pc = "rejected"]
  BY <1>1 DEF M!Arrives, CallType
<1>3. /\ calls' \in [Calls -> CallType \cup {M!NoCall}]
      /\ calls'[c] \in CallType
      /\ calls'[c].pc = "rejected" /\ calls'[c].todo = calls[c].todo
      /\ calls'[c].finId = calls[c].finId /\ calls'[c].fields = calls[c].fields
      /\ calls'[c].after = calls[c].after
      /\ \A d \in Calls \ {c} : Stays(d)
  BY <1>1, <1>2, Setting DEF M!Over
<1>4. Goes(c)
  BY <1>1, <1>3 DEF Goes
<1>5. /\ table' \in [FinIds -> [Fields -> RowType]]
      /\ \A f \in FinIds, g \in Fields : table'[f][g] = table[f][g] \/ Changed(c, f, g)
  <2>1. CASE M!Deletes(c)
    <3>1. DOMAIN calls[c].fields = {} /\ M!Delete(c)
      BY <2>1 DEF M!Arrives, M!Deletes
    <3> QED BY <1>1, <3>1, Deleting DEF Changed
  <2>2. CASE ~M!Deletes(c)
    <3>1. PICK field \in calls[c].todo : M!Upsert(c, field)
      BY <2>2 DEF M!Arrives
    <3>2. /\ table' \in [FinIds -> [Fields -> RowType]]
          /\ field \in Fields
          /\ table'[calls[c].finId][field] = Row(c, field)
          /\ \A f \in FinIds, g \in Fields :
                table'[f][g] = table[f][g] \/ (f = calls[c].finId /\ g = field)
      BY <1>1, <3>1, Upserting
    <3> QED BY <1>1, <3>1, <3>2 DEF Changed, Row
  <2> QED BY <2>1, <2>2
<1>6. caseSensitive' = caseSensitive
  BY DEF M!Arrives
<1> QED BY <1>3, <1>4, <1>5, <1>6 DEF Effects, Typed

LEMMA CrashEffects ==
  ASSUME Typed, M!Crash
  PROVE  Effects
<1>1. ASSUME NEW c \in Calls
      PROVE  (Stays(c) \/ Goes(c)) /\ calls'[c] \in CallType \cup {M!NoCall}
  <2>1. CASE M!At(c, "active")
    <3>1. Sent(c) /\ ~Over(c)
      BY <2>1 DEF M!At, Sent, Over, M!Over
    <3>2. calls'[c] = [calls[c] EXCEPT !.pc = "adrift"] /\ calls[c] \in CallType
      BY <2>1, <3>1, SentType DEF M!Crash
    <3> QED BY <3>1, <3>2 DEF Goes, CallType
  <2>2. CASE ~M!At(c, "active")
    BY <2>2 DEF M!Crash, Stays, Typed
  <2> QED BY <2>1, <2>2
<1>2. calls' \in [Calls -> CallType \cup {M!NoCall}]
  <2>1. calls' = [c \in Calls |-> calls'[c]]
    BY DEF M!Crash
  <2> QED BY <1>1, <2>1
<1> QED BY <1>1, <1>2 DEF Effects, Typed, M!Crash

LEMMA StepEffects == Typed /\ Ordered /\ [Next]_vars => Effects
<1> SUFFICES ASSUME Typed, Ordered, [Next]_vars PROVE Effects
  OBVIOUS
<1>1. CASE UNCHANGED mappings
  BY <1>1 DEF mappings, Effects, Typed, Stays
<1>2. CASE M!Next
  <2>1. ASSUME NEW c \in Calls, M!Fails(c) PROVE Effects
    <3>1. PICK pc \in {"rejected", "adrift"} : calls' = [calls EXCEPT ![c].pc = pc]
      BY <2>1 DEF M!Fails
    <3> QED BY <2>1, <3>1, Staging DEF M!Fails, M!At, Sent, Over, M!Over
  <2>2. ASSUME NEW c \in Calls, M!Replies(c) PROVE Effects
    BY <2>2, Staging DEF M!Replies, M!At, Sent, Over, M!Over
  <2> QED BY <1>2, <2>1, <2>2, ServeEffects, SaveEffects, DeleteEffects, ArriveEffects,
             CrashEffects DEF M!Next
<1> QED BY <1>1, <1>2 DEF Next, LedgerMoves, MappingsMove, vars

-----------------------------------------------------------------------------
(* The invariant *)

LEMMA InitInv == Init => Inv
<1> SUFFICES ASSUME Init PROVE Inv
  OBVIOUS
<1>1. \A c \in Calls : ~Sent(c)
  BY DEF Init, M!Init, Sent, M!NoCall
<1>2. M!NoRow \in RowType /\ M!NoRow.by = M!None
  BY DEF M!NoRow, RowType
<1>3. Typed
  BY <1>2 DEF Init, M!Init, Typed
<1>4. Owned
  BY <1>2 DEF Init, M!Init, Owned
<1> QED BY <1>1, <1>3, <1>4 DEF Inv, Ordered, Superseded, Kept

LEMMA StepOrdered ==
  ASSUME Ordered, Effects
  PROVE  Ordered'
<1> SUFFICES ASSUME NEW c \in Calls, Sent(c)'
             PROVE  /\ \A d \in calls'[c].after : d \in Calls => Sent(d)' /\ Over(d)'
                    /\ calls'[c].todo \subseteq DOMAIN calls'[c].fields
                    /\ calls'[c].pc = "replied" => calls'[c].todo = {}
                    /\ calls'[c].after \subseteq Calls
  BY DEF Ordered, M!At
<1>1. \A d \in Calls : Sent(d) /\ Over(d) => Sent(d)' /\ Over(d)'
  BY DEF Effects, Stays, Arriving, Goes, Sent, Over
<1>2. calls'[c].after \subseteq Calls
  <2>1. calls'[c] \in CallType
    BY DEF Effects, Typed, Sent, M!NoCall
  <2> QED BY <2>1 DEF CallType
<1>3. CASE Stays(c)
  BY <1>1, <1>2, <1>3 DEF Stays, Ordered, Sent, M!At
<1>4. CASE Arriving(c)
  BY <1>1, <1>2, <1>4 DEF Arriving
<1>5. CASE Goes(c)
  BY <1>1, <1>2, <1>5 DEF Goes, Ordered
<1> QED BY <1>3, <1>4, <1>5 DEF Effects

LEMMA StepOwned ==
  ASSUME Typed, Owned, Effects
  PROVE  Owned'
<1> SUFFICES ASSUME NEW f \in FinIds, NEW field \in Fields, table'[f][field].by # M!None
             PROVE  calls'[table'[f][field].by].pc # "unsent" /\ calls'[table'[f][field].by].finId = f
  BY DEF Owned, Sent
<1>1. \A c \in Calls : Sent(c) => Sent(c)' /\ calls'[c].finId = calls[c].finId
  BY DEF Effects, Stays, Arriving, Goes, Sent, CallType, M!Over
<1>2. CASE table'[f][field] = table[f][field]
  <2>1. table[f][field].by \in Calls
    BY <1>2 DEF Typed, RowType, M!NoRow
  <2> QED BY <1>1, <1>2, <2>1 DEF Owned, Sent
<1>3. ASSUME NEW c \in Calls, Changed(c, f, field)
      PROVE  calls'[table'[f][field].by].pc # "unsent" /\ calls'[table'[f][field].by].finId = f
  BY <1>1, <1>3 DEF Changed, M!NoRow, Sent
<1> QED BY <1>2, <1>3 DEF Effects

\* A call keeps its place: what it is about, what it came after.
LEMMA Places ==
  ASSUME Effects, NEW c \in Calls, Sent(c)
  PROVE  /\ Sent(c)' /\ calls'[c].finId = calls[c].finId /\ calls'[c].fields = calls[c].fields
         /\ calls'[c].after = calls[c].after
BY DEF Effects, Stays, Arriving, Goes, Sent, CallType, M!Over

\* What a call has written before or in this step.
LEMMA Writing ==
  ASSUME Effects, NEW c \in Calls, Sent(c), NEW field \in Written(c)'
  PROVE  field \in Written(c) \/ (~Over(c) /\ table'[calls[c].finId][field] = Row(c, field))
BY DEF Effects, Stays, Arriving, Goes, Written

\* A call that arrives has written nothing.
LEMMA NothingWritten ==
  ASSUME Effects, NEW c \in Calls, ~Sent(c), Sent(c)'
  PROVE  Written(c)' = {}
BY DEF Effects, Stays, Arriving, Goes, Written, Sent

LEMMA StepSuperseded ==
  ASSUME Typed, Ordered, Superseded, Effects
  PROVE  Superseded'
<1> SUFFICES ASSUME NEW d \in Calls, Sent(d)', NEW c \in calls'[d].after, NEW field \in Written(d)'
             PROVE  table'[calls'[d].finId][field].by # c
  BY DEF Superseded
<1>1. Sent(d)
  BY NothingWritten
<1>2. /\ calls'[d].finId = calls[d].finId /\ calls'[d].after = calls[d].after
      /\ calls[d].finId \in FinIds /\ c \in Calls /\ Over(c) /\ Sent(c)
      /\ calls'[d].fields = calls[d].fields
  BY <1>1, Places, SentType DEF CallType, Ordered
<1>3. CASE field \in Written(d)
  <2>1. field \in Fields /\ table[calls[d].finId][field].by # c
    BY <1>1, <1>2, <1>3, SentType DEF Superseded, Written
  <2>2. ASSUME NEW e \in Calls, Changed(e, calls[d].finId, field)
        PROVE  table'[calls[d].finId][field].by # c
    BY <1>2, <2>2, SampleAssumption DEF Changed, M!NoRow, M!None
  <2> QED BY <1>2, <2>1, <2>2 DEF Effects
<1>4. CASE ~Over(d) /\ table'[calls[d].finId][field] = Row(d, field)
  BY <1>2, <1>4 DEF Row
<1> QED BY <1>1, <1>3, <1>4, Writing

LEMMA StepKept ==
  ASSUME Typed, Ordered, Kept, Effects
  PROVE  Kept'
<1> SUFFICES ASSUME NEW c \in Calls, Sent(c)', M!Alone(c)', NEW field \in Written(c)'
             PROVE  table'[calls'[c].finId][field] = Row(c, field)'
  BY DEF Kept
<1>1. Sent(c)
  BY NothingWritten
<1>2. /\ calls'[c].finId = calls[c].finId /\ calls'[c].after = calls[c].after
      /\ calls[c].finId \in FinIds /\ calls'[c].fields = calls[c].fields
      /\ DOMAIN calls[c].fields \subseteq Fields
  BY <1>1, Places, SentType DEF CallType
<1>3. Row(c, field)' = Row(c, field)
  BY <1>2 DEF Row, M!normalize, Effects
<1>4. \A d \in Calls \ ({c} \cup calls[c].after) : Sent(d) => calls[d].finId # calls[c].finId
  <2>1. SUFFICES ASSUME NEW d \in Calls \ ({c} \cup calls[c].after), Sent(d)
                 PROVE  calls[d].finId # calls[c].finId
    OBVIOUS
  <2>2. Sent(d)' /\ calls'[d].finId = calls[d].finId
    BY <2>1, Places
  <2>3. calls'[d] # M!NoCall
    BY <2>2 DEF Sent, M!NoCall
  <2> QED BY <1>2, <2>2, <2>3 DEF M!Alone
<1>5. M!Alone(c)
  BY <1>4 DEF M!Alone, Typed, Sent, CallType, M!Over
<1>6. CASE field \in Written(c)
  <2>1. table[calls[c].finId][field] = Row(c, field) /\ field \in Fields
    BY <1>1, <1>2, <1>5, <1>6 DEF Kept, Written
  <2>2. ASSUME NEW e \in Calls, Changed(e, calls[c].finId, field) PROVE FALSE
    <3>1. e = c
      BY <1>1, <1>4, <2>2 DEF Changed, Ordered
    <3> QED BY <1>6, <2>2, <3>1 DEF Changed, Written
  <2> QED BY <1>2, <1>3, <2>1, <2>2 DEF Effects
<1>7. CASE table'[calls[c].finId][field] = Row(c, field)
  BY <1>2, <1>3, <1>7
<1> QED BY <1>1, <1>6, <1>7, Writing

LEMMA InvHolds == Spec => []Inv
<1>1. Inv /\ [Next]_vars => Inv'
  BY StepEffects, StepOrdered, StepOwned, StepSuperseded, StepKept DEF Inv, Effects
<1> QED BY <1>1, InitInv, PTL DEF Spec

-----------------------------------------------------------------------------
(* The ledger *)

\* What a request of each kind names.
Shapes ==
    \A r \in Requests : requests[r] # L!NoRequest => LET q == requests[r] IN
        /\ q.kind \in {"transfer", "redeem", "hold", "release", "rollback"} => q.source \in Accounts
        /\ q.kind \in {"issue", "transfer", "release"} => q.destination \in Accounts
        /\ q.kind # "createAsset" => q.quantity \in Quantities
        /\ q.kind \in {"hold", "release", "rollback"} => q.operationId \in Operations
        /\ q.kind \in {"issue", "transfer"} => q.operationId = L!None

Sound == L!TypeOK /\ Shapes

LEMMA Whole == \A q \in Quantities : L!parseInt(q) \in Nat
BY SampleAssumption DEF L!parseInt

\* A request that was sent and is due is a request.
LEMMA Due ==
  ASSUME Sound, NEW r \in Requests, requests[r].pc # "unsent"
  PROVE  requests[r] \in L!Request /\ requests[r] # L!NoRequest
BY DEF Sound, L!TypeOK, L!NoRequest

\* Moving on changes no request but its stage.
LEMMA Staged ==
  ASSUME Sound, NEW r \in Requests, requests[r].pc # "unsent",
         NEW pc \in {"due", "proof", "succeeded", "failed"}, L!Goes(r, pc)
  PROVE  requests' \in [Requests -> L!Request \cup {L!NoRequest}] /\ Shapes'
<1> DEFINE q == [requests[r] EXCEPT !.pc = pc]
<1>1. requests[r] \in L!Request /\ requests[r] # L!NoRequest
  BY Due
<1>2. /\ q \in L!Request /\ q.kind = requests[r].kind /\ q.source = requests[r].source
      /\ q.destination = requests[r].destination /\ q.quantity = requests[r].quantity
      /\ q.operationId = requests[r].operationId
  BY <1>1 DEF L!Request
<1>3. requests' = [requests EXCEPT ![r] = q]
  BY DEF L!Goes
<1> HIDE DEF q
<1>4. /\ requests' \in [Requests -> L!Request \cup {L!NoRequest}]
      /\ requests'[r] = q /\ \A x \in Requests \ {r} : requests'[x] = requests[x]
  <2>1. requests \in [Requests -> L!Request \cup {L!NoRequest}]
    BY DEF Sound, L!TypeOK
  <2> HIDE DEF L!Request, L!NoRequest
  <2> QED BY <1>2, <1>3, <2>1
<1> QED BY <1>1, <1>2, <1>4 DEF Sound, Shapes

LEMMA Debited ==
  ASSUME Sound, NEW a \in Accounts, NEW n \in Quantities, L!Covers(a, n),
         NEW funds, funds = balances
  PROVE  L!Debit(funds, a, n) \in [Accounts -> Nat]
<1>1. L!parseInt(n) \in Nat
  BY Whole
<1>2. balances \in [Accounts -> Nat] /\ balances[a] >= L!parseInt(n)
  BY DEF Sound, L!TypeOK, L!Covers
<1>3. balances[a] - L!parseInt(n) \in Nat
  BY <1>1, <1>2
<1> QED BY <1>2, <1>3 DEF L!Debit

LEMMA Opened ==
  ASSUME Sound, NEW a \in Accounts, L!Opens(a)
  PROVE  known' \subseteq Accounts
BY DEF Sound, L!TypeOK, L!Opens

LEMMA Credited ==
  ASSUME NEW funds \in [Accounts -> Nat], NEW a \in Accounts, NEW n \in Quantities
  PROVE  L!Credit(funds, a, n) \in [Accounts -> Nat]
<1>1. L!parseInt(n) \in Nat
  BY Whole
<1>2. funds[a] + L!parseInt(n) \in Nat
  BY <1>1
<1> QED BY <1>2 DEF L!Credit

\* A transaction is registered for a request.
LEMMA Registering ==
  ASSUME Sound, NEW r \in Requests, requests[r].pc # "unsent", requests[r].kind # "createAsset",
         NEW type \in {"issue", "transfer", "redeem", "hold", "release"},
         NEW source \in Accounts \cup {L!None}, NEW destination \in Accounts \cup {L!None},
         L!Registers(r, type, source, destination)
  PROVE  /\ transactions' \in [Requests -> L!Transaction \cup {L!NoTransaction}]
         /\ requests' \in [Requests -> L!Request \cup {L!NoRequest}] /\ Shapes'
         /\ UNCHANGED <<asset, crashes>>
<1>1. requests[r] \in L!Request /\ requests[r].quantity \in Quantities
  BY Due DEF Sound, Shapes
<1> DEFINE tx == [type |-> type, source |-> source, destination |-> destination,
                  quantity |-> requests[r].quantity, operationId |-> requests[r].operationId]
<1>2. tx \in L!Transaction
  BY <1>1 DEF L!Request, L!Transaction
<1>3. transactions' = [transactions EXCEPT ![r] = tx] /\ L!Goes(r, "proof")
      /\ UNCHANGED <<asset, crashes>>
  BY DEF L!Registers
<1> HIDE DEF tx
<1>4. transactions' \in [Requests -> L!Transaction \cup {L!NoTransaction}]
  <2>1. transactions \in [Requests -> L!Transaction \cup {L!NoTransaction}]
    BY DEF Sound, L!TypeOK
  <2> HIDE DEF L!Transaction, L!NoTransaction
  <2> QED BY <1>2, <1>3, <2>1
<1> QED BY <1>3, <1>4, Staged

LEMMA Holding ==
  ASSUME Sound, NEW r \in Requests, requests[r].pc # "unsent"
  PROVE  /\ L!RemovesHold(r) => holdOperations' \in [Operations -> L!HoldOperation \cup {L!NoHold}]
         /\ requests[r].kind = "hold" /\ L!SavesHold(r)
               => holdOperations' \in [Operations -> L!HoldOperation \cup {L!NoHold}]
<1>1. holdOperations \in [Operations -> L!HoldOperation \cup {L!NoHold}]
  BY DEF Sound, L!TypeOK
<1>2. ASSUME requests[r].kind = "hold"
      PROVE  [finId |-> requests[r].source, quantity |-> requests[r].quantity] \in L!HoldOperation
  BY <1>2, Due DEF Sound, Shapes, L!HoldOperation
<1> HIDE DEF L!HoldOperation, L!NoHold
<1> QED BY <1>1, <1>2 DEF L!RemovesHold, L!SavesHold

\* Whose account a hold is on.
LEMMA Holder ==
  ASSUME Sound, NEW r \in Requests, requests[r].pc # "unsent",
         requests[r].kind \in {"release", "rollback"}, L!Held(r) # L!NoHold
  PROVE  L!Held(r).finId \in Accounts
BY Due DEF Sound, Shapes, L!TypeOK, L!Held, L!HoldOperation

\* The methods of the services.
LEMMA MethodSound ==
  ASSUME Sound, NEW r \in Requests,
         \/ L!issue(r) \/ L!transfer(r) \/ L!redeem(r) \/ L!hold(r) \/ L!release(r) \/ L!rollback(r)
  PROVE  Sound'
<1>1. requests[r].pc = "due" /\ requests[r].pc # "unsent"
  BY DEF L!issue, L!transfer, L!redeem, L!hold, L!release, L!rollback, L!Runs, L!At
<1> DEFINE q == requests[r]
<1>2. q \in L!Request /\ q # L!NoRequest
  BY <1>1, Due
<1>3. balances \in [Accounts -> Nat]
  BY DEF Sound, L!TypeOK
<1>4. CASE L!issue(r)
  <2>1. q.kind = "issue" /\ q.destination \in Accounts /\ q.quantity \in Quantities
    BY <1>2, <1>4 DEF L!issue, L!Runs, Sound, Shapes
  <2>2. balances' \in [Accounts -> Nat]
    BY <1>3, <1>4, <2>1, Credited DEF L!issue
  <2>3. L!Registers(r, "issue", L!None, q.destination) /\ UNCHANGED holdOperations
    BY <1>4 DEF L!issue
  <2>4. known' \subseteq Accounts
    BY <1>4, <2>1, Opened DEF L!issue
  <2> QED BY <1>1, <2>1, <2>2, <2>3, <2>4, Registering DEF Sound, L!TypeOK
<1>5. CASE L!transfer(r)
  <2>1. /\ q.kind = "transfer" /\ q.source \in Accounts /\ q.destination \in Accounts
        /\ q.quantity \in Quantities /\ L!Covers(q.source, q.quantity)
    BY <1>2, <1>5 DEF L!transfer, L!Runs, L!Throws, Sound, Shapes
  <2>2. balances' \in [Accounts -> Nat]
    BY <1>5, <2>1, Debited, Credited DEF L!transfer
  <2>3. L!Registers(r, "transfer", q.source, q.destination) /\ UNCHANGED holdOperations
    BY <1>5 DEF L!transfer
  <2>4. known' \subseteq Accounts
    BY <1>5, <2>1, Opened DEF L!transfer
  <2> QED BY <1>1, <2>1, <2>2, <2>3, <2>4, Registering DEF Sound, L!TypeOK
<1>6. CASE L!redeem(r)
  <2>1. /\ q.kind = "redeem" /\ q.source \in Accounts /\ q.quantity \in Quantities
        /\ q.operationId = L!None => L!Covers(q.source, q.quantity)
    BY <1>2, <1>6 DEF L!redeem, L!Runs, L!Throws, Sound, Shapes
  <2>2. balances' \in [Accounts -> Nat]
    BY <1>3, <1>6, <2>1, Debited DEF L!redeem
  <2>3. L!Registers(r, "redeem", q.source, L!None) /\ UNCHANGED known
    BY <1>6 DEF L!redeem
  <2>4. holdOperations' \in [Operations -> L!HoldOperation \cup {L!NoHold}]
    BY <1>1, <1>6, Holding DEF L!redeem, Sound, L!TypeOK
  <2> QED BY <1>1, <2>1, <2>2, <2>3, <2>4, Registering DEF Sound, L!TypeOK
<1>7. CASE L!hold(r)
  <2>1. /\ q.kind = "hold" /\ q.source \in Accounts /\ q.quantity \in Quantities
        /\ L!Covers(q.source, q.quantity)
    BY <1>2, <1>7 DEF L!hold, L!Runs, L!Throws, Sound, Shapes
  <2>2. balances' \in [Accounts -> Nat]
    BY <1>7, <2>1, Debited DEF L!hold
  <2>3. L!Registers(r, "hold", q.source, L!None) /\ UNCHANGED known
    BY <1>7 DEF L!hold
  <2>4. holdOperations' \in [Operations -> L!HoldOperation \cup {L!NoHold}]
    BY <1>1, <1>7, <2>1, Holding DEF L!hold
  <2> QED BY <1>1, <2>1, <2>2, <2>3, <2>4, Registering DEF Sound, L!TypeOK
<1>8. CASE L!release(r)
  <2>1. /\ q.kind = "release" /\ q.destination \in Accounts /\ q.quantity \in Quantities
        /\ L!Held(r) # L!NoHold
    BY <1>2, <1>8 DEF L!release, L!Runs, L!Throws, Sound, Shapes
  <2>2. L!Held(r).finId \in Accounts
    BY <1>1, <2>1, Holder
  <2>3. balances' \in [Accounts -> Nat]
    BY <1>3, <1>8, <2>1, Credited DEF L!release
  <2>4. L!Registers(r, "release", L!Held(r).finId, q.destination)
    BY <1>8 DEF L!release
  <2>5. holdOperations' \in [Operations -> L!HoldOperation \cup {L!NoHold}]
    BY <1>1, <1>8, Holding DEF L!release
  <2>6. known' \subseteq Accounts
    BY <1>8, <2>1, Opened DEF L!release
  <2> QED BY <1>1, <2>1, <2>2, <2>3, <2>4, <2>5, <2>6, Registering DEF Sound, L!TypeOK
<1>9. CASE L!rollback(r)
  <2>1. q.kind = "rollback" /\ q.quantity \in Quantities /\ L!Held(r) # L!NoHold
    BY <1>2, <1>9 DEF L!rollback, L!Runs, L!Throws, Sound, Shapes
  <2>2. L!Held(r).finId \in Accounts
    BY <1>1, <2>1, Holder
  <2>3. balances' \in [Accounts -> Nat]
    BY <1>3, <1>9, <2>1, <2>2, Credited DEF L!rollback
  <2>4. L!Registers(r, "release", L!Held(r).finId, L!None)
    BY <1>9 DEF L!rollback
  <2>5. holdOperations' \in [Operations -> L!HoldOperation \cup {L!NoHold}]
    BY <1>1, <1>9, Holding DEF L!rollback
  <2>6. known' \subseteq Accounts
    BY <1>9, <2>2, Opened DEF L!rollback
  <2> QED BY <1>1, <2>1, <2>2, <2>3, <2>4, <2>5, <2>6, Registering DEF Sound, L!TypeOK
<1> QED BY <1>4, <1>5, <1>6, <1>7, <1>8, <1>9

\* A request that arrives names what its kind needs.
LEMMA AskedShapes ==
  ASSUME NEW q \in Asked
  PROVE  /\ q \in L!Request
         /\ q.kind \in {"transfer", "redeem", "hold", "release", "rollback"} => q.source \in Accounts
         /\ q.kind \in {"issue", "transfer", "release"} => q.destination \in Accounts
         /\ q.kind # "createAsset" => q.quantity \in Quantities
         /\ q.kind \in {"hold", "release", "rollback"} => q.operationId \in Operations
         /\ q.kind \in {"issue", "transfer"} => q.operationId = L!None
<1>1. q \in L!Askable
  BY SampleAssumption
<1> QED BY <1>1 DEF L!Askable, L!Ask, L!Request, L!Kinds

LEMMA InitSound == Init => Sound
BY SampleAssumption DEF Init, L!Init, Sound, L!TypeOK, Shapes

LEMMA StepSound == Sound /\ [Next]_vars => Sound'
<1> SUFFICES ASSUME Sound, [Next]_vars PROVE Sound'
  OBVIOUS
<1>1. CASE UNCHANGED ledger
  BY <1>1 DEF ledger, Sound, L!TypeOK, Shapes
<1>2. ASSUME NEW r \in Requests, L!Serve(r) PROVE Sound'
  <2>1. PICK q \in Asked : requests' = [requests EXCEPT ![r] = q]
    BY <1>2 DEF L!Serve
  <2>2. requests \in [Requests -> L!Request \cup {L!NoRequest}] /\ q \in L!Request
    BY AskedShapes DEF Sound, L!TypeOK
  <2>3. /\ requests' \in [Requests -> L!Request \cup {L!NoRequest}]
        /\ requests'[r] = q /\ \A x \in Requests \ {r} : requests'[x] = requests[x]
    <3> HIDE DEF L!Request, L!NoRequest
    <3> QED BY <2>1, <2>2
  <2>4. Shapes'
    BY <2>3, AskedShapes DEF Sound, Shapes
  <2> QED BY <1>2, <2>3, <2>4 DEF L!Serve, Sound, L!TypeOK
<1>3. ASSUME NEW r \in Requests, L!createAsset(r) PROVE Sound'
  <2>1. requests[r].pc # "unsent" /\ L!Goes(r, "succeeded")
    BY <1>3 DEF L!createAsset, L!Runs, L!At
  <2> QED BY <1>3, <2>1, Staged DEF L!createAsset, Sound, L!TypeOK
<1>4. ASSUME NEW r \in Requests, L!BusinessError(r) PROVE Sound'
  <2>1. requests[r].pc # "unsent" /\ L!Goes(r, "failed")
    BY <1>4 DEF L!BusinessError, L!At
  <2>2. holdOperations' \in [Operations -> L!HoldOperation \cup {L!NoHold}]
    BY <1>4, <2>1, Holding DEF L!BusinessError, Sound, L!TypeOK
  <2> QED BY <1>4, <2>1, <2>2, Staged DEF L!BusinessError, Sound, L!TypeOK
<1>5. ASSUME NEW r \in Requests, L!ledgerProof(r) PROVE Sound'
  <2>1. PICK outcome \in {"succeeded", "failed"} : L!Goes(r, outcome)
    BY <1>5 DEF L!ledgerProof
  <2>2. requests[r].pc # "unsent" /\ outcome \in {"due", "proof", "succeeded", "failed"}
    BY <1>5 DEF L!ledgerProof, L!At
  <2> QED BY <1>5, <2>1, <2>2, Staged DEF L!ledgerProof, Sound, L!TypeOK
<1>6. CASE L!Crash
  <2>1. ASSUME NEW r \in Requests
        PROVE  /\ requests'[r] \in L!Request \cup {L!NoRequest}
               /\ requests'[r] # L!NoRequest =>
                     /\ requests[r] # L!NoRequest
                     /\ requests'[r].kind = requests[r].kind /\ requests'[r].source = requests[r].source
                     /\ requests'[r].destination = requests[r].destination
                     /\ requests'[r].quantity = requests[r].quantity
                     /\ requests'[r].operationId = requests[r].operationId
    <3>1. CASE L!At(r, "proof")
      <4>1. requests[r] \in L!Request /\ requests[r] # L!NoRequest
        BY <3>1, Due DEF L!At
      <4>2. requests'[r] = [requests[r] EXCEPT !.pc = "due"]
        BY <1>6, <3>1 DEF L!Crash
      <4> QED BY <4>1, <4>2 DEF L!Request
    <3>2. CASE ~L!At(r, "proof")
      BY <1>6, <3>2 DEF L!Crash, Sound, L!TypeOK
    <3> QED BY <3>1, <3>2
  <2>2. requests' \in [Requests -> L!Request \cup {L!NoRequest}]
    <3>1. requests' = [r \in Requests |-> requests'[r]]
      BY <1>6 DEF L!Crash
    <3> QED BY <2>1, <3>1
  <2>3. Shapes'
    BY <2>1 DEF Sound, Shapes
  <2>4. crashes' \in 0..MaxCrashes
    BY <1>6, SampleAssumption DEF L!Crash, Sound, L!TypeOK
  <2>5. balances' \in [Accounts -> Nat] /\ asset' \in BOOLEAN /\ known' \subseteq Accounts
    BY <1>6 DEF L!Crash
  <2>6. holdOperations' \in [Operations -> L!HoldOperation \cup {L!NoHold}]
    BY <1>6 DEF L!Crash
  <2>7. transactions' \in [Requests -> L!Transaction \cup {L!NoTransaction}]
    BY <1>6 DEF L!Crash
  <2> QED BY <2>2, <2>3, <2>4, <2>5, <2>6, <2>7 DEF Sound, L!TypeOK
<1>7. L!Next \/ UNCHANGED ledger
  BY DEF Next, LedgerMoves, MappingsMove, vars
<1>8. CASE L!Next
  <2>1. L!Crash \/ \E r \in Requests :
          \/ L!Serve(r) \/ L!createAsset(r) \/ L!issue(r) \/ L!transfer(r) \/ L!redeem(r)
          \/ L!hold(r) \/ L!release(r) \/ L!rollback(r) \/ L!BusinessError(r) \/ L!ledgerProof(r)
    BY <1>8 DEF L!Next
  <2>2. ASSUME NEW r \in Requests,
               \/ L!issue(r) \/ L!transfer(r) \/ L!redeem(r) \/ L!hold(r) \/ L!release(r) \/ L!rollback(r)
        PROVE  Sound'
    BY <2>2, MethodSound
  <2> QED BY <1>2, <1>3, <1>4, <1>5, <1>6, <2>1, <2>2
<1> QED BY <1>1, <1>7, <1>8

-----------------------------------------------------------------------------
(* The receipts *)

\* What has not run has no receipt, and what awaits its proof has one.
Fresh ==
    \A r \in Requests :
        /\ requests[r].pc \in {"unsent", "due"} => r \notin L!Receipts
        /\ requests[r].pc = "proof" => r \in L!Receipts

\* A receipt names the quantity and the operation of its request.
Faithful ==
    \A r \in L!Receipts :
        /\ transactions[r].quantity = requests[r].quantity
        /\ transactions[r].operationId = requests[r].operationId
        /\ transactions[r].type = "hold" => requests[r] # L!NoRequest /\ requests[r].kind = "hold"

\* The record of a hold was saved by a request that took its funds, or was refused.
Backed(o) ==
    holdOperations[o] # L!NoHold =>
        \E r \in L!HoldsAbout(o) \cup L!Refused(o) : requests[r].quantity = holdOperations[o].quantity

\* The funds of the holds of one operation come back.
ComesBack(o) ==
    L!OneQuantity(o) =>
        /\ L!Amount(L!Settling(o)) + L!Kept(o) <= L!Amount(L!HoldsAbout(o)) + L!AmountRefused(o)
        /\ (\A r, s \in L!HoldsOf(o) : r = s)
              => L!Amount(L!HoldsAbout(o)) <= L!Amount(L!Settling(o)) + L!Kept(o)

Marked == \A o \in Operations : Backed(o) /\ ComesBack(o)

Receipted == Sound /\ Fresh /\ Faithful /\ L!ReceiptsExplainBalances /\ Marked

\* The ledger sums as Sums does.
LEMMA SameSum ==
  ASSUME NEW f, NEW S
  PROVE  L!SumFunctionOnSet(f, S) = SumFunctionOnSet(f, S)
BY DEF SumFunctionOnSet, FoldFunctionOnSet, MapThenFoldSet,
       L!SumFunctionOnSet, L!FoldFunctionOnSet, L!MapThenFoldSet

\* Moving on changes no more of a request than its stage.
LEMMA Moving ==
  ASSUME Sound, NEW r \in Requests, requests[r].pc # "unsent",
         NEW pc \in {"due", "proof", "succeeded", "failed"}, L!Goes(r, pc)
  PROVE  /\ requests'[r].pc = pc
         /\ \A x \in Requests \ {r} : requests'[x] = requests[x]
         /\ \A x \in Requests : /\ requests'[x].kind = requests[x].kind
                                /\ requests'[x].operationId = requests[x].operationId
                                /\ requests'[x].quantity = requests[x].quantity
                                /\ requests'[x] # L!NoRequest <=> requests[x] # L!NoRequest
<1>1. requests[r] \in L!Request /\ requests[r] # L!NoRequest
  BY Due
<1> DEFINE q == [requests[r] EXCEPT !.pc = pc]
<1>2. /\ q.pc = pc /\ q.kind = requests[r].kind /\ q.operationId = requests[r].operationId
      /\ q.quantity = requests[r].quantity /\ q # L!NoRequest
  BY <1>1 DEF L!Request, L!NoRequest
<1>3. requests' = [requests EXCEPT ![r] = q] /\ DOMAIN requests = Requests
  BY DEF L!Goes, Sound, L!TypeOK
<1> HIDE DEF q, L!NoRequest
<1> QED BY <1>1, <1>2, <1>3

\* The receipt of a request that runs.
Receipt(r, type, source, destination) ==
    [type |-> type, source |-> source, destination |-> destination,
     quantity |-> requests[r].quantity, operationId |-> requests[r].operationId]

LEMMA ReceiptAdded ==
  ASSUME Sound, Fresh, NEW r \in Requests, requests[r].pc = "due",
         NEW type \in {"issue", "transfer", "redeem", "hold", "release"}, NEW source, NEW destination,
         L!Registers(r, type, source, destination)
  PROVE  /\ r \notin L!Receipts /\ L!Receipts' = L!Receipts \cup {r}
         /\ transactions'[r] = Receipt(r, type, source, destination)
         /\ \A x \in Requests \ {r} : transactions'[x] = transactions[x]
         /\ L!Goes(r, "proof")
<1>1. transactions' = [transactions EXCEPT ![r] = Receipt(r, type, source, destination)]
      /\ L!Goes(r, "proof")
  BY DEF L!Registers, Receipt
<1>2. r \notin L!Receipts
  BY DEF Fresh
<1>3. /\ transactions'[r] = Receipt(r, type, source, destination)
      /\ \A x \in Requests \ {r} : transactions'[x] = transactions[x]
  BY <1>1 DEF Sound, L!TypeOK
<1>4. Receipt(r, type, source, destination) # L!NoTransaction
  BY DEF Receipt, L!NoTransaction, L!None
<1>5. L!Receipts' = L!Receipts \cup {r}
  BY <1>3, <1>4 DEF L!Receipts
<1> QED BY <1>1, <1>2, <1>3, <1>5

LEMMA FreshAdded ==
  ASSUME Sound, Fresh, Faithful, NEW r \in Requests, requests[r].pc = "due",
         NEW type \in {"issue", "transfer", "redeem", "hold", "release"}, NEW source, NEW destination,
         type = "hold" => requests[r].kind = "hold",
         L!Registers(r, type, source, destination)
  PROVE  Fresh' /\ Faithful'
<1>1. /\ r \notin L!Receipts /\ L!Receipts' = L!Receipts \cup {r}
      /\ transactions'[r] = Receipt(r, type, source, destination)
      /\ \A x \in Requests \ {r} : transactions'[x] = transactions[x]
      /\ L!Goes(r, "proof")
  BY ReceiptAdded
<1>2. requests[r].pc # "unsent" /\ requests[r] # L!NoRequest
  BY Due
<1>3. /\ requests'[r].pc = "proof"
      /\ \A x \in Requests \ {r} : requests'[x] = requests[x]
      /\ \A x \in Requests : /\ requests'[x].kind = requests[x].kind
                             /\ requests'[x].operationId = requests[x].operationId
                             /\ requests'[x].quantity = requests[x].quantity
                             /\ requests'[x] # L!NoRequest <=> requests[x] # L!NoRequest
  BY <1>1, <1>2, Moving
<1>4. Fresh'
  BY <1>1, <1>3 DEF Fresh
<1>5. L!Receipts \subseteq Requests
  BY DEF L!Receipts
<1>6. Faithful'
  BY <1>1, <1>2, <1>3, <1>5 DEF Faithful, Receipt
<1> QED BY <1>4, <1>6

\* What some receipts amount to, after one more.
LEMMA AmountAfter ==
  ASSUME Sound, NEW r \in Requests, requests[r].quantity \in Quantities, r \notin L!Receipts,
         transactions'[r].quantity = requests[r].quantity,
         \A x \in Requests \ {r} : transactions'[x] = transactions[x],
         NEW S, S \subseteq L!Receipts, NEW T, T = S \/ T = S \cup {r}
  PROVE  /\ SumFunctionOnSet([x \in S |-> L!parseInt(transactions[x].quantity)], S) \in Nat
         /\ SumFunctionOnSet([x \in T |-> L!parseInt(transactions'[x].quantity)], T)
               = SumFunctionOnSet([x \in S |-> L!parseInt(transactions[x].quantity)], S)
                    + (IF r \in T THEN L!parseInt(requests[r].quantity) ELSE 0)
<1> DEFINE f == [x \in S |-> L!parseInt(transactions[x].quantity)]
           g == [x \in T |-> L!parseInt(transactions'[x].quantity)]
           n == L!parseInt(requests[r].quantity)
<1>1. L!Receipts \subseteq Requests /\ r \notin S
  BY DEF L!Receipts
<1>2. IsFiniteSet(S)
  BY <1>1, SampleAssumption, FS_Subset
<1>3. \A x \in L!Receipts : L!parseInt(transactions[x].quantity) \in Nat
  BY Whole DEF L!Receipts, Sound, L!TypeOK, L!Transaction
<1>4. n \in Nat
  BY Whole
<1>5. \A x \in S : f[x] \in Nat /\ g[x] = f[x]
  BY <1>1, <1>3
<1>6. r \in T => g[r] = n
  OBVIOUS
<1> HIDE DEF f, g, n
<1>7. SumFunctionOnSet(f, S) \in Nat
  BY <1>2, <1>5, SumNat
<1>8. (\A x \in S : f[x] \in Int /\ g[x] = f[x]) /\ (r \in T => g[r] \in Int)
  BY <1>4, <1>5, <1>6
<1>9. SumFunctionOnSet(g, T) = SumFunctionOnSet(f, S) + (IF r \in T THEN g[r] ELSE 0)
  BY <1>1, <1>2, <1>8, SumMayAdd
<1> QED BY <1>6, <1>7, <1>9 DEF f, g, n

\* What a receipt takes from an account and brings to it is what the balance changes by.
LEMMA BalanceAdded ==
  ASSUME Sound, Sound', Fresh, L!ReceiptsExplainBalances, NEW r \in Requests, requests[r].pc = "due",
         requests[r].quantity \in Quantities,
         NEW type \in {"issue", "transfer", "redeem", "hold", "release"}, NEW source, NEW destination,
         L!Registers(r, type, source, destination),
         NEW a \in Accounts, NEW n, n = L!parseInt(requests[r].quantity),
         NEW tx, tx = Receipt(r, type, source, destination),
         balances'[a] + (IF L!Takes(tx, a) THEN n ELSE 0) = balances[a] + (IF L!Brings(tx, a) THEN n ELSE 0)
  PROVE  balances'[a] + L!Amount(L!TakingFrom(a))' = L!Amount(L!BringingTo(a))'
<1> DEFINE S1 == L!TakingFrom(a)
           T1 == L!TakingFrom(a)'
           S2 == L!BringingTo(a)
           T2 == L!BringingTo(a)'
           s1 == SumFunctionOnSet([x \in S1 |-> L!parseInt(transactions[x].quantity)], S1)
           t1 == SumFunctionOnSet([x \in T1 |-> L!parseInt(transactions'[x].quantity)], T1)
           s2 == SumFunctionOnSet([x \in S2 |-> L!parseInt(transactions[x].quantity)], S2)
           t2 == SumFunctionOnSet([x \in T2 |-> L!parseInt(transactions'[x].quantity)], T2)
<1>1. /\ r \notin L!Receipts /\ L!Receipts' = L!Receipts \cup {r} /\ transactions'[r] = tx
      /\ \A x \in Requests \ {r} : transactions'[x] = transactions[x]
  BY ReceiptAdded
<1>2. L!Receipts \subseteq Requests
  BY DEF L!Receipts
<1>3. \A x \in L!Receipts : transactions'[x] = transactions[x]
  BY <1>1, <1>2
<1>4. /\ r \notin S1 /\ T1 = (IF L!Takes(tx, a) THEN S1 \cup {r} ELSE S1)
      /\ r \notin S2 /\ T2 = (IF L!Brings(tx, a) THEN S2 \cup {r} ELSE S2)
  BY <1>1, <1>3 DEF L!TakingFrom, L!BringingTo
<1>5. S1 \subseteq L!Receipts /\ S2 \subseteq L!Receipts
  BY DEF L!TakingFrom, L!BringingTo
<1>6. tx.quantity = requests[r].quantity /\ n \in Nat
  BY Whole DEF Receipt
<1>7. /\ L!Amount(L!TakingFrom(a)) = s1 /\ L!Amount(L!BringingTo(a)) = s2
      /\ L!Amount(L!TakingFrom(a))' = t1 /\ L!Amount(L!BringingTo(a))' = t2
  BY SameSum DEF L!Amount
<1> HIDE DEF S1, T1, S2, T2
<1> HIDE DEF L!Takes, L!Brings
<1>8. s1 \in Nat /\ t1 = s1 + (IF r \in T1 THEN n ELSE 0)
  <2>1. (T1 = S1 \/ T1 = S1 \cup {r}) /\ transactions'[r].quantity = requests[r].quantity
    BY <1>1, <1>4, <1>6
  <2> QED BY <1>1, <1>5, <2>1, AmountAfter
<1>9. s2 \in Nat /\ t2 = s2 + (IF r \in T2 THEN n ELSE 0)
  <2>1. (T2 = S2 \/ T2 = S2 \cup {r}) /\ transactions'[r].quantity = requests[r].quantity
    BY <1>1, <1>4, <1>6
  <2> QED BY <1>1, <1>5, <2>1, AmountAfter
<1>10. balances[a] + s1 = s2
  BY <1>7 DEF L!ReceiptsExplainBalances
<1>11. balances[a] \in Int /\ balances'[a] \in Int
  BY DEF Sound, L!TypeOK
<1>12. (r \in T1 <=> L!Takes(tx, a)) /\ (r \in T2 <=> L!Brings(tx, a))
  BY <1>4
<1> HIDE DEF s1, t1, s2, t2
<1> QED BY <1>6, <1>7, <1>8, <1>9, <1>10, <1>11, <1>12

-----------------------------------------------------------------------------
(* The holds *)

\* What the receipts and the refusals of an operation amount to are natural numbers.
LEMMA AmountsNat ==
  ASSUME Sound, NEW o \in Operations
  PROVE  /\ L!Amount(L!HoldsAbout(o)) \in Nat /\ L!Amount(L!Settling(o)) \in Nat
         /\ L!AmountRefused(o) \in Nat
<1>1. \A x \in L!Receipts : L!parseInt(transactions[x].quantity) \in Nat
  BY Whole DEF L!Receipts, Sound, L!TypeOK, L!Transaction
<1>2. \A x \in L!Refused(o) : L!parseInt(requests[x].quantity) \in Nat
  BY Whole DEF L!Refused, L!HoldsOf, Sound, Shapes
<1>3. /\ L!HoldsAbout(o) \subseteq L!Receipts /\ L!Settling(o) \subseteq L!Receipts
      /\ L!Receipts \subseteq Requests /\ L!Refused(o) \subseteq Requests
  BY DEF L!HoldsAbout, L!Settling, L!About, L!Receipts, L!Refused, L!HoldsOf
<1>4. /\ IsFiniteSet(L!HoldsAbout(o)) /\ IsFiniteSet(L!Settling(o)) /\ IsFiniteSet(L!Refused(o))
  BY <1>3, SampleAssumption, FS_Subset
<1>5. ASSUME NEW S, S \subseteq L!Receipts, IsFiniteSet(S)
      PROVE  L!Amount(S) \in Nat
  <2> DEFINE f == [x \in S |-> L!parseInt(transactions[x].quantity)]
  <2>1. \A x \in S : f[x] \in Nat
    BY <1>1, <1>5
  <2> HIDE DEF f
  <2>2. SumFunctionOnSet(f, S) \in Nat
    BY <1>5, <2>1, SumNat
  <2> QED BY <2>2, SameSum DEF f, L!Amount
<1>6. L!AmountRefused(o) \in Nat
  <2> DEFINE S == L!Refused(o)
             f == [x \in S |-> L!parseInt(requests[x].quantity)]
  <2>1. (\A x \in S : f[x] \in Nat) /\ IsFiniteSet(S)
    BY <1>2, <1>4
  <2>2. L!AmountRefused(o) = SumFunctionOnSet(f, S)
    BY SameSum DEF L!AmountRefused
  <2> HIDE DEF f, S
  <2> QED BY <2>1, <2>2, SumNat
<1> QED BY <1>3, <1>4, <1>5, <1>6

\* What is held is a natural number, and nothing when there is no record.
LEMMA KeptNat ==
  ASSUME Sound, NEW o \in Operations
  PROVE  L!Kept(o) \in Nat /\ (holdOperations[o] = L!NoHold => L!Kept(o) = 0)
<1>1. L!parseInt(0) = 0
  BY DEF L!parseInt
<1>2. holdOperations[o] \in L!HoldOperation \cup {L!NoHold}
  BY DEF Sound, L!TypeOK
<1>3. holdOperations[o] # L!NoHold => holdOperations[o].quantity \in Quantities
  BY <1>2 DEF L!HoldOperation
<1> QED BY <1>1, <1>3, Whole DEF L!Kept, L!NoHold

\* An operation nothing happened to.
LEMMA MarkedStays ==
  ASSUME NEW o \in Operations, Backed(o), ComesBack(o),
         L!About(o)' = L!About(o), \A x \in L!About(o) : transactions'[x] = transactions[x],
         L!Refused(o)' = L!Refused(o), L!HoldsOf(o) \subseteq L!HoldsOf(o)',
         \A x \in L!About(o) \cup L!Refused(o) : requests'[x].quantity = requests[x].quantity,
         holdOperations'[o] = holdOperations[o]
  PROVE  Backed(o)' /\ ComesBack(o)'
<1>1. L!HoldsAbout(o)' = L!HoldsAbout(o) /\ L!Settling(o)' = L!Settling(o)
  BY DEF L!HoldsAbout, L!Settling
<1>2. L!HoldsAbout(o) \subseteq L!About(o) /\ L!Settling(o) \subseteq L!About(o)
  BY DEF L!HoldsAbout, L!Settling
<1>3. Backed(o)'
  BY <1>1, <1>2 DEF Backed
<1>4. L!Amount(L!HoldsAbout(o))' = L!Amount(L!HoldsAbout(o))
  <2>1. [x \in L!HoldsAbout(o) |-> L!parseInt(transactions'[x].quantity)]
           = [x \in L!HoldsAbout(o) |-> L!parseInt(transactions[x].quantity)]
    BY <1>2
  <2> QED BY <1>1, <2>1 DEF L!Amount
<1>5. L!Amount(L!Settling(o))' = L!Amount(L!Settling(o))
  <2>1. [x \in L!Settling(o) |-> L!parseInt(transactions'[x].quantity)]
           = [x \in L!Settling(o) |-> L!parseInt(transactions[x].quantity)]
    BY <1>2
  <2> QED BY <1>1, <2>1 DEF L!Amount
<1>6. L!AmountRefused(o)' = L!AmountRefused(o)
  <2>1. [x \in L!Refused(o) |-> L!parseInt(requests'[x].quantity)]
           = [x \in L!Refused(o) |-> L!parseInt(requests[x].quantity)]
    OBVIOUS
  <2> QED BY <2>1 DEF L!AmountRefused
<1>7. L!Kept(o)' = L!Kept(o)
  BY DEF L!Kept
<1>8. L!OneQuantity(o)' => L!OneQuantity(o)
  BY DEF L!OneQuantity
<1> HIDE DEF L!Amount, L!AmountRefused, L!Kept, L!OneQuantity
<1>9. ComesBack(o)'
  BY <1>4, <1>5, <1>6, <1>7, <1>8 DEF ComesBack
<1> QED BY <1>3, <1>9

\* What a method does to the record of its operation, if it names one: a hold saves it,
\* and what settles the hold removes it.
Marks(r, type) ==
    \/ requests[r].operationId = L!None /\ type # "hold" /\ UNCHANGED holdOperations
    \/ /\ requests[r].operationId \in Operations
       /\ IF type = "hold" THEN requests[r].kind = "hold" /\ L!SavesHold(r)
                           ELSE L!Held(r) # L!NoHold /\ L!RemovesHold(r)

\* The receipts about an operation, after one more.
LEMMA AboutAdded ==
  ASSUME Sound, Fresh, NEW r \in Requests, requests[r].pc = "due", requests[r].quantity \in Quantities,
         NEW type \in {"issue", "transfer", "redeem", "hold", "release"}, NEW source, NEW destination,
         L!Registers(r, type, source, destination), NEW o \in Operations,
         NEW n, n = L!parseInt(requests[r].quantity)
  PROVE  /\ \A x \in Requests : requests'[x].quantity = requests[x].quantity
         /\ L!HoldsOf(o)' = L!HoldsOf(o) /\ L!Refused(o)' = L!Refused(o)
         /\ L!AmountRefused(o)' = L!AmountRefused(o)
         /\ r \notin L!About(o) /\ \A x \in L!About(o) : transactions'[x] = transactions[x]
         /\ L!About(o)' = IF requests[r].operationId = o THEN L!About(o) \cup {r} ELSE L!About(o)
         /\ L!HoldsAbout(o)' = IF requests[r].operationId = o /\ type = "hold"
                               THEN L!HoldsAbout(o) \cup {r} ELSE L!HoldsAbout(o)
         /\ L!Amount(L!HoldsAbout(o))' = L!Amount(L!HoldsAbout(o))
               + (IF requests[r].operationId = o /\ type = "hold" THEN n ELSE 0)
         /\ L!Amount(L!Settling(o))' = L!Amount(L!Settling(o))
               + (IF requests[r].operationId = o /\ type # "hold" THEN n ELSE 0)
<1> DEFINE tx == Receipt(r, type, source, destination)
<1>1. /\ r \notin L!Receipts /\ L!Receipts' = L!Receipts \cup {r} /\ transactions'[r] = tx
      /\ \A x \in Requests \ {r} : transactions'[x] = transactions[x]
      /\ L!Goes(r, "proof")
  BY ReceiptAdded
<1>2. L!Receipts \subseteq Requests /\ requests[r].pc # "unsent"
  BY DEF L!Receipts
<1>3. \A x \in L!Receipts : transactions'[x] = transactions[x]
  BY <1>1, <1>2
<1>4. tx.type = type /\ tx.operationId = requests[r].operationId /\ tx.quantity = requests[r].quantity
  BY DEF Receipt
<1> HIDE DEF tx
<1>5. /\ requests'[r].pc = "proof"
      /\ \A x \in Requests \ {r} : requests'[x] = requests[x]
      /\ \A x \in Requests : /\ requests'[x].kind = requests[x].kind
                             /\ requests'[x].operationId = requests[x].operationId
                             /\ requests'[x].quantity = requests[x].quantity
                             /\ requests'[x] # L!NoRequest <=> requests[x] # L!NoRequest
  BY <1>1, <1>2, Moving
<1>6. L!HoldsOf(o)' = L!HoldsOf(o) /\ L!Refused(o)' = L!Refused(o)
  <2>1. L!HoldsOf(o)' = L!HoldsOf(o)
    BY <1>5 DEF L!HoldsOf
  <2>2. r \notin L!Refused(o) /\ r \notin L!Refused(o)'
    BY <1>5 DEF L!Refused, L!At
  <2>3. \A x \in Requests \ {r} : x \in L!Refused(o) <=> x \in L!Refused(o)'
    BY <1>1, <1>5, <2>1 DEF L!Refused, L!At
  <2>4. L!Refused(o) \subseteq Requests /\ L!Refused(o)' \subseteq Requests
    BY DEF L!HoldsOf, L!Refused
  <2> QED BY <2>1, <2>2, <2>3, <2>4
<1>7. L!AmountRefused(o)' = L!AmountRefused(o)
  <2>1. L!Refused(o) \subseteq Requests
    BY DEF L!Refused, L!HoldsOf
  <2>2. [x \in L!Refused(o) |-> L!parseInt(requests'[x].quantity)]
           = [x \in L!Refused(o) |-> L!parseInt(requests[x].quantity)]
    BY <1>5, <2>1
  <2> QED BY <1>6, <2>2 DEF L!AmountRefused
<1>8. /\ r \notin L!About(o) /\ L!About(o) \subseteq L!Receipts
      /\ L!About(o)' = IF requests[r].operationId = o THEN L!About(o) \cup {r} ELSE L!About(o)
  BY <1>1, <1>3, <1>4 DEF L!About
<1>9. /\ L!HoldsAbout(o)' = IF requests[r].operationId = o /\ type = "hold"
                            THEN L!HoldsAbout(o) \cup {r} ELSE L!HoldsAbout(o)
      /\ L!HoldsAbout(o) \subseteq L!Receipts
  BY <1>1, <1>3, <1>4, <1>8 DEF L!HoldsAbout
<1>10. /\ L!Settling(o)' = IF requests[r].operationId = o /\ type # "hold"
                           THEN L!Settling(o) \cup {r} ELSE L!Settling(o)
       /\ L!Settling(o) \subseteq L!Receipts
  BY <1>1, <1>8, <1>9 DEF L!Settling, L!HoldsAbout
<1> DEFINE S1 == L!HoldsAbout(o)
           T1 == L!HoldsAbout(o)'
           S2 == L!Settling(o)
           T2 == L!Settling(o)'
           s1 == SumFunctionOnSet([x \in S1 |-> L!parseInt(transactions[x].quantity)], S1)
           t1 == SumFunctionOnSet([x \in T1 |-> L!parseInt(transactions'[x].quantity)], T1)
           s2 == SumFunctionOnSet([x \in S2 |-> L!parseInt(transactions[x].quantity)], S2)
           t2 == SumFunctionOnSet([x \in T2 |-> L!parseInt(transactions'[x].quantity)], T2)
<1>11. /\ L!Amount(L!HoldsAbout(o)) = s1 /\ L!Amount(L!Settling(o)) = s2
       /\ L!Amount(L!HoldsAbout(o))' = t1 /\ L!Amount(L!Settling(o))' = t2
  BY SameSum DEF L!Amount
<1>12. /\ r \notin S1 /\ r \notin S2
       /\ T1 = S1 \/ T1 = S1 \cup {r}
       /\ T2 = S2 \/ T2 = S2 \cup {r}
       /\ r \in T1 <=> (requests[r].operationId = o /\ type = "hold")
       /\ r \in T2 <=> (requests[r].operationId = o /\ type # "hold")
  BY <1>1, <1>9, <1>10
<1>13. S1 \subseteq L!Receipts /\ S2 \subseteq L!Receipts
  BY <1>9, <1>10
<1> HIDE DEF S1, T1, S2, T2
<1>14. t1 = s1 + (IF r \in T1 THEN n ELSE 0)
  BY <1>1, <1>4, <1>12, <1>13, AmountAfter
<1>15. t2 = s2 + (IF r \in T2 THEN n ELSE 0)
  BY <1>1, <1>4, <1>12, <1>13, AmountAfter
<1> HIDE DEF s1, t1, s2, t2
<1>16. /\ L!Amount(L!HoldsAbout(o))' = L!Amount(L!HoldsAbout(o))
               + (IF requests[r].operationId = o /\ type = "hold" THEN n ELSE 0)
       /\ L!Amount(L!Settling(o))' = L!Amount(L!Settling(o))
               + (IF requests[r].operationId = o /\ type # "hold" THEN n ELSE 0)
  BY <1>11, <1>12, <1>14, <1>15
<1> QED BY <1>3, <1>5, <1>6, <1>7, <1>8, <1>9, <1>16

\* A record that is saved was saved by a request about its operation.
LEMMA SavedHold ==
  ASSUME Sound, NEW r \in Requests, NEW o \in Operations, requests[r].operationId = o, L!SavesHold(r)
  PROVE  /\ holdOperations'[o] # L!NoHold => holdOperations'[o].quantity = requests[r].quantity
         /\ L!Kept(o)' = L!parseInt(requests[r].quantity)
         /\ \A p \in Operations \ {o} : holdOperations'[p] = holdOperations[p]
<1>1. /\ DOMAIN holdOperations = Operations
      /\ holdOperations' = [holdOperations EXCEPT ![o] =
                              [finId |-> requests[r].source, quantity |-> requests[r].quantity]]
  BY DEF L!SavesHold, Sound, L!TypeOK
<1>2. holdOperations'[o].quantity = requests[r].quantity
  BY <1>1
<1> QED BY <1>1, <1>2 DEF L!Kept

LEMMA RemovedHold ==
  ASSUME Sound, NEW r \in Requests, NEW o \in Operations, requests[r].operationId = o, L!RemovesHold(r)
  PROVE  /\ holdOperations'[o] = L!NoHold /\ L!Kept(o)' = 0
         /\ \A p \in Operations \ {o} : holdOperations'[p] = holdOperations[p]
<1>1. /\ DOMAIN holdOperations = Operations
      /\ holdOperations' = [holdOperations EXCEPT ![o] = L!NoHold]
  BY DEF L!RemovesHold, Sound, L!TypeOK
<1>2. L!parseInt(0) = 0
  BY DEF L!parseInt
<1> QED BY <1>1, <1>2 DEF L!Kept, L!NoHold

\* A hold takes what it keeps, and what settles a hold gives back what was kept, when it
\* names the quantity of the hold.
LEMMA MarkedAdded ==
  ASSUME Receipted, NEW r \in Requests, requests[r].pc = "due", requests[r].quantity \in Quantities,
         NEW type \in {"issue", "transfer", "redeem", "hold", "release"}, NEW source, NEW destination,
         L!Registers(r, type, source, destination), Marks(r, type)
  PROVE  Marked'
<1> SUFFICES ASSUME NEW o \in Operations PROVE Backed(o)' /\ ComesBack(o)'
  BY DEF Marked
<1> DEFINE n == L!parseInt(requests[r].quantity)
           mine == requests[r].operationId = o
<1>1. Sound /\ Fresh /\ Faithful /\ Backed(o) /\ ComesBack(o)
  BY DEF Receipted, Marked
<1>2. /\ \A x \in Requests : requests'[x].quantity = requests[x].quantity
      /\ L!HoldsOf(o)' = L!HoldsOf(o) /\ L!Refused(o)' = L!Refused(o)
      /\ L!AmountRefused(o)' = L!AmountRefused(o)
      /\ r \notin L!About(o) /\ \A x \in L!About(o) : transactions'[x] = transactions[x]
      /\ L!About(o)' = IF mine THEN L!About(o) \cup {r} ELSE L!About(o)
      /\ L!HoldsAbout(o)' = IF mine /\ type = "hold" THEN L!HoldsAbout(o) \cup {r} ELSE L!HoldsAbout(o)
      /\ L!Amount(L!HoldsAbout(o))' = L!Amount(L!HoldsAbout(o)) + (IF mine /\ type = "hold" THEN n ELSE 0)
      /\ L!Amount(L!Settling(o))' = L!Amount(L!Settling(o)) + (IF mine /\ type # "hold" THEN n ELSE 0)
  BY <1>1, AboutAdded
<1>3. L!None \notin Operations
  BY SampleAssumption DEF L!None
<1>4. /\ L!Amount(L!HoldsAbout(o)) \in Nat /\ L!Amount(L!Settling(o)) \in Nat
      /\ L!AmountRefused(o) \in Nat /\ L!Kept(o) \in Nat /\ n \in Nat
  BY <1>1, AmountsNat, KeptNat, Whole
<1>5. /\ L!About(o) \cup L!Refused(o) \subseteq Requests /\ L!HoldsAbout(o) \subseteq L!About(o)
  BY DEF L!About, L!Receipts, L!Refused, L!HoldsOf, L!HoldsAbout
<1>6. L!OneQuantity(o)' => L!OneQuantity(o)
  <2>1. L!About(o) \subseteq L!About(o)'
    BY <1>2
  <2> QED BY <1>2, <1>5, <2>1 DEF L!OneQuantity
<1> HIDE DEF n
<1>7. CASE ~mine
  <2>1. holdOperations'[o] = holdOperations[o]
    BY <1>1, <1>7, SavedHold, RemovedHold DEF Marks
  <2>2. L!About(o)' = L!About(o) /\ \A x \in L!About(o) \cup L!Refused(o) : requests'[x].quantity = requests[x].quantity
    BY <1>2, <1>5, <1>7
  <2> QED BY <1>1, <1>2, <2>1, <2>2, MarkedStays
<1>8. CASE mine /\ type = "hold"
  <2>1. /\ requests[r].kind = "hold" /\ requests[r] # L!NoRequest
        /\ holdOperations'[o] # L!NoHold => holdOperations'[o].quantity = requests[r].quantity
        /\ L!Kept(o)' = n
    BY <1>1, <1>3, <1>8, SavedHold, Due DEF Marks, n
  <2>2. Backed(o)'
    BY <1>2, <1>8, <2>1 DEF Backed
  <2>3. ASSUME \A x, y \in L!HoldsOf(o) : x = y
        PROVE  L!Amount(L!HoldsAbout(o)) = 0
    <3>1. r \in L!HoldsOf(o)
      BY <1>8, <2>1 DEF L!HoldsOf
    <3>2. L!HoldsAbout(o) \subseteq L!HoldsOf(o)
      BY <1>1, <1>5 DEF Faithful, L!HoldsAbout, L!About, L!HoldsOf
    <3>3. L!HoldsAbout(o) = {}
      BY <1>2, <1>5, <2>3, <3>1, <3>2
    <3> QED BY <3>3, SameSum, SumOfNone DEF L!Amount
  <2> HIDE DEF L!Amount, L!AmountRefused, L!Kept, L!OneQuantity, L!HoldsOf
  <2>4. ComesBack(o)'
    BY <1>1, <1>2, <1>4, <1>6, <1>8, <2>1, <2>3 DEF ComesBack
  <2> QED BY <2>2, <2>4
<1>9. CASE mine /\ type # "hold"
  <2>1. /\ holdOperations[o] # L!NoHold
        /\ holdOperations'[o] = L!NoHold /\ L!Kept(o)' = 0
    BY <1>1, <1>3, <1>9, RemovedHold DEF Marks, L!Held
  <2>2. Backed(o)'
    BY <2>1 DEF Backed
  <2>3. PICK x \in L!HoldsAbout(o) \cup L!Refused(o) : requests[x].quantity = holdOperations[o].quantity
    BY <1>1, <2>1 DEF Backed
  <2>4. ASSUME L!OneQuantity(o)' PROVE L!Kept(o) = n
    <3>1. /\ r \in L!About(o)' /\ x \in L!About(o)' \cup L!Refused(o)'
          /\ r \in Requests /\ x \in Requests
      BY <1>2, <1>5, <1>9, <2>3
    <3>2. requests'[x].quantity = requests'[r].quantity
      BY <2>4, <3>1 DEF L!OneQuantity
    <3>3. holdOperations[o].quantity = requests[r].quantity
      BY <1>2, <2>3, <3>1, <3>2
    <3> QED BY <3>3 DEF L!Kept, n
  <2> HIDE DEF L!Amount, L!AmountRefused, L!Kept, L!OneQuantity, L!HoldsOf
  <2>5. ComesBack(o)'
    BY <1>1, <1>2, <1>4, <1>6, <1>9, <2>1, <2>4 DEF ComesBack
  <2> QED BY <2>2, <2>5
<1> QED BY <1>7, <1>8, <1>9

\* A hold that is refused has left a record, and taken nothing.
LEMMA MarkedRefused ==
  ASSUME Receipted, NEW r \in Requests, requests[r].pc = "due", L!Goes(r, "failed"),
         UNCHANGED transactions,
         IF requests[r].kind = "hold" THEN L!SavesHold(r) ELSE UNCHANGED holdOperations
  PROVE  Marked'
<1> SUFFICES ASSUME NEW o \in Operations PROVE Backed(o)' /\ ComesBack(o)'
  BY DEF Marked
<1>1. Sound /\ Fresh /\ Faithful /\ Backed(o) /\ ComesBack(o) /\ requests[r].pc # "unsent"
  BY DEF Receipted, Marked
<1>2. /\ requests'[r].pc = "failed"
      /\ \A x \in Requests \ {r} : requests'[x] = requests[x]
      /\ \A x \in Requests : /\ requests'[x].kind = requests[x].kind
                             /\ requests'[x].operationId = requests[x].operationId
                             /\ requests'[x].quantity = requests[x].quantity
                             /\ requests'[x] # L!NoRequest <=> requests[x] # L!NoRequest
  BY <1>1, Moving
<1>3. r \notin L!Receipts /\ L!Receipts' = L!Receipts
  BY <1>1 DEF Fresh, L!Receipts
<1>4. L!About(o)' = L!About(o) /\ L!HoldsAbout(o)' = L!HoldsAbout(o) /\ L!Settling(o)' = L!Settling(o)
  BY <1>3 DEF L!About, L!HoldsAbout, L!Settling
<1>5. L!HoldsOf(o)' = L!HoldsOf(o)
  BY <1>2 DEF L!HoldsOf
<1>6. L!About(o) \cup L!Refused(o) \subseteq Requests /\ r \notin L!Refused(o)
  BY DEF L!About, L!Receipts, L!Refused, L!HoldsOf, L!At
<1>7. L!Refused(o)' = IF r \in L!HoldsOf(o) THEN L!Refused(o) \cup {r} ELSE L!Refused(o)
  BY <1>2, <1>3, <1>5 DEF L!Refused, L!At, L!HoldsOf
<1>8. r \in L!HoldsOf(o) <=> (requests[r].kind = "hold" /\ requests[r].operationId = o)
  BY <1>1, Due DEF L!HoldsOf
<1>9. CASE r \notin L!HoldsOf(o)
  <2>1. requests[r].kind = "hold" => requests[r].operationId \in Operations
    BY <1>1, Due DEF Sound, Shapes
  <2>2. holdOperations'[o] = holdOperations[o]
    BY <1>1, <1>8, <1>9, <2>1, SavedHold
  <2>3. \A x \in L!About(o) \cup L!Refused(o) : requests'[x].quantity = requests[x].quantity
    BY <1>2, <1>6
  <2> QED BY <1>1, <1>4, <1>5, <1>7, <1>9, <2>2, <2>3, MarkedStays
<1>10. CASE r \in L!HoldsOf(o)
  <2> DEFINE n == L!parseInt(requests[r].quantity)
  <2>1. requests[r].kind = "hold" /\ requests[r].operationId = o /\ requests[r].quantity \in Quantities
    BY <1>1, <1>8, <1>10, Due DEF Sound, Shapes
  <2>2. /\ holdOperations'[o] # L!NoHold => holdOperations'[o].quantity = requests[r].quantity
        /\ L!Kept(o)' = n
    BY <1>1, <2>1, SavedHold
  <2>3. Backed(o)'
    BY <1>2, <1>7, <1>10, <2>2 DEF Backed
  <2>4. L!AmountRefused(o)' = L!AmountRefused(o) + n
    <3> DEFINE S == L!Refused(o)
               T == L!Refused(o)'
               f == [x \in S |-> L!parseInt(requests[x].quantity)]
               g == [x \in T |-> L!parseInt(requests'[x].quantity)]
    <3>1. \A x \in S : L!parseInt(requests[x].quantity) \in Nat
      BY <1>1, Whole DEF L!Refused, L!HoldsOf, Sound, Shapes
    <3>2. IsFiniteSet(S) /\ r \notin S /\ T = S \cup {r} /\ S \subseteq Requests
      <4>1. S \subseteq Requests
        BY <1>6
      <4> QED BY <1>6, <1>7, <1>10, <4>1, SampleAssumption, FS_Subset
    <3>3. n \in Nat
      BY <2>1, Whole
    <3>4. L!AmountRefused(o) = SumFunctionOnSet(f, S) /\ L!AmountRefused(o)' = SumFunctionOnSet(g, T)
      BY SameSum DEF L!AmountRefused
    <3> HIDE DEF S, T
    <3>5. \A x \in S : f[x] \in Int /\ g[x] = f[x]
      BY <1>2, <3>1, <3>2
    <3>6. r \in T /\ g[r] = n /\ g[r] \in Int
      BY <1>2, <3>2, <3>3
    <3> HIDE DEF f, g, n
    <3>7. SumFunctionOnSet(g, T) = SumFunctionOnSet(f, S) + (IF r \in T THEN g[r] ELSE 0)
      BY <3>2, <3>5, <3>6, SumMayAdd
    <3> QED BY <3>4, <3>6, <3>7
  <2>5. L!Amount(L!HoldsAbout(o))' = L!Amount(L!HoldsAbout(o)) /\ L!Amount(L!Settling(o))' = L!Amount(L!Settling(o))
    BY <1>4 DEF L!Amount
  <2>6. L!OneQuantity(o)' => L!OneQuantity(o)
    BY <1>2, <1>4, <1>6, <1>7, <1>10 DEF L!OneQuantity
  <2>7. /\ L!Amount(L!HoldsAbout(o)) \in Nat /\ L!Amount(L!Settling(o)) \in Nat
        /\ L!AmountRefused(o) \in Nat /\ L!Kept(o) \in Nat /\ n \in Nat
    BY <1>1, <2>1, AmountsNat, KeptNat, Whole
  <2>8. ASSUME \A x, y \in L!HoldsOf(o) : x = y
        PROVE  L!Amount(L!HoldsAbout(o)) = 0
    <3>1. L!HoldsAbout(o) \subseteq L!HoldsOf(o) /\ L!HoldsAbout(o) \subseteq L!Receipts
      BY <1>1 DEF Faithful, L!HoldsAbout, L!About, L!HoldsOf, L!Receipts
    <3>2. L!HoldsAbout(o) = {}
      BY <1>3, <1>10, <2>8, <3>1
    <3> QED BY <3>2, SameSum, SumOfNone DEF L!Amount
  <2> HIDE DEF n, L!Amount, L!AmountRefused, L!Kept, L!OneQuantity, L!HoldsOf
  <2>9. ComesBack(o)'
    BY <1>1, <1>5, <2>2, <2>4, <2>5, <2>6, <2>7, <2>8 DEF ComesBack
  <2> QED BY <2>3, <2>9
<1> QED BY <1>9, <1>10

\* A method that leaves each account with what its receipt says, and the record of its
\* operation as its type does, keeps all receipts explained.
LEMMA MethodReceipted ==
  ASSUME Receipted, Sound', NEW r \in Requests, requests[r].pc = "due",
         requests[r].quantity \in Quantities,
         NEW type \in {"issue", "transfer", "redeem", "hold", "release"}, NEW source, NEW destination,
         L!Registers(r, type, source, destination), Marks(r, type),
         NEW n, n = L!parseInt(requests[r].quantity),
         NEW tx, tx = Receipt(r, type, source, destination),
         \A a \in Accounts :
            balances'[a] + (IF L!Takes(tx, a) THEN n ELSE 0) = balances[a] + (IF L!Brings(tx, a) THEN n ELSE 0)
  PROVE  Receipted'
<1>1. Fresh' /\ Faithful'
  BY FreshAdded, SampleAssumption DEF Receipted, Marks, L!None
<1>2. L!ReceiptsExplainBalances'
  <2>1. ASSUME NEW a \in Accounts
        PROVE  balances'[a] + L!Amount(L!TakingFrom(a))' = L!Amount(L!BringingTo(a))'
    <3> HIDE DEF L!Takes, L!Brings, L!Registers, L!parseInt, Receipt
    <3> QED BY BalanceAdded DEF Receipted
  <2> QED BY <2>1 DEF L!ReceiptsExplainBalances
<1>3. Marked'
  BY MarkedAdded
<1> QED BY <1>1, <1>2, <1>3 DEF Receipted

LEMMA MethodsReceipted ==
  ASSUME Receipted, NEW r \in Requests,
         \/ L!issue(r) \/ L!transfer(r) \/ L!redeem(r) \/ L!hold(r) \/ L!release(r) \/ L!rollback(r)
  PROVE  Receipted'
<1>1. requests[r].pc = "due" /\ Sound
  BY DEF L!issue, L!transfer, L!redeem, L!hold, L!release, L!rollback, L!Runs, L!At, Receipted
<1>2. Sound'
  BY <1>1, MethodSound
<1> DEFINE q == requests[r]
           n == L!parseInt(q.quantity)
<1>3. q \in L!Request /\ q # L!NoRequest
  BY <1>1, Due
<1>4. balances \in [Accounts -> Nat]
  BY <1>1 DEF Sound, L!TypeOK
<1>5. L!None \notin Accounts /\ L!None \notin Operations
  BY SampleAssumption DEF L!None
<1>7. q.quantity \in Quantities => n \in Nat
  BY Whole
<1> HIDE DEF n
<1>8. CASE L!issue(r)
  <2>1. q.kind = "issue" /\ q.destination \in Accounts /\ q.quantity \in Quantities /\ q.operationId = L!None
    BY <1>1, <1>3, <1>8 DEF L!issue, L!Runs, Sound, Shapes
  <2> DEFINE tx == Receipt(r, "issue", L!None, q.destination)
  <2>2. \A a \in Accounts : ~L!Takes(tx, a) /\ (L!Brings(tx, a) <=> q.destination = a)
    BY DEF Receipt, L!Takes, L!Brings
  <2>3. balances' = [balances EXCEPT ![q.destination] = @ + n]
    BY <1>8 DEF L!issue, L!Credit, n
  <2>4. \A a \in Accounts : balances'[a] + (IF L!Takes(tx, a) THEN n ELSE 0)
                               = balances[a] + (IF L!Brings(tx, a) THEN n ELSE 0)
    <3> HIDE DEF tx, L!Takes, L!Brings
    <3> QED BY <1>4, <1>7, <2>1, <2>2, <2>3
  <2>5. Marks(r, "issue")
    BY <1>8, <2>1 DEF L!issue, Marks
  <2>6. L!Registers(r, "issue", L!None, q.destination)
    BY <1>8 DEF L!issue
  <2> HIDE DEF tx
  <2> QED BY <1>1, <1>2, <2>1, <2>4, <2>5, <2>6, MethodReceipted DEF n, tx
<1>9. CASE L!transfer(r)
  <2>1. /\ q.kind = "transfer" /\ q.source \in Accounts /\ q.destination \in Accounts
        /\ q.quantity \in Quantities /\ q.operationId = L!None
    BY <1>1, <1>3, <1>9 DEF L!transfer, L!Runs, Sound, Shapes
  <2> DEFINE tx == Receipt(r, "transfer", q.source, q.destination)
  <2>2. \A a \in Accounts : (L!Takes(tx, a) <=> q.source = a) /\ (L!Brings(tx, a) <=> q.destination = a)
    BY DEF Receipt, L!Takes, L!Brings
  <2>3. balances' = [[balances EXCEPT ![q.source] = @ - n] EXCEPT ![q.destination] = @ + n]
    BY <1>9 DEF L!transfer, L!Credit, L!Debit, n
  <2>4. \A a \in Accounts : balances'[a] + (IF L!Takes(tx, a) THEN n ELSE 0)
                               = balances[a] + (IF L!Brings(tx, a) THEN n ELSE 0)
    <3> HIDE DEF tx, L!Takes, L!Brings
    <3> QED BY <1>4, <1>7, <2>1, <2>2, <2>3
  <2>5. Marks(r, "transfer")
    BY <1>9, <2>1 DEF L!transfer, Marks
  <2>6. L!Registers(r, "transfer", q.source, q.destination)
    BY <1>9 DEF L!transfer
  <2> HIDE DEF tx
  <2> QED BY <1>1, <1>2, <2>1, <2>4, <2>5, <2>6, MethodReceipted DEF n, tx
<1>10. CASE L!redeem(r)
  <2>1. q.kind = "redeem" /\ q.source \in Accounts /\ q.quantity \in Quantities
        /\ q.operationId \in Operations \cup {L!None} /\ (q.operationId # L!None => L!Held(r) # L!NoHold)
    BY <1>1, <1>3, <1>10 DEF L!redeem, L!Runs, L!Throws, Sound, Shapes, L!Request
  <2> DEFINE tx == Receipt(r, "redeem", q.source, L!None)
  <2>2. \A a \in Accounts : (L!Takes(tx, a) <=> q.source = a /\ q.operationId = L!None) /\ ~L!Brings(tx, a)
    BY DEF Receipt, L!Takes, L!Brings
  <2>3. balances' = IF q.operationId = L!None THEN [balances EXCEPT ![q.source] = @ - n] ELSE balances
    BY <1>10 DEF L!redeem, L!Debit, n
  <2>4. \A a \in Accounts : balances'[a] + (IF L!Takes(tx, a) THEN n ELSE 0)
                               = balances[a] + (IF L!Brings(tx, a) THEN n ELSE 0)
    <3> HIDE DEF tx, L!Takes, L!Brings
    <3> QED BY <1>4, <1>7, <2>1, <2>2, <2>3
  <2>5. Marks(r, "redeem")
    BY <1>10, <2>1 DEF L!redeem, Marks
  <2>6. L!Registers(r, "redeem", q.source, L!None)
    BY <1>10 DEF L!redeem
  <2> HIDE DEF tx
  <2> QED BY <1>1, <1>2, <2>1, <2>4, <2>5, <2>6, MethodReceipted DEF n, tx
<1>11. CASE L!hold(r)
  <2>1. q.kind = "hold" /\ q.source \in Accounts /\ q.quantity \in Quantities /\ q.operationId \in Operations
    BY <1>1, <1>3, <1>11 DEF L!hold, L!Runs, Sound, Shapes
  <2> DEFINE tx == Receipt(r, "hold", q.source, L!None)
  <2>2. \A a \in Accounts : (L!Takes(tx, a) <=> q.source = a) /\ ~L!Brings(tx, a)
    BY DEF Receipt, L!Takes, L!Brings
  <2>3. balances' = [balances EXCEPT ![q.source] = @ - n]
    BY <1>11 DEF L!hold, L!Debit, n
  <2>4. \A a \in Accounts : balances'[a] + (IF L!Takes(tx, a) THEN n ELSE 0)
                               = balances[a] + (IF L!Brings(tx, a) THEN n ELSE 0)
    <3> HIDE DEF tx, L!Takes, L!Brings
    <3> QED BY <1>4, <1>7, <2>1, <2>2, <2>3
  <2>5. Marks(r, "hold")
    BY <1>11, <2>1 DEF L!hold, Marks
  <2>6. L!Registers(r, "hold", q.source, L!None)
    BY <1>11 DEF L!hold
  <2> HIDE DEF tx
  <2> QED BY <1>1, <1>2, <2>1, <2>4, <2>5, <2>6, MethodReceipted DEF n, tx
<1>12. CASE L!release(r)
  <2>1. /\ q.kind = "release" /\ q.destination \in Accounts /\ q.quantity \in Quantities
        /\ q.operationId \in Operations /\ L!Held(r) # L!NoHold
    BY <1>1, <1>3, <1>12 DEF L!release, L!Runs, L!Throws, Sound, Shapes
  <2> DEFINE tx == Receipt(r, "release", L!Held(r).finId, q.destination)
  <2>2. \A a \in Accounts : ~L!Takes(tx, a) /\ (L!Brings(tx, a) <=> q.destination = a)
    BY <1>5, <2>1 DEF Receipt, L!Takes, L!Brings
  <2>3. balances' = [balances EXCEPT ![q.destination] = @ + n]
    BY <1>12 DEF L!release, L!Credit, n
  <2>4. \A a \in Accounts : balances'[a] + (IF L!Takes(tx, a) THEN n ELSE 0)
                               = balances[a] + (IF L!Brings(tx, a) THEN n ELSE 0)
    <3> HIDE DEF tx, L!Takes, L!Brings
    <3> QED BY <1>4, <1>7, <2>1, <2>2, <2>3
  <2>5. Marks(r, "release")
    BY <1>12, <2>1 DEF L!release, Marks
  <2>6. L!Registers(r, "release", L!Held(r).finId, q.destination)
    BY <1>12 DEF L!release
  <2> HIDE DEF tx
  <2> QED BY <1>1, <1>2, <2>1, <2>4, <2>5, <2>6, MethodReceipted DEF n, tx
<1>13. CASE L!rollback(r)
  <2>1. /\ q.kind = "rollback" /\ q.quantity \in Quantities
        /\ q.operationId \in Operations /\ L!Held(r) # L!NoHold
    BY <1>1, <1>3, <1>13 DEF L!rollback, L!Runs, L!Throws, Sound, Shapes
  <2> DEFINE to == L!Held(r).finId
             tx == Receipt(r, "release", to, L!None)
  <2>2. to \in Accounts
    BY <1>1, <2>1, Holder
  <2>3. \A a \in Accounts : ~L!Takes(tx, a) /\ (L!Brings(tx, a) <=> to = a)
    BY DEF Receipt, L!Takes, L!Brings
  <2>4. balances' = [balances EXCEPT ![to] = @ + n] /\ L!Registers(r, "release", to, L!None)
    BY <1>13 DEF L!rollback, L!Credit, n
  <2> HIDE DEF to
  <2>5. \A a \in Accounts : balances'[a] + (IF L!Takes(tx, a) THEN n ELSE 0)
                               = balances[a] + (IF L!Brings(tx, a) THEN n ELSE 0)
    <3> HIDE DEF tx, L!Takes, L!Brings
    <3> QED BY <1>4, <1>7, <2>1, <2>2, <2>3, <2>4
  <2>6. Marks(r, "release")
    BY <1>13, <2>1 DEF L!rollback, Marks
  <2> HIDE DEF tx
  <2> QED BY <1>1, <1>2, <2>1, <2>4, <2>5, <2>6, MethodReceipted DEF n, tx
<1> QED BY <1>8, <1>9, <1>10, <1>11, <1>12, <1>13

\* A step that registers nothing keeps receipts explained when it leaves the accounts
\* and the holds alone, refuses no hold, and changes no request that has a receipt or was
\* refused but for its stage.
LEMMA OtherReceipted ==
  ASSUME Receipted, Sound', UNCHANGED <<balances, transactions, holdOperations>>, Fresh',
         \A x \in L!Receipts : /\ requests'[x].kind = requests[x].kind
                               /\ requests'[x].operationId = requests[x].operationId
                               /\ requests'[x].quantity = requests[x].quantity
                               /\ requests'[x] # L!NoRequest <=> requests[x] # L!NoRequest,
         \A o \in Operations :
            /\ L!HoldsOf(o) \subseteq L!HoldsOf(o)' /\ L!Refused(o)' = L!Refused(o)
            /\ \A x \in L!Refused(o) : requests'[x].quantity = requests[x].quantity
  PROVE  Receipted'
<1>1. L!Receipts' = L!Receipts
  BY DEF L!Receipts
<1>2. L!ReceiptsExplainBalances'
  BY <1>1 DEF Receipted, L!ReceiptsExplainBalances, L!Amount, L!TakingFrom, L!BringingTo
<1>3. Faithful'
  BY <1>1 DEF Receipted, Faithful
<1>4. ASSUME NEW o \in Operations PROVE Backed(o)' /\ ComesBack(o)'
  <2>1. L!About(o)' = L!About(o) /\ L!About(o) \subseteq L!Receipts
    BY <1>1 DEF L!About
  <2>2. Backed(o) /\ ComesBack(o)
    BY DEF Receipted, Marked
  <2> QED BY <2>1, <2>2, MarkedStays
<1> QED BY <1>2, <1>3, <1>4 DEF Receipted, Marked

\* Nothing is left of an operation but its refusals, and no account or hold.
Emptied ==
    /\ Sound /\ L!Receipts = {}
    /\ holdOperations = [o \in Operations |-> L!NoHold] /\ balances = [a \in Accounts |-> 0]

LEMMA NothingHeld == Emptied => L!ReceiptsExplainBalances /\ Marked
<1> SUFFICES ASSUME Emptied PROVE L!ReceiptsExplainBalances /\ Marked
  OBVIOUS
<1> USE DEF Emptied
<1>1. L!Amount({}) = 0
  BY SameSum, SumOfNone DEF L!Amount
<1>2. L!ReceiptsExplainBalances
  <2> SUFFICES ASSUME NEW a \in Accounts
               PROVE  balances[a] + L!Amount(L!TakingFrom(a)) = L!Amount(L!BringingTo(a))
    BY DEF L!ReceiptsExplainBalances
  <2>1. L!TakingFrom(a) = {} /\ L!BringingTo(a) = {} /\ balances[a] = 0
    BY DEF L!TakingFrom, L!BringingTo
  <2> QED BY <1>1, <2>1
<1>3. ASSUME NEW o \in Operations PROVE Backed(o) /\ ComesBack(o)
  <2>1. L!Settling(o) = {} /\ L!HoldsAbout(o) = {}
    BY DEF L!Settling, L!HoldsAbout, L!About
  <2>2. L!AmountRefused(o) \in Nat /\ L!Kept(o) = 0
    BY AmountsNat, KeptNat
  <2> HIDE DEF L!Amount, L!AmountRefused, L!Kept, L!OneQuantity
  <2> QED BY <1>1, <2>1, <2>2 DEF Backed, ComesBack
<1> QED BY <1>2, <1>3 DEF Marked

LEMMA EmptiedLater == Emptied' => L!ReceiptsExplainBalances' /\ Marked'
BY NothingHeld, PTL

LEMMA CrashReceipted ==
  ASSUME Receipted, Sound', L!Crash
  PROVE  Receipted'
<1>1. L!Receipts' = {}
  BY DEF L!Crash, L!Receipts
<1>2. Fresh' /\ Faithful'
  <2>1. ASSUME NEW r \in Requests PROVE requests'[r].pc # "proof"
    <3>1. CASE L!At(r, "proof")
      <4>1. requests[r] \in L!Request
        BY <3>1, Due DEF L!At, Receipted
      <4> QED BY <3>1, <4>1 DEF L!Crash, L!Request
    <3>2. CASE ~L!At(r, "proof")
      BY <3>2 DEF L!Crash, L!At
    <3> QED BY <3>1, <3>2
  <2> QED BY <1>1, <2>1 DEF Fresh, Faithful
<1>3. holdOperations' = [o \in Operations |-> L!NoHold] /\ balances' = [a \in Accounts |-> 0]
  BY DEF L!Crash
<1>4. L!ReceiptsExplainBalances' /\ Marked'
  BY <1>1, <1>3, EmptiedLater DEF Emptied
<1> QED BY <1>2, <1>4 DEF Receipted

LEMMA StepReceipted == Receipted /\ [Next]_vars => Receipted'
<1> SUFFICES ASSUME Receipted, [Next]_vars PROVE Receipted'
  OBVIOUS
<1>1. Sound' /\ Sound
  BY StepSound DEF Receipted
<1>2. requests \in [Requests -> L!Request \cup {L!NoRequest}]
  BY DEF Receipted, Sound, L!TypeOK
<1>3. CASE UNCHANGED ledger
  <2>1. UNCHANGED <<balances, transactions, holdOperations, requests>>
    BY <1>3 DEF ledger
  <2>2. Fresh' /\ \A o \in Operations : L!HoldsOf(o)' = L!HoldsOf(o) /\ L!Refused(o)' = L!Refused(o)
    BY <2>1 DEF Receipted, Fresh, L!Refused, L!HoldsOf, L!At, L!Receipts
  <2> QED BY <1>1, <2>1, <2>2, OtherReceipted
<1>4. ASSUME NEW r \in Requests, L!Serve(r) PROVE Receipted'
  <2>1. PICK q \in Asked : requests' = [requests EXCEPT ![r] = q]
    BY <1>4 DEF L!Serve
  <2>2. /\ requests[r] = L!NoRequest /\ \A x \in Requests \ {r} : requests'[x] = requests[x]
        /\ requests'[r] = q
    BY <1>2, <1>4, <2>1 DEF L!Serve
  <2>3. requests[r].pc = "unsent" /\ q.pc = "due"
    BY <2>2, SampleAssumption DEF L!NoRequest, L!Askable, L!Ask
  <2>4. UNCHANGED <<balances, transactions, holdOperations>>
    BY <1>4 DEF L!Serve
  <2>5. r \notin L!Receipts /\ L!Receipts' = L!Receipts
    BY <2>3, <2>4 DEF Receipted, Fresh, L!Receipts
  <2>6. Fresh'
    BY <2>2, <2>3, <2>5 DEF Receipted, Fresh
  <2>7. ASSUME NEW o \in Operations
        PROVE  /\ L!HoldsOf(o) \subseteq L!HoldsOf(o)' /\ L!Refused(o)' = L!Refused(o)
               /\ \A x \in L!Refused(o) : requests'[x].quantity = requests[x].quantity
    <3>1. r \notin L!HoldsOf(o) /\ r \notin L!Refused(o) /\ r \notin L!Refused(o)'
      BY <2>2, <2>3 DEF L!HoldsOf, L!Refused, L!At
    <3>2. \A x \in Requests \ {r} : x \in L!HoldsOf(o) <=> x \in L!HoldsOf(o)'
      BY <2>2 DEF L!HoldsOf
    <3>3. \A x \in Requests \ {r} : x \in L!Refused(o) <=> x \in L!Refused(o)'
      BY <2>2, <2>5, <3>2 DEF L!Refused, L!At
    <3>4. L!HoldsOf(o) \subseteq Requests /\ L!Refused(o) \subseteq Requests /\ L!Refused(o)' \subseteq Requests
      BY DEF L!HoldsOf, L!Refused
    <3> QED BY <2>2, <3>1, <3>2, <3>3, <3>4
  <2>8. L!Receipts \subseteq Requests
    BY DEF L!Receipts
  <2> QED BY <1>1, <2>2, <2>4, <2>5, <2>6, <2>7, <2>8, OtherReceipted
<1>5. ASSUME NEW r \in Requests, L!createAsset(r) \/ L!ledgerProof(r) PROVE Receipted'
  <2>1. PICK pc \in {"succeeded", "failed"} : L!Goes(r, pc)
    BY <1>5 DEF L!createAsset, L!ledgerProof
  <2>2. requests[r].pc # "unsent" /\ UNCHANGED <<balances, transactions, holdOperations>>
    BY <1>5 DEF L!createAsset, L!ledgerProof, L!Runs, L!At
  <2>3. /\ requests'[r].pc = pc
        /\ \A x \in Requests \ {r} : requests'[x] = requests[x]
        /\ \A x \in Requests : /\ requests'[x].kind = requests[x].kind
                               /\ requests'[x].operationId = requests[x].operationId
                               /\ requests'[x].quantity = requests[x].quantity
                               /\ requests'[x] # L!NoRequest <=> requests[x] # L!NoRequest
    BY <1>1, <2>1, <2>2, Moving
  <2>4. L!Receipts' = L!Receipts /\ L!Receipts \subseteq Requests
    BY <2>2 DEF L!Receipts
  <2>5. Fresh'
    BY <2>3, <2>4 DEF Receipted, Fresh
  <2>6. requests[r].kind = "createAsset" \/ r \in L!Receipts
    BY <1>5 DEF L!createAsset, L!ledgerProof, L!Runs, L!At, Receipted, Fresh
  <2>7. requests[r].pc # "failed"
    BY <1>5 DEF L!createAsset, L!ledgerProof, L!Runs, L!At
  <2>8. ASSUME NEW o \in Operations
        PROVE  L!HoldsOf(o)' = L!HoldsOf(o) /\ L!Refused(o)' = L!Refused(o) /\ L!Refused(o) \subseteq Requests
    <3>1. L!HoldsOf(o)' = L!HoldsOf(o)
      BY <2>3 DEF L!HoldsOf
    <3>2. r \notin L!Refused(o) /\ r \notin L!Refused(o)'
      BY <2>3, <2>4, <2>6 DEF L!Refused, L!HoldsOf
    <3>3. \A x \in Requests \ {r} : x \in L!Refused(o) <=> x \in L!Refused(o)'
      BY <2>3, <2>4, <3>1 DEF L!Refused, L!At
    <3>4. L!Refused(o) \subseteq Requests /\ L!Refused(o)' \subseteq Requests
      BY DEF L!HoldsOf, L!Refused
    <3> QED BY <3>1, <3>2, <3>3, <3>4
  <2> QED BY <1>1, <2>2, <2>3, <2>4, <2>5, <2>8, OtherReceipted
<1>6. ASSUME NEW r \in Requests, L!BusinessError(r) PROVE Receipted'
  <2>1. requests[r].pc = "due" /\ L!Goes(r, "failed") /\ UNCHANGED <<balances, transactions>>
    BY <1>6 DEF L!BusinessError, L!At
  <2>2. /\ requests'[r].pc = "failed"
        /\ \A x \in Requests \ {r} : requests'[x] = requests[x]
        /\ \A x \in Requests : /\ requests'[x].kind = requests[x].kind
                               /\ requests'[x].operationId = requests[x].operationId
                               /\ requests'[x].quantity = requests[x].quantity
                               /\ requests'[x] # L!NoRequest <=> requests[x] # L!NoRequest
    BY <1>1, <2>1, Moving
  <2>3. L!Receipts' = L!Receipts /\ L!Receipts \subseteq Requests
    BY <2>1 DEF L!Receipts
  <2>4. Fresh'
    BY <2>1, <2>2, <2>3 DEF Receipted, Fresh
  <2>5. Faithful'
    BY <2>1, <2>2, <2>3 DEF Receipted, Faithful
  <2>6. L!ReceiptsExplainBalances'
    BY <2>1, <2>3 DEF Receipted, L!ReceiptsExplainBalances, L!Amount, L!TakingFrom, L!BringingTo
  <2>7. Marked'
    BY <1>6, <2>1, MarkedRefused DEF L!BusinessError
  <2> QED BY <1>1, <2>4, <2>5, <2>6, <2>7 DEF Receipted
<1>7. CASE L!Next
  <2>1. L!Crash \/ \E r \in Requests :
          \/ L!Serve(r) \/ L!createAsset(r) \/ L!issue(r) \/ L!transfer(r) \/ L!redeem(r)
          \/ L!hold(r) \/ L!release(r) \/ L!rollback(r) \/ L!BusinessError(r) \/ L!ledgerProof(r)
    BY <1>7 DEF L!Next
  <2> QED BY <1>1, <1>4, <1>5, <1>6, <2>1, MethodsReceipted, CrashReceipted
<1> QED BY <1>3, <1>7 DEF Next, LedgerMoves, MappingsMove, vars

LEMMA InitReceipted == Init => Receipted
<1> SUFFICES ASSUME Init PROVE Receipted
  OBVIOUS
<1>1. Sound
  BY InitSound
<1>2. L!Receipts = {} /\ holdOperations = [o \in Operations |-> L!NoHold] /\ balances = [a \in Accounts |-> 0]
  BY DEF Init, L!Init, L!Receipts
<1>3. Fresh /\ Faithful
  BY <1>2 DEF Init, L!Init, Fresh, Faithful, L!NoRequest
<1> QED BY <1>1, <1>2, <1>3, NothingHeld DEF Receipted, Emptied

LEMMA ReceiptedHolds == Spec => []Receipted
BY InitReceipted, StepReceipted, PTL DEF Spec

Bounded == restarts \in 0..MaxRestarts

LEMMA Restarts == Spec => []Bounded
<1>1. Init => Bounded
  BY SampleAssumption DEF Bounded, Init, M!Init
<1>2. Bounded /\ [Next]_vars => Bounded'
  BY SampleAssumption DEF Bounded, Next, LedgerMoves, MappingsMove, vars, mappings, M!Next, M!Serve,
     M!SaveField, M!deleteAccount, M!Fails, M!Replies, M!Arrives, M!Crash
<1> QED BY <1>1, <1>2, PTL DEF Spec

-----------------------------------------------------------------------------
(* Theorems *)

\* Types, and no account is overdrawn: funds leave an account of the ledger in memory only
\* when it covers them, and the record of a hold names an account.
THEOREM TypeCorrect == Spec => []TypeOK
<1>1. Inv /\ Bounded => M!TypeOK
  BY DEF Bounded, Inv, Typed, RowType, CallType, M!TypeOK, M!NoRow
<1>2. Spec => []Sound
  BY InitSound, StepSound, PTL DEF Spec
<1>3. Sound => L!TypeOK
  BY DEF Sound
<1> QED BY <1>1, <1>2, <1>3, InvHolds, Restarts, PTL DEF TypeOK

\* An account is a mixture of two saves that wrote the same fields only when they
\* overlapped or one was rejected: saveAccount upserts field by field, but what a later
\* call has written is never what an earlier one wrote.
THEOREM MixedCorrect == Spec => []MixedOnlyByOverlap
<1>1. ASSUME Inv, NEW finId \in FinIds, NEW a \in Fields, NEW c \in Calls, NEW d \in Calls,
             table[finId][a].by = c, calls[d].finId = finId, Sent(d),
             M!At(d, "replied"), a \in DOMAIN calls[d].fields
      PROVE  c \notin calls[d].after
  BY <1>1 DEF Inv, Ordered, Superseded, Written
<1>2. Inv => MixedOnlyByOverlap
  <2> SUFFICES ASSUME Inv, NEW finId \in FinIds, NEW a \in Fields, NEW b \in Fields,
                      table[finId][a].by # M!None, table[finId][b].by # M!None,
                      M!At(table[finId][a].by, "replied"), M!At(table[finId][b].by, "replied"),
                      a \in DOMAIN calls[table[finId][b].by].fields,
                      b \in DOMAIN calls[table[finId][a].by].fields
               PROVE  /\ table[finId][a].by \notin calls[table[finId][b].by].after
                      /\ table[finId][b].by \notin calls[table[finId][a].by].after
    BY DEF MixedOnlyByOverlap, M!MixedOnlyByOverlap
  <2> DEFINE c == table[finId][a].by
             d == table[finId][b].by
  <2>1. c \in Calls /\ d \in Calls
    BY DEF Inv, Typed, RowType, M!NoRow
  <2>2. Sent(c) /\ calls[c].finId = finId /\ Sent(d) /\ calls[d].finId = finId
    BY DEF Inv, Owned
  <2> QED BY <1>1, <2>1, <2>2
<1> QED BY <1>2, InvHolds, PTL

\* A save that was answered, and that no call about its finId overlapped or followed, is
\* what lookups find: what it wrote stays, and it has written all its fields.
THEOREM FoundCorrect == Spec => []SavedIsFound
<1>1. Inv => SavedIsFound
  <2> SUFFICES ASSUME Inv, NEW c \in Calls, M!At(c, "replied"), M!Alone(c),
                      NEW field \in DOMAIN calls[c].fields
               PROVE  LET value == calls[c].fields[field] IN
                      /\ field \in DOMAIN M!getAccount(calls[c].finId)
                      /\ M!getAccount(calls[c].finId)[field] = M!normalize(value)
                      /\ \A v \in M!Values : v.name = value.name /\ (caseSensitive => v = value)
                            => calls[c].finId \in M!getByFieldValue(field, v)
    BY DEF SavedIsFound, M!SavedIsFound
  <2> DEFINE value == calls[c].fields[field]
  <2>1. Typed /\ Sent(c)
    BY DEF Inv, M!At, Sent
  <2>2. calls[c].finId \in FinIds /\ field \in Fields /\ value \in M!Values
    <3>1. PICK fields \in SUBSET Fields : calls[c].fields \in [fields -> M!Values]
      BY <2>1, SentType DEF Saves
    <3> QED BY <2>1, <3>1, SentType DEF CallType
  <2>3. table[calls[c].finId][field] = Row(c, field)
    BY <2>1 DEF Inv, Ordered, Kept, Written
  <2>4. table[calls[c].finId][field] # M!NoRow
    BY <2>3, SampleAssumption DEF Row, M!NoRow, M!None
  <2>5. table[calls[c].finId][field].value = M!normalize(value)
    BY <2>3 DEF Row
  <2>6. \A v \in M!Values : v.name = value.name /\ (caseSensitive => v = value)
           => M!normalize(v) = M!normalize(value)
    BY <2>2 DEF M!normalize, M!toLowerCase, M!Values
  <2> HIDE DEF value
  <2> QED BY <2>2, <2>4, <2>5, <2>6 DEF M!getAccount, M!getByFieldValue, value
<1> QED BY <1>1, InvHolds, PTL

\* The receipts explain the accounts, whatever fails after a transaction is registered,
\* whatever runs again on an empty ledger, and though only the whole part of a quantity
\* is kept.
THEOREM ReceiptsCorrect == Spec => []ReceiptsExplainBalances
<1>1. Receipted => ReceiptsExplainBalances
  BY DEF Receipted, ReceiptsExplainBalances
<1> QED BY <1>1, ReceiptedHolds, PTL

\* The funds of a hold come back, in whatever order and however often it is settled,
\* whatever fails or is rerun: where what was held, was refused and has settled it name
\* one quantity, what was given back or redeemed, with what is still held, is no more than
\* was taken, but for the holds refused after their records were saved; and no less,
\* unless the operation was held again.  The record of a hold is that of one that took
\* its funds or was refused, so what removes it gives back what it keeps.
THEOREM HoldsCorrect == Spec => []HeldComesBack
<1>1. Receipted => HeldComesBack
  BY DEF Receipted, Marked, ComesBack, HeldComesBack, L!HeldComesBack
<1> QED BY <1>1, ReceiptedHolds, PTL
=============================================================================
