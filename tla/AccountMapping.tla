-------------------------- MODULE AccountMapping --------------------------
(***************************************************************************)
(* The mappings of finIds to the accounts of a ledger: a table of fields,  *)
(* one row per finId and field, written by POST /mapping/owners.  A save   *)
(* upserts field after field, each statement on its own; a delete is one   *)
(* statement.  Values are lowercased on save and lookup when the service   *)
(* is not case sensitive, and always in the vanilla service.               *)
(*                                                                         *)
(* Definitions marked (Slip) are not part of the model: each is the        *)
(* definition that follows it with one mistake in it.                      *)
(***************************************************************************)
EXTENDS Naturals

CONSTANTS
    FinIds,
    Fields,
    Names,      \* values, case aside
    Submitted,  \* what callers save: some fields with their values
    Calls,      \* requests to save or to delete
    MaxRestarts \* bound: crashes of the process

VARIABLES
    caseSensitive, \* the option of the service: it does not change
    table,         \* account_mappings: the value of each field, and who wrote it
    calls,         \* the calls and where they are
    restarts

vars == <<caseSensitive, table, calls, restarts>>

None == "none"

\* A value as it is submitted, in lower case or not.
Values == [name : Names, lower : BOOLEAN]

toLowerCase(value) == [value EXCEPT !.lower = TRUE]

\* Values are lowercased unless case matters.
normalize(value) == IF caseSensitive THEN value ELSE toLowerCase(value)

NoRow == [value |-> [name |-> None, lower |-> TRUE], by |-> None]

NoCall == [pc |-> "unsent"]

\* Calls whose statements are all in the database, or will never be.
Over == {"replied", "rejected"}

\* A call saves some fields of a finId, or deletes them all (fields is empty); todo are
\* the fields that are not written yet, after the calls that were over when it began.
Call(finId, fields, before) ==
    [pc |-> "active", finId |-> finId, fields |-> fields, todo |-> DOMAIN fields, after |-> before]

At(c, pc) == calls[c].pc = pc
Deletes(c) == DOMAIN calls[c].fields = {}

Init ==
    /\ caseSensitive \in BOOLEAN
    /\ table = [f \in FinIds |-> [field \in Fields |-> NoRow]]
    /\ calls = [c \in Calls |-> NoCall]
    /\ restarts = 0

\* POST /mapping/owners: active with at least one field, or inactive.
Serve(c) ==
    /\ calls[c] = NoCall
    /\ \E finId \in FinIds, fields \in Submitted \cup {[field \in {} |-> NoRow]} :
          calls' = [calls EXCEPT ![c] =
                      Call(finId, fields, {d \in Calls : calls[d] # NoCall /\ calls[d].pc \in Over})]
    /\ UNCHANGED <<caseSensitive, table, restarts>>

\* The upsert of one field of a call is committed.
Upsert(c, field) ==
    table' = [table EXCEPT ![calls[c].finId][field] =
                 [value |-> normalize(calls[c].fields[field]), by |-> c]]

\* The rows of a finId are deleted.
Delete(c) == table' = [table EXCEPT ![calls[c].finId] = [field \in Fields |-> NoRow]]

\* saveAccount writes the next field and hears of it, or loses the answer and throws.
SaveField(c) ==
    /\ At(c, "active")
    /\ \E field \in calls[c].todo, heard \in BOOLEAN :
          /\ Upsert(c, field)
          /\ calls' = [calls EXCEPT ![c].todo = @ \ {field},
                                    ![c].pc = IF heard THEN @ ELSE "rejected"]
    /\ UNCHANGED <<caseSensitive, restarts>>

\* deleteAccount: one statement, its answer heard or lost.
deleteAccount(c) ==
    /\ At(c, "active") /\ Deletes(c)
    /\ Delete(c)
    /\ \E pc \in Over : calls' = [calls EXCEPT ![c].pc = pc]
    /\ UNCHANGED <<caseSensitive, restarts>>

\* A statement fails, or the validator throws before the first: what is written stays.
\* A statement whose connection is lost may still be executed.
Fails(c) ==
    /\ At(c, "active")
    /\ \E pc \in {"rejected", "adrift"} : calls' = [calls EXCEPT ![c].pc = pc]
    /\ UNCHANGED <<caseSensitive, table, restarts>>

\* (Slip: the upserts are not awaited.)
RepliesAtOnce(c) ==
    /\ At(c, "active") /\ ~Deletes(c) /\ calls[c].todo # DOMAIN calls[c].fields
    /\ calls' = [calls EXCEPT ![c].pc = "replied"]
    /\ UNCHANGED <<caseSensitive, table, restarts>>

\* All fields are written: the save is answered, whether the hook after it fails or not.
Replies(c) ==
    /\ At(c, "active") /\ ~Deletes(c) /\ calls[c].todo = {}
    /\ calls' = [calls EXCEPT ![c].pc = "replied"]
    /\ UNCHANGED <<caseSensitive, table, restarts>>

\* The process ends; a statement that was on its way may still be executed.
Crash ==
    /\ restarts < MaxRestarts
    /\ restarts' = restarts + 1
    /\ calls' = [c \in Calls |-> IF At(c, "active") THEN [calls[c] EXCEPT !.pc = "adrift"]
                                                   ELSE calls[c]]
    /\ UNCHANGED <<caseSensitive, table>>

\* What was on its way is executed, its call being lost to its caller.
Arrives(c) ==
    /\ At(c, "adrift")
    /\ IF Deletes(c) THEN Delete(c) ELSE \E field \in calls[c].todo : Upsert(c, field)
    /\ calls' = [calls EXCEPT ![c].pc = "rejected"]
    /\ UNCHANGED <<caseSensitive, restarts>>

Next ==
    \/ \E c \in Calls : \/ Serve(c) \/ SaveField(c) \/ deleteAccount(c) \/ Fails(c)
                        \/ Replies(c) \/ Arrives(c)
    \/ Crash

Spec == Init /\ [][Next]_vars

-----------------------------------------------------------------------------
(* Lookups: one statement each, so what they find is a function of the table *)

\* getAccounts: the fields of a finId.
getAccount(finId) ==
    [field \in {f \in Fields : table[finId][f] # NoRow} |-> table[finId][field].value]

\* (Slip: the value is looked up as it is submitted.)
getByFieldValueAsIs(field, value) == {finId \in FinIds : table[finId][field].value = value}

\* The finIds that have a value in a field.
getByFieldValue(field, value) == {finId \in FinIds : table[finId][field].value = normalize(value)}

-----------------------------------------------------------------------------
(* Properties *)

TypeOK ==
    /\ caseSensitive \in BOOLEAN
    /\ \A f \in FinIds, field \in Fields :
          table[f][field] = NoRow \/ (table[f][field].by \in Calls /\ table[f][field].value \in Values)
    /\ \A c \in Calls : calls[c] = NoCall \/ calls[c].pc \in Over \cup {"active", "adrift"}
    /\ restarts \in 0..MaxRestarts

\* No other call about the same finId that is not over before this one begins.
Alone(c) ==
    \A d \in Calls \ ({c} \cup calls[c].after) : calls[d] # NoCall => calls[d].finId # calls[c].finId

\* A save that was answered, and that no other call about its finId overlapped or
\* followed, is what lookups find: by finId its fields with their values, by value, in
\* any case unless case matters, the finId.
SavedIsFound ==
    \A c \in Calls : At(c, "replied") /\ ~Deletes(c) /\ Alone(c) =>
        \A field \in DOMAIN calls[c].fields : LET value == calls[c].fields[field] IN
            /\ field \in DOMAIN getAccount(calls[c].finId)
            /\ getAccount(calls[c].finId)[field] = normalize(value)
            /\ \A v \in Values : v.name = value.name /\ (caseSensitive => v = value)
                                    => calls[c].finId \in getByFieldValue(field, v)

\* An account is a mixture of two saves that wrote the same fields only when they
\* overlapped or one of them was rejected: field by field, but not out of order.
MixedOnlyByOverlap ==
    \A finId \in FinIds, a, b \in Fields :
        LET c == table[finId][a].by  d == table[finId][b].by IN
        /\ None \notin {c, d} /\ c # d
        /\ At(c, "replied") /\ At(d, "replied")
        /\ {a, b} \subseteq DOMAIN calls[c].fields \cap DOMAIN calls[d].fields
        => c \notin calls[d].after /\ d \notin calls[c].after
=============================================================================
