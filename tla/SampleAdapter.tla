--------------------------- MODULE SampleAdapter ---------------------------
(***************************************************************************)
(* The sample adapter as createApp puts it together: the ledger in memory  *)
(* and the mappings in the database.  The process and its end are all they *)
(* share: nothing on the ledger reads a mapping.  So a behaviour shows one *)
(* of them, chosen at the start, while the other does nothing.             *)
(***************************************************************************)
EXTENDS Naturals, FiniteSets

CONSTANTS
    Accounts, Operations, Requests, Quantities, Asked, MaxCrashes,
    FinIds, Fields, Names, Submitted, Calls, MaxRestarts

VARIABLES
    mapping, \* whether the mappings are shown, or the ledger: it does not change
    asset, known, balances, holdOperations, transactions, requests, crashes,
    caseSensitive, table, calls, restarts

L == INSTANCE InMemoryLedger
M == INSTANCE AccountMapping

\* A save gives values to some of the fields.
\* "none" is what is not named.
ASSUME SampleAssumption ==
    /\ Quantities \subseteq Nat
    /\ Asked \subseteq L!Askable
    /\ Submitted \subseteq UNION {[fields -> [name : Names, lower : BOOLEAN]] : fields \in SUBSET Fields}
    /\ "none" \notin Accounts \cup Operations \cup Calls
    /\ IsFiniteSet(Requests)
    /\ MaxCrashes \in Nat /\ MaxRestarts \in Nat

ledger == <<asset, known, balances, holdOperations, transactions, requests, crashes>>
mappings == <<caseSensitive, table, calls, restarts>>
vars == <<mapping, ledger, mappings>>

Init == mapping \in BOOLEAN /\ L!Init /\ M!Init

LedgerMoves == ~mapping /\ L!Next /\ UNCHANGED <<mapping, mappings>>
MappingsMove == mapping /\ M!Next /\ UNCHANGED <<mapping, ledger>>

Next == LedgerMoves \/ MappingsMove

Spec == Init /\ [][Next]_vars

-----------------------------------------------------------------------------
(* Properties: those of the parts *)

\* Types of both parts; no account is overdrawn.
TypeOK == L!TypeOK /\ M!TypeOK

\* Balances are what the receipts say: see InMemoryLedger.
ReceiptsExplainBalances == L!ReceiptsExplainBalances

\* The funds of a hold come back: see InMemoryLedger.
HeldComesBack == L!HeldComesBack

\* Lookups find what was saved: see AccountMapping.
SavedIsFound == M!SavedIsFound

\* Only saves that overlap are mixed: see AccountMapping.
MixedOnlyByOverlap == M!MixedOnlyByOverlap
=============================================================================
