---------------------------- MODULE PlanApproval ----------------------------
(***************************************************************************)
(* PlanApprovalServiceImpl behind the service proxy, with the inbound      *)
(* transfer hook of the vanilla service: the router asks whether a plan,   *)
(* an instruction, a cancellation or a reset is approved, and tells of the *)
(* end of a proposal.  The service fetches the execution from the router,  *)
(* asks the plugin, and credits inbound transfers to the local ledger.     *)
(* The service approves every reset; the router then takes the plan back   *)
(* to an instruction and retries it from there, be it ended or not.        *)
(*                                                                         *)
(* A request is run again, with the same key, when the process dies before *)
(* its outcome is stored (Workflows); a status call is not.  An account is *)
(* named by the instruction that pays into it.                             *)
(*                                                                         *)
(* Definitions marked (Slip) are not part of the model: each is the        *)
(* definition that follows it with one mistake in it.                      *)
(***************************************************************************)
EXTENDS Naturals, Sequences

CONSTANTS
    Requests,    \* the requests of the router, each with its idempotency key
    Plans,       \* the plans it may be about
    Setups,      \* how the adapter and the router are set up
    MaxCrashes   \* bound: how often the process is killed

VARIABLES
    setup,     \* the setup
    plan,      \* the plan
    events,    \* at the router: the completion event of each instruction
    status,    \* at the router: the status of the execution
    received,  \* the instructions that have had a receipt, before a reset or since
    ended,     \* the ends the execution has come to
    requests,  \* the requests served
    opened,    \* the instructions whose destination account was opened
    verified,  \* the instructions the transfer delegate has verified
    journal,   \* the instruction credited under each key, 0 while there is none
    funds,     \* how often each instruction was credited
    told,      \* the ends of the plan the plugin was told of
    crashes

vars == <<setup, plan, events, status, received, ended, requests, opened, verified, journal, funds, told, crashes>>
router == <<setup, plan, events, status, received, ended>>
ledger == <<opened, verified, journal, funds>>

\* Which of client, hook and plugin there is, whether the delegate of the hook
\* verifies transfers, and whether the router proposes an instruction under one key.
SetupType == [client : BOOLEAN, hook : BOOLEAN, plugin : BOOLEAN, verifies : BOOLEAN,
              oneKey : BOOLEAN]

\* An instruction: its operation, whether it is for this organisation, whether its
\* destination asset is this organisation's, whether it names a destination.
Operations == {"issue", "transfer", "release", "hold", "redeem", "revertHold", "await"}
Instructions == [op : Operations, own : BOOLEAN, ours : BOOLEAN, dest : BOOLEAN]

\* A contract without an asset leg cannot be converted.
PlanType == [leg : BOOLEAN, instructions : Seq(Instructions)]

ASSUME PlanAssumption ==
    /\ Plans \subseteq PlanType
    /\ Setups \subseteq SetupType
    /\ MaxCrashes \in Nat

Ends == {"completed", "failed", "halted", "canceled"}
Statuses == {"proposed", "approved", "rejected"} \cup Ends
Events == {"none", "receipt", "error"}
Answers == {"approved", "rejected", "failed"}

\* A plugin may put its answer off: the method answers `pending` and is over, and the
\* row of the request stays in progress.
Outcomes == Answers \cup {"pending"}

Size == Len(plan.instructions)
Seqs == 1..Size
Instruction(i) == plan.instructions[i]

\* Transfers and releases whose destination asset is of this organisation are inbound.
Inbound(i) == Instruction(i).op \in {"transfer", "release"} /\ Instruction(i).ours

\* The instructions the plugin validates.
Validated(i) == Instruction(i).op \in {"issue", "transfer", "hold", "redeem"}

-----------------------------------------------------------------------------
(* Requests *)

Kinds == {"approve", "instruction", "cancel", "reset", "status"}
NoRequest == [pc |-> "unsent"]

\* A request with where its method is: at is the instruction being looked at, event
\* and end are what the execution said when it was fetched, asked what the event of
\* the instruction was when the router asked.
Request(kind, i, event) ==
    [kind |-> kind, at |-> i, asked |-> event, pc |-> "start", event |-> "none",
     end |-> "proposed", out |-> "approved"]

Event(i) == IF i \in Seqs THEN events[i] ELSE "none"

At(r) == requests[r].at

Goes(r, pc) == requests' = [requests EXCEPT ![r].pc = pc]
Returns(r, out) ==
    requests' = [requests EXCEPT ![r].pc = "end", ![r].out = out, ![r].event = "none",
                     ![r].end = "proposed"]

Init ==
    /\ setup \in Setups
    /\ plan \in Plans
    /\ events = [i \in Seqs |-> "none"]
    /\ status = "proposed"
    /\ received = {} /\ ended = {}
    /\ requests = [r \in Requests |-> NoRequest]
    /\ opened = {} /\ verified = {}
    /\ journal = [r \in Requests |-> 0]
    /\ funds = [i \in Seqs |-> 0]
    /\ told = {}
    /\ crashes = 0

-----------------------------------------------------------------------------
(* The router *)

\* An instruction completes, for better or worse.
Completes(i, e) ==
    /\ status = "approved"
    /\ events[i] = "none"
    /\ events' = [events EXCEPT ![i] = e]
    /\ received' = IF e = "receipt" THEN received \cup {i} ELSE received
    /\ UNCHANGED <<setup, plan, status, ended, requests, ledger, told, crashes>>

\* The execution moves on; out of an end only a reset leads.
Advances(s) ==
    /\ status \notin Ends \cup {"rejected"}
    /\ s \in IF status = "proposed" THEN {"approved", "rejected", "canceled"} ELSE Ends
    /\ s = "completed" => \A i \in Seqs : events[i] = "receipt"
    /\ status' = s
    /\ ended' = ended \cup ({s} \cap Ends)
    /\ UNCHANGED <<setup, plan, events, received, requests, ledger, told, crashes>>

\* A reset this adapter has approved, which is every one that is proposed.
Granted(r) == requests[r].pc = "approved" /\ requests[r].kind = "reset"

\* A plan that was approved, and may have ended since, is reset to the instruction of
\* such a proposal and retried from there: what was reported of it and of those behind
\* it no longer counts.
Resets(r) ==
    /\ Granted(r) /\ At(r) \in Seqs
    /\ status \in Ends \cup {"approved"}
    /\ status' = "approved"
    /\ events' = [i \in Seqs |-> IF i < At(r) THEN events[i] ELSE "none"]
    /\ UNCHANGED <<setup, plan, received, ended, requests, ledger, told, crashes>>

\* A request arrives and is saved.  A router with one key per proposal has not asked
\* about the instruction before.
Serve(r, kind, i) ==
    /\ requests[r] = NoRequest
    /\ (kind = "instruction" /\ setup.oneKey) =>
        \A q \in Requests : requests[q] # NoRequest =>
            ~(requests[q].kind = "instruction" /\ requests[q].at = i)
    /\ requests' = [requests EXCEPT ![r] =
            Request(kind, IF kind \in {"instruction", "reset"} THEN i ELSE 1,
                    IF kind = "instruction" THEN Event(i) ELSE "none")]
    /\ UNCHANGED <<router, ledger, told, crashes>>

-----------------------------------------------------------------------------
(* The methods *)

\* What needs no look at the execution: a cancellation or a reset, a setup without a
\* client, an instruction nobody has a hook for, a status nobody has a plugin for.
Unasked(r) ==
    \/ ~setup.client
    \/ requests[r].kind \in {"cancel", "reset"}
    \/ requests[r].kind = "instruction" /\ ~setup.hook
    \/ requests[r].kind = "status" /\ ~setup.plugin

AnswersAtOnce(r) ==
    /\ requests[r].pc = "start"
    /\ Unasked(r)
    /\ Returns(r, "approved")
    /\ UNCHANGED <<router, ledger, told, crashes>>

\* fetchExecution fails, or the contract does not convert: the method throws.
FetchThrows(r) ==
    /\ requests[r].pc = "start"
    /\ ~Unasked(r)
    /\ Returns(r, "failed")
    /\ UNCHANGED <<router, ledger, told, crashes>>

\* The router answers without an execution: it does not know the plan, or has an error
\* of its own, which is not told apart.
NotFound(r) ==
    /\ requests[r].pc = "start"
    /\ ~Unasked(r)
    /\ Returns(r, IF requests[r].kind = "status" THEN "approved" ELSE "rejected")
    /\ UNCHANGED <<router, ledger, told, crashes>>

\* The execution is fetched; what it says is used later.
Fetch(r) ==
    /\ requests[r].pc = "start"
    /\ ~Unasked(r)
    /\ plan.leg \/ (requests[r].kind = "status" /\ status \notin Ends)
    /\ requests' = [requests EXCEPT ![r].pc = requests[r].kind,
                    ![r].event = IF requests[r].kind = "instruction" THEN Event(At(r)) ELSE @,
                    ![r].end = IF requests[r].kind = "status" THEN status ELSE @]
    /\ UNCHANGED <<router, ledger, told, crashes>>

\* validatePlan looks at the instructions that are for this organisation, in order.
Looking(r) == requests[r].pc = "approve" /\ At(r) \in Seqs

\* (Slip: the counter is moved by the loop and by its body.)
DoneTwice(r) == requests' = [requests EXCEPT ![r].at = @ + 2, ![r].pc = "approve"]

Done(r) == requests' = [requests EXCEPT ![r].at = @ + 1, ![r].pc = "approve"]

Approves(r) ==
    /\ requests[r].pc = "approve" /\ At(r) \notin Seqs
    /\ Returns(r, "approved")
    /\ UNCHANGED <<router, ledger, told, crashes>>

\* (Slip: with a plugin, the hook is left out.)
PreparesWithoutPlugin(r) ==
    /\ Looking(r)
    /\ Instruction(At(r)).own /\ Inbound(At(r)) /\ setup.hook
    /\ opened' = IF setup.plugin THEN opened ELSE opened \cup {At(r)}
    /\ Goes(r, "ask")
    /\ UNCHANGED <<router, verified, journal, funds, told, crashes>>

\* onPlannedInboundTransfer opens the account of an inbound transfer.
Prepares(r) ==
    /\ Looking(r)
    /\ Instruction(At(r)).own /\ Inbound(At(r)) /\ setup.hook
    /\ opened' = opened \cup {At(r)}
    /\ Goes(r, "ask")
    /\ UNCHANGED <<router, verified, journal, funds, told, crashes>>

\* The hook throws, and the plan is rejected.
PrepareThrows(r) ==
    /\ Looking(r)
    /\ Instruction(At(r)).own /\ Inbound(At(r)) /\ setup.hook
    /\ Returns(r, "rejected")
    /\ UNCHANGED <<router, ledger, told, crashes>>

\* Nothing to prepare: another's instruction is passed over, a hold without a
\* destination rejects the plan.
LooksAt(r) ==
    /\ Looking(r)
    /\ ~(Instruction(At(r)).own /\ Inbound(At(r)) /\ setup.hook)
    /\ LET i == Instruction(At(r)) IN
        \/ ~i.own /\ Done(r)
        \/ i.own /\ i.op = "hold" /\ ~i.dest /\ Returns(r, "rejected")
        \/ i.own /\ (i.op = "hold" => i.dest) /\ Goes(r, "ask")
    /\ UNCHANGED <<router, ledger, told, crashes>>

Asks(r) == setup.plugin /\ Validated(At(r))

\* The plugin's answer for the instruction is the answer for the plan, `pending` too;
\* when it throws the plan is rejected.
PluginAnswers(r, out) ==
    /\ requests[r].pc = "ask" /\ Asks(r)
    /\ Returns(r, out)
    /\ UNCHANGED <<router, ledger, told, crashes>>

LooksOn(r) ==
    /\ requests[r].pc = "ask" /\ ~Asks(r)
    /\ Done(r)
    /\ UNCHANGED <<router, ledger, told, crashes>>

\* proposeInstructionApproval: there is no such instruction ...
Unlisted(r) ==
    /\ requests[r].pc = "instruction" /\ At(r) \notin Seqs
    /\ Returns(r, "rejected")
    /\ UNCHANGED <<router, ledger, told, crashes>>

\* (Slip: the result of the instruction is not looked at.)
Delivers(r) == Inbound(At(r)) /\ requests[r].event # "none"

\* (Slip: a release is not taken for an inbound transfer.)
CreditsTransfers(r) ==
    /\ Inbound(At(r)) /\ Instruction(At(r)).op = "transfer"
    /\ requests[r].event = "receipt"

\* The hook credits what was received; without a completion event it is not called,
\* and for an error it does nothing.
Credits(r) == Inbound(At(r)) /\ requests[r].event = "receipt"

\* ... nothing is to be credited ...
NothingInbound(r) ==
    /\ requests[r].pc = "instruction" /\ At(r) \in Seqs
    /\ ~Credits(r)
    /\ Returns(r, "approved")
    /\ UNCHANGED <<router, ledger, told, crashes>>

\* ... the delegate verifies the transfer, if there is one that does ...
Verifies(r) ==
    /\ requests[r].pc = "instruction" /\ At(r) \in Seqs
    /\ Credits(r)
    /\ verified' = IF setup.verifies THEN verified \cup {At(r)} ELSE verified
    /\ Goes(r, "credit")
    /\ UNCHANGED <<router, opened, journal, funds, told, crashes>>

\* ... or throws, which the hook lets pass ...
VerifyThrows(r) ==
    /\ requests[r].pc = "instruction" /\ At(r) \in Seqs
    /\ Credits(r) /\ setup.verifies
    /\ Returns(r, "failed")
    /\ UNCHANGED <<router, ledger, told, crashes>>

\* (Slip: the hook draws a fresh key for its transaction.)
CreditsAfresh(r, heard) ==
    /\ requests[r].pc = "credit"
    /\ opened' = opened \cup {At(r)}
    /\ journal' = [journal EXCEPT ![r] = At(r)]
    /\ funds' = [funds EXCEPT ![At(r)] = @ + 1]
    /\ Returns(r, IF heard THEN "approved" ELSE "failed")
    /\ UNCHANGED <<router, verified, told, crashes>>

\* ... the account is opened and credited, once under the key of the request, whether
\* or not the acknowledgement arrives ...
CreditsAccount(r, heard) ==
    /\ requests[r].pc = "credit"
    /\ opened' = opened \cup {At(r)}
    /\ journal' = [journal EXCEPT ![r] = At(r)]
    /\ funds' = [funds EXCEPT ![At(r)] = IF journal[r] = 0 THEN @ + 1 ELSE @]
    /\ Returns(r, IF heard THEN "approved" ELSE "failed")
    /\ UNCHANGED <<router, verified, told, crashes>>

\* ... or the database fails.
CreditThrows(r) ==
    /\ requests[r].pc = "credit"
    /\ Returns(r, "failed")
    /\ UNCHANGED <<router, ledger, told, crashes>>

\* (Slip: the plugin is told what the status call says, not what the execution says.)
TellsProposal(r) ==
    /\ requests[r].pc = "status"
    /\ \E s \in {"completed", "failed"} : told' = told \cup {s}
    /\ Returns(r, "approved")
    /\ UNCHANGED <<router, ledger, crashes>>

\* proposalStatus: the plugin is told of the end of the execution; what it throws is
\* only logged.
Tells(r) ==
    /\ requests[r].pc = "status"
    /\ told' = told \cup ({requests[r].end} \cap Ends)
    /\ Returns(r, "approved")
    /\ UNCHANGED <<router, ledger, crashes>>

\* The outcome is stored.  Nothing in this process continues one that is pending: the
\* plugin tells the router in its own time.
Finish(r) ==
    /\ requests[r].pc = "end"
    /\ Goes(r, requests[r].out)
    /\ UNCHANGED <<router, ledger, told, crashes>>

\* The process is killed and started: recovery runs what was pending again, from the
\* beginning, what the plugin has put off included, but for status calls.
Rerun(q) ==
    IF q.pc \in Answers \cup {"unsent", "lost"} THEN q
    ELSE IF q.kind = "status" THEN [q EXCEPT !.pc = "lost"]
    ELSE Request(q.kind, IF q.kind = "approve" THEN 1 ELSE q.at, q.asked)

Crash ==
    /\ crashes < MaxCrashes
    /\ crashes' = crashes + 1
    /\ requests' = [r \in Requests |-> Rerun(requests[r])]
    /\ UNCHANGED <<router, ledger, told>>

RequestStep(r) ==
    \/ AnswersAtOnce(r) \/ FetchThrows(r) \/ NotFound(r) \/ Fetch(r)
    \/ Approves(r) \/ Prepares(r) \/ PrepareThrows(r) \/ LooksAt(r) \/ LooksOn(r)
    \/ \E out \in {"approved", "rejected", "pending"} : PluginAnswers(r, out)
    \/ Unlisted(r) \/ NothingInbound(r) \/ Verifies(r) \/ VerifyThrows(r)
    \/ \E heard \in BOOLEAN : CreditsAccount(r, heard)
    \/ CreditThrows(r) \/ Tells(r) \/ Finish(r)

Next ==
    \/ \E i \in Seqs, e \in {"receipt", "error"} : Completes(i, e)
    \/ \E s \in Statuses : Advances(s)
    \/ \E r \in Requests : Resets(r)
    \/ \E r \in Requests, kind \in Kinds, i \in 1..(Size + 1) : Serve(r, kind, i)
    \/ \E r \in Requests : RequestStep(r)
    \/ Crash

Spec == Init /\ [][Next]_vars

-----------------------------------------------------------------------------
(* Properties *)

Live == {"start", "approve", "ask", "instruction", "credit", "status", "end",
         "pending"}

\* Types.
TypeOK ==
    /\ setup \in SetupType
    /\ plan \in PlanType
    /\ events \in [Seqs -> Events]
    /\ status \in Statuses
    /\ received \subseteq Seqs /\ ended \subseteq Ends
    /\ requests \in [Requests -> {NoRequest} \cup
           [kind : Kinds, at : 1..(Size + 1), asked : Events, event : Events, end : Statuses,
            pc : Live \cup Answers \cup {"lost"}, out : Outcomes]]
    /\ opened \subseteq Seqs /\ verified \subseteq Seqs
    /\ journal \in [Requests -> 0..Size]
    /\ funds \in [Seqs -> Nat]
    /\ told \subseteq Ends
    /\ crashes \in 0..MaxCrashes

\* Funds appear on a local account only for an inbound instruction that completed with
\* a receipt, be it before a reset, and that the delegate, if it verifies, has verified:
\* the execution was read before, and the request may have been run several times.
CreditsAreBacked ==
    \A i \in Seqs : funds[i] > 0 =>
        /\ Inbound(i)
        /\ i \in received
        /\ setup.verifies => i \in verified

\* A router that proposes an instruction under one key has it credited at most once,
\* however often the process dies and the request is run again, whatever becomes of
\* acknowledgements, and however often the plan is reset and retried.
CreditedOnce == setup.oneKey => \A i \in Seqs : funds[i] <= 1

\* No reset that was approved takes the instruction back.
Stands(i) == \A q \in Requests : Granted(q) => i < At(q)

\* When the approval of an inbound instruction was asked for after its receipt was
\* there, an approval means that the funds were credited, unless a reset that takes the
\* instruction back was approved: the receipt may be gone when the execution is fetched.
ApprovedIsCredited ==
    \A r \in Requests :
        /\ requests[r].pc = "approved"
        /\ requests[r].kind = "instruction" /\ setup.client /\ setup.hook
        /\ At(r) \in Seqs /\ Inbound(At(r))
        /\ requests[r].asked = "receipt"
        /\ Stands(At(r))
        => funds[At(r)] > 0

\* An approved plan is prepared: the account of every inbound instruction of this
\* organisation is open and every hold of its has a destination, but for those after
\* the first instruction the plugin has validated, which nobody has looked at.
Unseen(i) == setup.plugin /\ \E j \in Seqs : j < i /\ Instruction(j).own /\ Validated(j)

ApprovedIsPrepared ==
    \A r \in Requests :
        requests[r].pc = "approved" /\ requests[r].kind = "approve" /\ setup.client =>
            \A i \in Seqs : Instruction(i).own /\ ~Unseen(i) =>
                /\ Inbound(i) /\ setup.hook => i \in opened
                /\ Instruction(i).op = "hold" => Instruction(i).dest

\* The plugin is told only of ends the execution has come to, whatever the status calls
\* say, however many arrive and whenever; while no reset was approved that is one end,
\* and the one the execution is at.  After a reset it may be told of two, a completion
\* after a failure among them.
ToldItsEnds ==
    /\ told \subseteq ended
    /\ (\E r \in Requests : Granted(r)) \/ told \subseteq {status}
=============================================================================
