---------------------------- MODULE ClientFlows ----------------------------
(***************************************************************************)
(* The FinP2P client's flows: creating owners, assets and intents,         *)
(* executing intents, and waiting for operations, plans and balances.  A   *)
(* flow checks its parameters, sends one request (createOwner sends two),  *)
(* and unwraps the answer: the body at once, or the correlation id of an   *)
(* operation that it polls until it completes or a timeout passes.         *)
(*                                                                         *)
(* The router executes what it is asked, at once or later, and may fail;   *)
(* requests and answers are lost.  Assets, amounts and identifiers are not *)
(* told apart; who is named where, and by whose binding of the token, is.  *)
(*                                                                         *)
(* Definitions marked (Slip) are not part of the model: each is the        *)
(* definition that follows it with one mistake in it.                      *)
(***************************************************************************)
EXTENDS Naturals

CONSTANTS
    Calls,     \* the calls of flows
    Known,     \* plans that were there before
    Terms,     \* what intents may be about
    MaxTimes   \* bound: how often a wait looks (maxTimes in the code)

VARIABLES
    calls,      \* the calls and where they are
    made,       \* at the router: what was made for each call
    ops,        \* at the router: the operation deferred for each call
    intents,    \* at the router: the intents made
    executions, \* at the router: the executions made
    plans,      \* at the router: the plans known and those made by executions
    synced      \* whether the balance that is waited for has been synced

vars == <<calls, made, ops, intents, executions, plans, synced>>
router == <<made, ops, intents, executions, plans, synced>>

-----------------------------------------------------------------------------
(* Intents and executions: who is named on which side *)

Kinds == {"primarySale", "selling", "privateOffer", "buying", "redemption", "loan", "transfer"}

\* What the parameters of an intent and of its execution say: bare to mint (issuance)
\* or to burn, paid to be settled, first when the borrower executes or the sender initiates, and
\* whose binding of the settlement token (of the asset, in a transfer) is given:
\* one for both, or one for the side that pays or is paid.
TermsType == [kind : Kinds, bare : BOOLEAN, paid : BOOLEAN, first : BOOLEAN,
              given : SUBSET {"both", "payer", "payee"}]

ASSUME ClientAssumption ==
    /\ Terms \subseteq TermsType
    /\ MaxTimes \in Nat
    /\ Calls \cap Known = {}

\* An account of a party, under a binding of the token.
Account(who, binding) == [who |-> who, binding |-> binding]

\* The asset is named without an account: it is minted or burned.
Bare == Account("nobody", "asset")

NoTerms == [kind |-> "none", bare |-> FALSE, paid |-> FALSE, first |-> FALSE, given |-> {}]

\* A leg names its parties by side; no leg is a function without sides.
NoLeg == [side \in {} |-> Bare]
From(who) == [source |-> who]
To(who) == [destination |-> who]
Between(from, to) == [source |-> from, destination |-> to]

\* A loan names the borrower and the lender.
Lent(binding) ==
    [borrower |-> Account("borrower", binding), lender |-> Account("lender", binding)]

createPrimarySale(t) ==
    [asset |-> From(Account("seller", "asset")), settlement |-> To(Account("seller", "both"))]

createSellingIntent(t) ==
    [asset |-> From(Account("seller", "asset")), settlement |-> To(Account("seller", "both"))]

createPrivateOfferIntent(t) ==
    [asset |-> From(IF t.bare THEN Bare ELSE Account("seller", "asset")),
     settlement |-> IF t.paid THEN To(Account("seller", "both")) ELSE NoLeg]

createBuyingIntent(t) ==
    [asset |-> To(Account("buyer", "asset")), settlement |-> From(Account("buyer", "both"))]

createRedemptionIntent(t) ==
    [asset |-> To(IF t.bare THEN Bare ELSE Account("issuer", "asset")),
     settlement |-> From(Account("issuer", "both"))]

createLoanIntent(t) == [asset |-> Lent("asset"), settlement |-> Lent("both")]

createRequestForTransferIntent(t) ==
    [asset |-> IF t.first THEN From(Account("sender", "asset")) ELSE To(Account("receiver", "asset")),
     settlement |-> NoLeg]

Created(t) ==
    CASE t.kind = "primarySale" -> createPrimarySale(t)
      [] t.kind = "selling" -> createSellingIntent(t)
      [] t.kind = "privateOffer" -> createPrivateOfferIntent(t)
      [] t.kind = "buying" -> createBuyingIntent(t)
      [] t.kind = "redemption" -> createRedemptionIntent(t)
      [] t.kind = "loan" -> createLoanIntent(t)
      [] t.kind = "transfer" -> createRequestForTransferIntent(t)

\* A binding of one's own takes precedence over that for both.
Binding(t, side, otherwise) == IF side \in t.given THEN side ELSE otherwise

\* (Slip: the payment goes back to the party that makes it.)
PaidBack(t, payer, payee) ==
    Between(Account(payer, Binding(t, "payer", "both")), Account(payer, Binding(t, "payee", "both")))

Paid(t, payer, payee) ==
    Between(Account(payer, Binding(t, "payer", "both")), Account(payee, Binding(t, "payee", "both")))

executePrimarySale(t) ==
    [user |-> "seller", asset |-> Between(Bare, Account("buyer", "asset")),
     settlement |-> Paid(t, "buyer", "seller")]

executeSellingIntent(t) ==
    [user |-> "seller", asset |-> Between(Account("seller", "asset"), Account("buyer", "asset")),
     settlement |-> Paid(t, "buyer", "seller")]

executePrivateOfferIntent(t) ==
    [user |-> "seller",
     asset |-> Between(IF t.bare THEN Bare ELSE Account("seller", "asset"), Account("buyer", "asset")),
     settlement |-> IF t.paid THEN Paid(t, "buyer", "seller") ELSE NoLeg]

executeBuyingIntent(t) ==
    [user |-> "buyer", asset |-> Between(Account("seller", "asset"), Account("buyer", "asset")),
     settlement |-> Paid(t, "buyer", "seller")]

executeRedemptionIntent(t) ==
    [user |-> "issuer",
     asset |-> Between(Account("seller", "asset"), IF t.bare THEN Bare ELSE Account("issuer", "asset")),
     settlement |-> Paid(t, "issuer", "seller")]

executeLoanIntent(t) ==
    [user |-> IF t.first THEN "borrower" ELSE "lender", asset |-> Lent("asset"), settlement |-> Lent("both")]

Transferred(t) == Between(Account("sender", Binding(t, "payer", "asset")),
                          Account("receiver", Binding(t, "payee", "asset")))

\* (Slip: the one who initiated a transfer executes it.)
InitiatorExecutes(t) ==
    [user |-> IF t.first THEN "sender" ELSE "receiver", asset |-> Transferred(t), settlement |-> NoLeg]

\* The one who did not initiate a transfer executes it.
executeRequestForTransferIntent(t) ==
    [user |-> IF t.first THEN "receiver" ELSE "sender", asset |-> Transferred(t), settlement |-> NoLeg]

Executed(t) ==
    CASE t.kind = "primarySale" -> executePrimarySale(t)
      [] t.kind = "selling" -> executeSellingIntent(t)
      [] t.kind = "privateOffer" -> executePrivateOfferIntent(t)
      [] t.kind = "buying" -> executeBuyingIntent(t)
      [] t.kind = "redemption" -> executeRedemptionIntent(t)
      [] t.kind = "loan" -> executeLoanIntent(t)
      [] t.kind = "transfer" -> executeRequestForTransferIntent(t)

\* Both sides of a settlement need a binding.
Sufficient(t) ==
    t.kind \in {"loan", "transfer"} \/ (t.kind = "privateOffer" /\ ~t.paid)
    \/ \A side \in {"payer", "payee"} : {side, "both"} \cap t.given # {}

Intent(c, t) == [by |-> c, terms |-> t, legs |-> Created(t)]

Execution(c, of, t) == [by |-> c, of |-> of, legs |-> Executed(t)]

-----------------------------------------------------------------------------
(* Calls *)

Flows == {"createOwner", "createAsset", "updateAsset", "createIntent", "executeIntent",
          "waitForPlan", "waitForBalance"}

\* What the request of a flow has the router make; createOwner's second request makes
\* an account.
Makes(flow) ==
    CASE flow = "createOwner" -> "owner"
      [] flow = "createAsset" -> "asset"
      [] flow = "updateAsset" -> "update"
      [] flow = "createIntent" -> "intent"
      [] flow = "executeIntent" -> "execution"

None == "none"
Things == {"owner", "account", "asset", "update", "intent", "execution"}

\* The router answers these with a correlation id when it takes longer.
Deferrable == {"account", "asset", "update"}

Answers == {None, "error", "empty", "id", "cid", "errors"}

Statuses == {"Pending", "Approved", "InProgress", "Completed", "Failed", "Halted",
             "Rejected", "Cancelled", "Unknown"}
terminalStatuses == {"Completed", "Failed", "Halted", "Rejected", "Cancelled"}

\* What a look at a plan shows: its status and how many instructions have completed.
View == [status : Statuses, done : 0..1]
Unread == [status |-> None, done |-> 0]

\* What the next look may show: a terminal plan does not change any more.
Later(view) ==
    IF view.status \in terminalStatuses THEN {view} ELSE {v \in View : v.done >= view.done}

Unsent == [pc |-> "unsent"]
Waits == {"waitForPlan", "waitForBalance"}
Settled == {"resolved", "rejected"}

\* A call of a flow about something: the intent to execute, the plan to wait for.  It
\* asks the router for a thing, or looks, times times so far; seen is the view of the
\* plan it read last and heard the one it reported last.
Call(flow, of, t) ==
    [pc |-> IF flow \in Waits THEN "look" ELSE "sent", flow |-> flow, of |-> of, terms |-> t,
     asks |-> IF flow \in Waits THEN None ELSE Makes(flow), answer |-> None, late |-> FALSE,
     times |-> 0, seen |-> Unread, heard |-> Unread]

Goes(c, pc) == calls' = [calls EXCEPT ![c].pc = pc]

At(c, pc) == calls[c].pc = pc

Init ==
    /\ calls = [c \in Calls |-> Unsent]
    /\ made = [c \in Calls |-> {}]
    /\ ops = [c \in Calls |-> None]
    /\ intents = {} /\ executions = {}
    /\ plans = [p \in Calls \cup Known |->
                  IF p \in Known THEN [status |-> "Pending", done |-> 0] ELSE Unread]
    /\ synced = FALSE

\* A caller executes, under the terms of the intent and with bindings of its choice, an
\* intent whose id a call has returned, and waits for plans it knows of.
Legal(flow, of, t) ==
    CASE flow = "createIntent" -> of = None /\ t # NoTerms
      [] flow = "executeIntent" ->
            /\ of \in Calls /\ At(of, "resolved") /\ calls[of].flow = "createIntent"
            /\ t # NoTerms
            /\ [t EXCEPT !.given = {}] = [calls[of].terms EXCEPT !.given = {}]
      [] flow = "waitForPlan" ->
            /\ t = NoTerms
            /\ of \in Known \/ (of \in Calls /\ At(of, "resolved") /\ calls[of].flow = "executeIntent")
      [] OTHER -> of = None /\ t = NoTerms

\* A flow starts.
Starts(c, flow, of, t) ==
    /\ flow = "executeIntent" => Sufficient(t)
    /\ calls' = [calls EXCEPT ![c] = Call(flow, of, t)]
    /\ UNCHANGED router

\* It throws for its parameters, and sends nothing: a triple given in part, an asset id
\* that does not have three parts, a side without a binding.
Refuses(c, flow, of, t) ==
    /\ flow \in {"createAsset", "createIntent", "executeIntent"}
    /\ calls' = [calls EXCEPT ![c] = [Call(flow, of, t) EXCEPT !.pc = "rejected"]]
    /\ UNCHANGED router

Called(c) ==
    /\ calls[c] = Unsent
    /\ \E flow \in Flows, of \in Calls \cup Known \cup {None}, t \in Terms \cup {NoTerms} :
          Legal(flow, of, t) /\ (Starts(c, flow, of, t) \/ Refuses(c, flow, of, t))

-----------------------------------------------------------------------------
(* The router *)

\* What a call asks for is made.
Make(c) ==
    LET call == calls[c] IN
    /\ made' = [made EXCEPT ![c] = @ \cup {call.asks}]
    /\ intents' = intents \cup {Intent(c, call.terms) : x \in {call.asks} \cap {"intent"}}
    /\ executions' = executions \cup
           {Execution(c, call.of, call.terms) : x \in {call.asks} \cap {"execution"}}
    /\ plans' = IF call.asks = "execution"
                THEN [plans EXCEPT ![c] = [status |-> "Pending", done |-> 0]] ELSE plans

\* The answer arrives, or the connection fails and the request is rejected.
Hears(c, answer, heard) ==
    calls' = [calls EXCEPT ![c].pc = IF heard THEN "answered" ELSE "rejected",
                           ![c].answer = IF heard THEN answer ELSE @]

\* The router does what it is asked at once ...
Serves(c, heard) ==
    /\ At(c, "sent")
    /\ Make(c)
    /\ Hears(c, "id", heard)
    /\ UNCHANGED <<ops, synced>>

\* ... or later ...
Defers(c, heard) ==
    /\ At(c, "sent") /\ calls[c].asks \in Deferrable
    /\ ops' = [ops EXCEPT ![c] = "running"]
    /\ Hears(c, "cid", heard)
    /\ UNCHANGED <<made, intents, executions, plans, synced>>

\* ... or not: it answers with an error or without a body, or never hears of it.
Declines(c, answer, heard) ==
    /\ At(c, "sent")
    /\ Hears(c, answer, heard)
    /\ UNCHANGED router

\* A deferred operation completes, with a response or with errors.
Completes(c) ==
    /\ ops[c] = "running"
    /\ ops' = [ops EXCEPT ![c] = "done"]
    /\ Make(c)
    /\ UNCHANGED <<calls, synced>>

CompletesWithErrors(c) ==
    /\ ops[c] = "running"
    /\ ops' = [ops EXCEPT ![c] = "failed"]
    /\ UNCHANGED <<calls, made, intents, executions, plans, synced>>

-----------------------------------------------------------------------------
(* unwrapOperation *)

\* (Slip: the answer with a correlation id is taken for the body.)
UnwrapsAtOnce(c) ==
    /\ At(c, "answered")
    /\ Goes(c, IF calls[c].answer \in {"error", "empty"} THEN "rejected" ELSE "body")
    /\ UNCHANGED router

\* An error or an empty answer throws, a body is unwrapped, a correlation id is polled.
Unwraps(c) ==
    /\ At(c, "answered")
    /\ Goes(c, CASE calls[c].answer \in {"error", "empty"} -> "rejected"
                 [] calls[c].answer = "id" -> "body"
                 [] calls[c].answer = "cid" -> "poll")
    /\ UNCHANGED router

\* waitForOperationCompletion reads a completed status: the nested response is the body,
\* also when it holds errors ...
ReadsCompleted(c) ==
    /\ At(c, "poll") /\ ops[c] \in {"done", "failed"}
    /\ calls' = [calls EXCEPT ![c].pc = "body",
                              ![c].answer = IF ops[c] = "done" THEN "id" ELSE "errors"]
    /\ UNCHANGED router

\* ... or anything else, an answer that is an error included, and the time is up: it
\* throws; before that it sleeps and reads again.
TimesOut(c) ==
    /\ At(c, "poll") /\ calls[c].late
    /\ Goes(c, "rejected")
    /\ UNCHANGED router

\* The connection fails: the read throws, and nothing catches it.
ReadThrows(c) ==
    /\ At(c, "poll")
    /\ Goes(c, "rejected")
    /\ UNCHANGED router

\* The clock passes the timeout.
Elapses(c) ==
    /\ At(c, "poll") /\ ~calls[c].late
    /\ calls' = [calls EXCEPT ![c].late = TRUE]
    /\ UNCHANGED router

\* What a flow does with the body.  The owner's account is asked for next; ...
AsksForAccount(c) ==
    /\ At(c, "body") /\ calls[c].asks = "owner"
    /\ calls' = [calls EXCEPT ![c].pc = "sent", ![c].asks = "account", ![c].answer = None]
    /\ UNCHANGED router

\* ... a body without the id that the flow returns throws; ...
ReturnsId(c) ==
    /\ At(c, "body") /\ calls[c].asks \in {"asset", "intent", "execution"}
    /\ Goes(c, IF calls[c].answer = "id" THEN "resolved" ELSE "rejected")
    /\ UNCHANGED router

\* ... createOwner and updateAsset do not look at it.
ReturnsAnyway(c) ==
    /\ At(c, "body") /\ calls[c].asks \in {"account", "update"}
    /\ Goes(c, "resolved")
    /\ UNCHANGED router

-----------------------------------------------------------------------------
(* waitForExecutionPlanCompletion and waitForSyncedBalance *)

\* (Slip: what was read is remembered before it is compared.)
ChangedFromItself(call, view) == view # view

\* Whether a view of the plan is reported: the status changed, or an instruction did
\* since the first view (a plan has its instructions from the start).
Changed(call, view) ==
    \/ view.status # call.seen.status
    \/ view.done # call.seen.done /\ call.seen # Unread

\* The plan, which has moved on, is read; a change is reported; a terminal plan is
\* returned.
LooksAtPlan(c) ==
    LET call == calls[c] IN
    /\ At(c, "look") /\ call.flow = "waitForPlan" /\ call.times < MaxTimes
    /\ \E view \in Later(plans[call.of]) :
       /\ plans' = [plans EXCEPT ![call.of] = view]
       /\ calls' = [calls EXCEPT ![c] = [call EXCEPT
               !.times = @ + 1,
               !.seen = view,
               !.heard = IF Changed(call, view) THEN view ELSE @,
               !.pc = IF view.status \in terminalStatuses THEN "resolved" ELSE @]]
    /\ UNCHANGED <<made, ops, intents, executions, synced>>

\* The balance is read, and returned if it is the one expected.
LooksAtBalance(c) ==
    /\ At(c, "look") /\ calls[c].flow = "waitForBalance" /\ calls[c].times < MaxTimes
    /\ synced' \in {synced, TRUE}
    /\ calls' = [calls EXCEPT ![c].times = @ + 1, ![c].pc = IF synced' THEN "resolved" ELSE @]
    /\ UNCHANGED <<made, ops, intents, executions, plans>>

\* (Slip: the reads that fail are counted without a bound.)
LookFailsOnceMore(c) ==
    /\ At(c, "look") /\ calls[c].times <= MaxTimes
    /\ calls' = [calls EXCEPT ![c].times = @ + 1]
    /\ UNCHANGED router

\* A read that fails counts as one that saw nothing new.
LookFails(c) ==
    /\ At(c, "look") /\ calls[c].times < MaxTimes
    /\ calls' = [calls EXCEPT ![c].times = @ + 1]
    /\ UNCHANGED router

\* (Slip: one look more than allowed is waited for.)
GivesUpLater(c) ==
    /\ At(c, "look") /\ calls[c].times > MaxTimes
    /\ Goes(c, "rejected")
    /\ UNCHANGED router

\* It has looked often enough: what it looks at then is only for the log.
GivesUp(c) ==
    /\ At(c, "look") /\ calls[c].times = MaxTimes
    /\ Goes(c, "rejected")
    /\ UNCHANGED router

-----------------------------------------------------------------------------

Answered(c) ==
    \E heard \in BOOLEAN :
        \/ Serves(c, heard) \/ Defers(c, heard)
        \/ \E answer \in {"error", "empty"} : Declines(c, answer, heard)

Unwrapping(c) ==
    \/ Unwraps(c) \/ ReadsCompleted(c) \/ TimesOut(c)
    \/ AsksForAccount(c) \/ ReturnsId(c) \/ ReturnsAnyway(c)

Looking(c) == LooksAtPlan(c) \/ LooksAtBalance(c) \/ LookFails(c) \/ GivesUp(c)

Next ==
    \E c \in Calls :
        \/ Called(c) \/ Answered(c) \/ Unwrapping(c) \/ Elapses(c) \/ Looking(c)
        \/ ReadThrows(c) \/ Completes(c) \/ CompletesWithErrors(c)

\* A request is answered or its connection fails, the clock moves and the event loop
\* runs; nothing makes a polled operation complete.
Fairness ==
    \A c \in Calls : WF_vars(Answered(c)) /\ WF_vars(Unwrapping(c)) /\ WF_vars(Elapses(c))
                    /\ WF_vars(Looking(c))

Spec == Init /\ [][Next]_vars /\ Fairness

-----------------------------------------------------------------------------
(* Properties *)

CallType == [
    pc : {"sent", "answered", "poll", "body", "look"} \cup Settled, flow : Flows,
    of : Calls \cup Known \cup {None}, terms : Terms \cup {NoTerms},
    asks : Things \cup {None}, answer : Answers, late : BOOLEAN, times : 0..MaxTimes,
    seen : View \cup {Unread}, heard : View \cup {Unread}]

\* Types, and a call asks for what its flow makes.
TypeOK ==
    /\ calls \in [Calls -> CallType \cup {Unsent}]
    /\ made \in [Calls -> SUBSET Things]
    /\ ops \in [Calls -> {None, "running", "done", "failed"}]
    /\ plans \in [Calls \cup Known -> View \cup {Unread}]
    /\ synced \in BOOLEAN

\* What a flow promises when it resolves.
Kept(c) ==
    CASE calls[c].flow = "createOwner" -> {"owner", "account"} \subseteq made[c]
      [] calls[c].flow = "waitForPlan" ->
            /\ calls[c].seen = plans[calls[c].of]
            /\ calls[c].seen.status \in terminalStatuses
      [] calls[c].flow = "waitForBalance" -> synced
      [] OTHER -> Makes(calls[c].flow) \in made[c]

\* flows.ts:49 says of unwrapOperation, which every flow that asks for something uses,
\* that the synchronous and deferred paths produce the same shape, the success body: a
\* flow that resolves has been done.
ResolvedIsDone == \A c \in Calls : At(c, "resolved") => Kept(c)

\* A flow that resolves has been done, whatever was lost, deferred or late, unless it is
\* createOwner or updateAsset and the operation it was deferred to has failed.
ResolvedUnlessFailed ==
    \A c \in Calls : At(c, "resolved") =>
        Kept(c) \/ (calls[c].flow \in {"createOwner", "updateAsset"} /\ ops[c] = "failed")

\* While a plan is waited for, the last change that was read is the last one reported:
\* the caller hears of the terminal status before the wait returns, and of what it was
\* when it gives up.
ChangesAreHeard == \A c \in Calls : calls[c] # Unsent => calls[c].heard = calls[c].seen

\* Delivery against payment: in every execution with a settlement the party that takes
\* the asset pays the party that gives it, whatever the kind of the intent and whosever
\* bindings are used; a minted or burned asset has no party on that side.
PaidByTaker ==
    \A e \in executions : LET asset == e.legs.asset  pay == e.legs.settlement IN
        {"source", "destination"} \subseteq DOMAIN asset \cap DOMAIN pay =>
            /\ asset.destination.who \in {"nobody", pay.source.who}
            /\ asset.source.who \in {"nobody", pay.destination.who}
            /\ pay.source.who # pay.destination.who

\* An execution keeps what the intent it names was made for: a party named on a side is
\* on that side, but for the issuer of a primary sale, where the asset is minted; and
\* nobody executes a transfer alone.
ExecutedAsIntended ==
    \A e \in executions, i \in intents : e.of = i.by =>
        /\ \A leg \in {"asset", "settlement"} : \A side \in DOMAIN i.legs[leg] :
              (leg = "asset" => i.terms.kind # "primarySale")
              => e.legs[leg][side].who = i.legs[leg][side].who
        /\ i.terms.kind = "transfer" =>
              \A side \in DOMAIN i.legs.asset : e.legs.user # i.legs.asset[side].who

\* Every call ends: no wait outlives its timeout or its number of looks, whatever the
\* router answers.
CallsEnd == \A c \in Calls : calls[c] # Unsent ~> calls[c] # Unsent /\ calls[c].pc \in Settled
=============================================================================
