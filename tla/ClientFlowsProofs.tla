------------------------- MODULE ClientFlowsProofs -------------------------
(***************************************************************************)
(* Theorems about ClientFlows, for any calls, terms, plans and numbers of  *)
(* looks: what a flow that resolves has done, what a wait reports, and who *)
(* is named where in intents and executions.                               *)
(***************************************************************************)
EXTENDS ClientFlows, TLAPS

-----------------------------------------------------------------------------
(* Who pays whom *)

\* What PaidByTaker says of an execution.
Fair(legs) ==
    {"source", "destination"} \subseteq DOMAIN legs.asset \cap DOMAIN legs.settlement =>
        /\ legs.asset.destination.who \in {"nobody", legs.settlement.source.who}
        /\ legs.asset.source.who \in {"nobody", legs.settlement.destination.who}
        /\ legs.settlement.source.who # legs.settlement.destination.who

LEMMA Betweens ==
  ASSUME NEW from, NEW to
  PROVE  /\ DOMAIN Between(from, to) = {"source", "destination"}
         /\ Between(from, to).source = from /\ Between(from, to).destination = to
         /\ Between(from, to)["source"] = from /\ Between(from, to)["destination"] = to
BY DEF Between

LEMMA OneSided ==
  ASSUME NEW who
  PROVE  /\ DOMAIN From(who) = {"source"} /\ From(who)["source"] = who
         /\ DOMAIN To(who) = {"destination"} /\ To(who)["destination"] = who
         /\ DOMAIN NoLeg = {}
BY DEF From, To, NoLeg

LEMMA LentSides ==
  ASSUME NEW binding
  PROVE  /\ DOMAIN Lent(binding) = {"borrower", "lender"}
         /\ Lent(binding)["borrower"].who = "borrower" /\ Lent(binding)["lender"].who = "lender"
BY DEF Lent, Account

\* A payment, whosever bindings are used.
LEMMA Payments ==
  ASSUME NEW t, NEW payer, NEW payee
  PROVE  \E from, to : /\ Paid(t, payer, payee) = Between(from, to)
                       /\ from.who = payer /\ to.who = payee
<1>1. \A who, binding : Account(who, binding).who = who
  BY DEF Account
<1> QED BY <1>1 DEF Paid

LEMMA Whose == /\ \A who, binding : Account(who, binding).who = who
               /\ Bare.who = "nobody"
BY DEF Account, Bare

LEMMA ExecutionsAreFair ==
  ASSUME NEW t \in TermsType
  PROVE  Fair(Executed(t))
<1> SUFFICES ASSUME NEW legs, legs = Executed(t) PROVE Fair(legs)
  OBVIOUS
<1>1. t.kind \in Kinds
  BY DEF TermsType
<1>2. ASSUME NEW giver, NEW taker, NEW from, NEW to,
             legs.asset = Between(giver, taker), legs.settlement = Between(from, to),
             taker.who \in {"nobody", from.who}, giver.who \in {"nobody", to.who}, from.who # to.who
      PROVE  Fair(legs)
  BY <1>2, Betweens DEF Fair
<1>3. ASSUME legs.settlement = NoLeg PROVE Fair(legs)
  BY <1>3, OneSided DEF Fair
<1>4. CASE t.kind = "primarySale"
  <2>1. legs.asset = Between(Bare, Account("buyer", "asset"))
        /\ legs.settlement = Paid(t, "buyer", "seller")
    BY <1>4 DEF Executed, executePrimarySale
  <2> QED BY <1>2, <2>1, Payments, Whose
<1>5. CASE t.kind \in {"selling", "buying"}
  <2>1. legs.asset = Between(Account("seller", "asset"), Account("buyer", "asset"))
        /\ legs.settlement = Paid(t, "buyer", "seller")
    BY <1>5 DEF Executed, executeSellingIntent, executeBuyingIntent
  <2> QED BY <1>2, <2>1, Payments, Whose
<1>6. CASE t.kind = "privateOffer" /\ t.paid
  <2>1. legs.asset = Between(IF t.bare THEN Bare ELSE Account("seller", "asset"), Account("buyer", "asset"))
        /\ legs.settlement = Paid(t, "buyer", "seller")
    BY <1>6 DEF Executed, executePrivateOfferIntent
  <2> QED BY <1>2, <2>1, Payments, Whose
<1>7. CASE t.kind = "redemption"
  <2>1. legs.asset = Between(Account("seller", "asset"), IF t.bare THEN Bare ELSE Account("issuer", "asset"))
        /\ legs.settlement = Paid(t, "issuer", "seller")
    BY <1>7 DEF Executed, executeRedemptionIntent
  <2> QED BY <1>2, <2>1, Payments, Whose
<1>8. CASE (t.kind = "privateOffer" /\ ~t.paid) \/ t.kind = "transfer"
  <2>1. legs.settlement = NoLeg
    BY <1>8 DEF Executed, executePrivateOfferIntent, executeRequestForTransferIntent
  <2> QED BY <1>3, <2>1
<1>9. CASE t.kind = "loan"
  <2>1. legs.asset = Lent("asset")
    BY <1>9 DEF Executed, executeLoanIntent
  <2> QED BY <2>1, LentSides DEF Fair
<1> QED BY <1>1, <1>4, <1>5, <1>6, <1>7, <1>8, <1>9 DEF Kinds

\* What ExecutedAsIntended says of an execution under terms t of an intent made under u.
AsIntended(legs, wanted, u) ==
    /\ \A leg \in {"asset", "settlement"} : \A side \in DOMAIN wanted[leg] :
          (leg = "asset" => u.kind # "primarySale") => legs[leg][side].who = wanted[leg][side].who
    /\ u.kind = "transfer" =>
          \A side \in DOMAIN wanted.asset : legs.user # wanted.asset[side].who

\* Terms that differ in the bindings given only.
SameDeal(t, u) == [t EXCEPT !.given = {}] = [u EXCEPT !.given = {}]

LEMMA SameDeals ==
  ASSUME NEW t \in TermsType, NEW u \in TermsType, SameDeal(t, u)
  PROVE  t.kind = u.kind /\ t.bare = u.bare /\ t.paid = u.paid /\ t.first = u.first
<1>1. /\ [t EXCEPT !.given = {}].kind = t.kind /\ [u EXCEPT !.given = {}].kind = u.kind
      /\ [t EXCEPT !.given = {}].bare = t.bare /\ [u EXCEPT !.given = {}].bare = u.bare
      /\ [t EXCEPT !.given = {}].paid = t.paid /\ [u EXCEPT !.given = {}].paid = u.paid
      /\ [t EXCEPT !.given = {}].first = t.first /\ [u EXCEPT !.given = {}].first = u.first
  BY DEF TermsType
<1> QED BY <1>1 DEF SameDeal

LEMMA ExecutionsAreIntended ==
  ASSUME NEW t \in TermsType, NEW u \in TermsType, SameDeal(t, u)
  PROVE  AsIntended(Executed(t), Created(u), u)
<1> SUFFICES ASSUME NEW legs, NEW wanted, legs = Executed(t), wanted = Created(u)
             PROVE  AsIntended(legs, wanted, u)
  OBVIOUS
<1>1. u.kind \in Kinds /\ t.kind = u.kind /\ t.bare = u.bare /\ t.paid = u.paid /\ t.first = u.first
  BY SameDeals DEF TermsType
<1>2. ASSUME u.kind # "transfer",
             \A side \in DOMAIN wanted["asset"] :
                u.kind # "primarySale" => legs["asset"][side].who = wanted["asset"][side].who,
             \A side \in DOMAIN wanted["settlement"] :
                legs["settlement"][side].who = wanted["settlement"][side].who
      PROVE  AsIntended(legs, wanted, u)
  BY <1>2 DEF AsIntended
\* An intent names one side; the execution has the same party there.
<1> DEFINE Agree(leg) == \A side \in DOMAIN wanted[leg] : legs[leg][side].who = wanted[leg][side].who
<1>3. ASSUME NEW leg, NEW from, NEW to, NEW party, legs[leg] = Between(from, to),
             \/ wanted[leg] = From(party) /\ from.who = party.who
             \/ wanted[leg] = To(party) /\ to.who = party.who
      PROVE  Agree(leg)
  BY <1>3, Betweens, OneSided
<1>4. ASSUME u.kind # "transfer", u.kind # "primarySale" => Agree("asset"), Agree("settlement")
       PROVE  AsIntended(legs, wanted, u)
  BY <1>2, <1>4
<1> HIDE DEF Agree
<1>5. CASE u.kind = "primarySale"
  <2>1. /\ wanted["settlement"] = To(Account("seller", "both"))
        /\ legs["settlement"] = Paid(t, "buyer", "seller")
    BY <1>1, <1>5 DEF Created, Executed, createPrimarySale, executePrimarySale
  <2>2. PICK from, to : legs["settlement"] = Between(from, to) /\ to.who = "seller"
    BY <2>1, Payments
  <2>3. PICK party : wanted["settlement"] = To(party) /\ party.who = "seller"
    BY <2>1, Whose
  <2>4. Agree("settlement")
    BY <1>3, <2>2, <2>3
  <2> QED BY <1>4, <1>5, <2>4
<1>6. CASE u.kind \in {"selling", "buying"}
  <2>1. /\ legs["asset"] = Between(Account("seller", "asset"), Account("buyer", "asset"))
        /\ legs["settlement"] = Paid(t, "buyer", "seller")
    BY <1>1, <1>6 DEF Executed, executeSellingIntent, executeBuyingIntent
  <2>2. \/ /\ wanted["asset"] = From(Account("seller", "asset"))
           /\ wanted["settlement"] = To(Account("seller", "both"))
        \/ /\ wanted["asset"] = To(Account("buyer", "asset"))
           /\ wanted["settlement"] = From(Account("buyer", "both"))
    BY <1>6 DEF Created, createSellingIntent, createBuyingIntent
  <2>3. PICK from, to : /\ legs["settlement"] = Between(from, to)
                        /\ from.who = "buyer" /\ to.who = "seller"
    BY <2>1, Payments
  <2>4. Agree("settlement")
    <3>1. PICK party : \/ wanted["settlement"] = To(party) /\ party.who = "seller"
                       \/ wanted["settlement"] = From(party) /\ party.who = "buyer"
      BY <2>2, Whose
    <3> QED BY <1>3, <2>3, <3>1
  <2>5. Agree("asset")
    BY <1>3, <2>1, <2>2
  <2> QED BY <1>6, <1>4, <2>4, <2>5
<1>7. CASE u.kind = "privateOffer"
  <2> DEFINE giver == IF u.bare THEN Bare ELSE Account("seller", "asset")
  <2>1. /\ legs["asset"] = Between(giver, Account("buyer", "asset"))
        /\ legs["settlement"] = IF u.paid THEN Paid(t, "buyer", "seller") ELSE NoLeg
    BY <1>1, <1>7 DEF Executed, executePrivateOfferIntent
  <2>2. /\ wanted["asset"] = From(giver)
        /\ wanted["settlement"] = IF u.paid THEN To(Account("seller", "both")) ELSE NoLeg
    BY <1>7 DEF Created, createPrivateOfferIntent
  <2> HIDE DEF giver
  <2>3. Agree("asset")
    BY <1>3, <2>1, <2>2
  <2>4. CASE u.paid
    <3>1. PICK from, to : legs["settlement"] = Between(from, to) /\ to.who = "seller"
      BY <2>1, <2>4, Payments
    <3>2. PICK party : wanted["settlement"] = To(party) /\ party.who = "seller"
      BY <2>2, <2>4, Whose
    <3>3. Agree("settlement")
      BY <1>3, <3>1, <3>2
    <3> QED BY <1>7, <1>4, <2>3, <3>3
  <2>5. CASE ~u.paid
    <3>1. Agree("settlement")
      BY <2>2, <2>5, OneSided DEF Agree
    <3> QED BY <1>7, <1>4, <2>3, <3>1
  <2> QED BY <2>4, <2>5
<1>8. CASE u.kind = "redemption"
  <2> DEFINE taker == IF u.bare THEN Bare ELSE Account("issuer", "asset")
  <2>1. /\ legs["asset"] = Between(Account("seller", "asset"), taker)
        /\ legs["settlement"] = Paid(t, "issuer", "seller")
    BY <1>1, <1>8 DEF Executed, executeRedemptionIntent
  <2>2. /\ wanted["asset"] = To(taker)
        /\ wanted["settlement"] = From(Account("issuer", "both"))
    BY <1>8 DEF Created, createRedemptionIntent
  <2> HIDE DEF taker
  <2>3. Agree("asset")
    BY <1>3, <2>1, <2>2
  <2>4. PICK from, to : legs["settlement"] = Between(from, to) /\ from.who = "issuer"
    BY <2>1, Payments
  <2>5. Agree("settlement")
    BY <1>3, <2>2, <2>4, Whose
  <2> QED BY <1>8, <1>4, <2>3, <2>5
<1>9. CASE u.kind = "loan"
  <2>1. /\ legs["asset"] = Lent("asset") /\ legs["settlement"] = Lent("both")
        /\ wanted["asset"] = Lent("asset") /\ wanted["settlement"] = Lent("both")
    BY <1>1, <1>9 DEF Executed, executeLoanIntent, Created, createLoanIntent
  <2>2. Agree("asset") /\ Agree("settlement")
    BY <2>1 DEF Agree
  <2> QED BY <1>9, <1>4, <2>2
<1>10. CASE u.kind = "transfer"
  <2>1. /\ legs["asset"] = Transferred(t)
        /\ legs.user = IF u.first THEN "receiver" ELSE "sender"
        /\ wanted["asset"] = IF u.first THEN From(Account("sender", "asset"))
                                        ELSE To(Account("receiver", "asset"))
        /\ wanted["settlement"] = NoLeg
    BY <1>1, <1>10 DEF Executed, executeRequestForTransferIntent, Created, createRequestForTransferIntent
  <2>2. PICK from, to : /\ legs["asset"] = Between(from, to)
                        /\ from.who = "sender" /\ to.who = "receiver"
    BY <2>1, Whose DEF Transferred
  <2>3. Agree("asset")
    <3>1. PICK party : \/ wanted["asset"] = From(party) /\ party.who = "sender"
                       \/ wanted["asset"] = To(party) /\ party.who = "receiver"
      BY <2>1, Whose
    <3> QED BY <1>3, <2>2, <3>1
  <2>4. Agree("settlement")
    BY <2>1, OneSided DEF Agree
  <2>5. \A side \in DOMAIN wanted.asset : legs.user # wanted.asset[side].who
    <3>1. wanted.asset = wanted["asset"]
      OBVIOUS
    <3> QED BY <2>1, <3>1, OneSided, Whose
  <2> QED BY <2>3, <2>4, <2>5 DEF AsIntended, Agree
<1> QED BY <1>1, <1>5, <1>6, <1>7, <1>8, <1>9, <1>10 DEF Kinds


-----------------------------------------------------------------------------
(* The invariant *)

Waiting(call) == call.flow \in Waits

\* How far a call has come, and what the router has of it.
Placed(c) ==
    LET call == calls[c] IN
    /\ ~Waiting(call) => \/ call.asks = Makes(call.flow)
                         \/ call.flow = "createOwner" /\ call.asks = "account"
    /\ call.asks = "account" => "owner" \in made[c]
    /\ call.pc = "look" => Waiting(call)
    /\ Waiting(call) => call.pc \in {"look"} \cup Settled
    /\ call.pc = "sent" => ops[c] = None
    /\ call.pc = "answered" =>
        /\ call.answer \in {"id", "cid", "error", "empty"}
        /\ call.answer = "id" => call.asks \in made[c]
        /\ call.answer = "cid" => ops[c] # None
    /\ call.pc = "poll" => ops[c] # None
    /\ call.pc = "body" => \/ call.answer = "id" /\ call.asks \in made[c]
                           \/ call.answer = "errors" /\ ops[c] = "failed"
    /\ call.pc = "resolved" /\ ~Waiting(call) =>
        /\ call.asks # "owner"
        /\ call.asks \in made[c] \/ (call.asks \in {"account", "update"} /\ ops[c] = "failed")
    /\ ops[c] # None => ~Waiting(call) /\ call.asks \in Deferrable
    /\ ops[c] = "done" => call.asks \in made[c]
    /\ call.heard = call.seen

CallsPlaced == \A c \in Calls : IF calls[c] = Unsent THEN ops[c] = None ELSE Placed(c)

\* A wait that has ended saw what there is to see.
WaitsSaw ==
    \A c \in Calls : At(c, "resolved") =>
        /\ calls[c].flow = "waitForPlan" => /\ calls[c].seen = plans[calls[c].of]
                                            /\ calls[c].seen.status \in terminalStatuses
        /\ calls[c].flow = "waitForBalance" => synced

\* What calls name was returned to somebody.
Returned(p, flow) == p \in Calls /\ At(p, "resolved") /\ calls[p].flow = flow

Identified(c) ==
    /\ calls[c].flow = "createIntent" => calls[c].terms # NoTerms
    /\ calls[c].flow = "executeIntent" =>
        /\ Returned(calls[c].of, "createIntent")
        /\ calls[c].terms # NoTerms /\ SameDeal(calls[c].terms, calls[calls[c].of].terms)
    /\ calls[c].flow = "waitForPlan" =>
        calls[c].of \in Known \/ Returned(calls[c].of, "executeIntent")

Named == \A c \in Calls : calls[c] # Unsent => Identified(c)

\* What the router has of intents and executions is what the calls asked for.
Recorded ==
    /\ \A i \in intents : /\ i.by \in Calls /\ calls[i.by] # Unsent
                          /\ calls[i.by].flow = "createIntent"
                          /\ i = Intent(i.by, calls[i.by].terms)
    /\ \A e \in executions : /\ e.by \in Calls /\ calls[e.by] # Unsent
                             /\ calls[e.by].flow = "executeIntent"
                             /\ e = Execution(e.by, calls[e.by].of, calls[e.by].terms)

IInv == TypeOK /\ CallsPlaced /\ WaitsSaw /\ Named /\ Recorded


-----------------------------------------------------------------------------
(* What a step does to the calls *)

Stages == {"sent", "answered", "poll", "body", "look"} \cup Settled

LEMMA CallTypes ==
  ASSUME TypeOK, NEW c \in Calls
  PROVE  /\ calls[c] = Unsent \/ calls[c] \in CallType
         /\ calls[c] \in CallType => calls[c] # Unsent
         /\ calls[c].pc # "unsent" => calls[c] \in CallType
         /\ calls[c] = Unsent => calls[c].pc = "unsent"
<1>1. calls[c] = Unsent \/ calls[c] \in CallType
  BY DEF TypeOK
<1>2. calls[c] \in CallType => calls[c].pc # "unsent"
  BY DEF CallType, Settled
<1>3. Unsent.pc = "unsent"
  BY DEF Unsent
<1> QED BY <1>1, <1>2, <1>3

\* What a flow asks for.
LEMMA MakesTypes ==
  ASSUME NEW flow \in Flows, flow \notin Waits
  PROVE  /\ Makes(flow) \in {"owner", "asset", "update", "intent", "execution"}
         /\ Makes(flow) = "owner" <=> flow = "createOwner"
         /\ Makes(flow) = "update" <=> flow = "updateAsset"
         /\ Makes(flow) = "intent" <=> flow = "createIntent"
         /\ Makes(flow) = "execution" <=> flow = "executeIntent"
BY DEF Flows, Waits, Makes

\* What a call that waits for nothing asks for, and for whom.
LEMMA AsksTypes ==
  ASSUME TypeOK, NEW c \in Calls, calls[c] # Unsent, Placed(c), ~Waiting(calls[c])
  PROVE  /\ calls[c].asks \in Things
         /\ calls[c].asks = "intent" <=> calls[c].flow = "createIntent"
         /\ calls[c].asks = "execution" <=> calls[c].flow = "executeIntent"
         /\ calls[c].asks = "update" <=> calls[c].flow = "updateAsset"
         /\ calls[c].asks \in {"owner", "account"} <=> calls[c].flow = "createOwner"
         /\ calls[c].asks \notin {"owner", "account"} => calls[c].asks = Makes(calls[c].flow)
<1>1. calls[c].flow \in Flows /\ calls[c].flow \notin Waits
  BY CallTypes DEF CallType, Waiting
<1>2. calls[c].asks = Makes(calls[c].flow) \/ (calls[c].flow = "createOwner" /\ calls[c].asks = "account")
  BY DEF Placed
<1> QED BY <1>1, <1>2, MakesTypes DEF Things

\* A call moves on; what it is about stays.
Turns(c) ==
    /\ calls[c] \in CallType /\ calls[c].pc \notin Settled
    /\ calls' \in [Calls -> CallType \cup {Unsent}] /\ calls'[c] \in CallType
    /\ calls'[c].flow = calls[c].flow /\ calls'[c].of = calls[c].of
    /\ calls'[c].terms = calls[c].terms
    /\ \A d \in Calls \ {c} : calls'[d] = calls[d]

\* Whatever moves, what calls are about stays, and those that have resolved stay as they are.
Persist ==
    \A d \in Calls : calls[d] # Unsent =>
        /\ calls'[d] # Unsent
        /\ calls'[d].flow = calls[d].flow /\ calls'[d].of = calls[d].of
        /\ calls'[d].terms = calls[d].terms
        /\ At(d, "resolved") => calls'[d] = calls[d]

LEMMA Rewrites ==
  ASSUME TypeOK, NEW c \in Calls, calls[c] \in CallType, calls[c].pc \notin Settled,
         NEW k \in CallType, k.flow = calls[c].flow, k.of = calls[c].of, k.terms = calls[c].terms,
         calls' = [calls EXCEPT ![c] = k]
  PROVE  Turns(c) /\ calls'[c] = k
BY DEF TypeOK, Turns

LEMMA GoesTurns ==
  ASSUME TypeOK, NEW c \in Calls, calls[c].pc \notin Settled \cup {"unsent"},
         NEW p \in Stages, Goes(c, p)
  PROVE  /\ Turns(c) /\ calls'[c].pc = p
         /\ calls'[c].asks = calls[c].asks /\ calls'[c].answer = calls[c].answer
         /\ calls'[c].seen = calls[c].seen /\ calls'[c].heard = calls[c].heard
<1> DEFINE k == [calls[c] EXCEPT !.pc = p]
<1>1. calls[c] \in CallType /\ calls \in [Calls -> CallType \cup {Unsent}]
  BY CallTypes DEF TypeOK
<1>2. k \in CallType /\ k.flow = calls[c].flow /\ k.of = calls[c].of /\ k.terms = calls[c].terms
      /\ k.pc = p /\ k.asks = calls[c].asks /\ k.answer = calls[c].answer
      /\ k.seen = calls[c].seen /\ k.heard = calls[c].heard
  BY <1>1 DEF CallType, Stages
<1>3. calls' = [calls EXCEPT ![c] = k]
  BY <1>1 DEF Goes
<1> HIDE DEF k
<1>4. Turns(c) /\ calls'[c] = k
  BY <1>1, <1>2, <1>3, Rewrites
<1> QED BY <1>2, <1>4

LEMMA TurnsPersist ==
  ASSUME TypeOK, NEW c \in Calls, Turns(c)
  PROVE  Persist
<1>1. calls'[c] # Unsent
  <2>1. calls'[c].pc # "unsent"
    BY DEF Turns, CallType, Settled
  <2> QED BY <2>1 DEF Unsent
<1>2. ~At(c, "resolved")
  BY DEF Turns, At, Settled
<1> QED BY <1>1, <1>2 DEF Turns, Persist

LEMMA IdentifiedStays ==
  ASSUME Named, Persist, NEW c \in Calls, calls[c] # Unsent
  PROVE  Identified(c)'
<1>1. ASSUME NEW p, NEW flow, Returned(p, flow)
      PROVE  Returned(p, flow)' /\ calls'[p].terms = calls[p].terms
  <2>1. p \in Calls /\ At(p, "resolved") /\ calls[p].flow = flow
    BY <1>1 DEF Returned
  <2>2. calls[p] # Unsent
    BY <2>1 DEF At, Unsent
  <2>3. calls'[p] = calls[p]
    BY <2>1, <2>2 DEF Persist
  <2> QED BY <2>1, <2>3 DEF Returned, At
<1>2. Identified(c)
  BY DEF Named
<1>3. calls'[c].flow = calls[c].flow /\ calls'[c].of = calls[c].of /\ calls'[c].terms = calls[c].terms
  BY DEF Persist
<1>4. PICK p : p = calls[c].of
  OBVIOUS
<1>5. CASE calls[c].flow = "executeIntent"
  <2>1. /\ Returned(p, "createIntent")
        /\ calls[c].terms # NoTerms /\ SameDeal(calls[c].terms, calls[p].terms)
    BY <1>2, <1>4, <1>5 DEF Identified
  <2>2. Returned(p, "createIntent")' /\ calls'[p].terms = calls[p].terms
    BY <1>1, <2>1
  <2>3. p \in Calls /\ calls'[p].flow = "createIntent" /\ At(p, "resolved")'
    BY <2>2 DEF Returned
  <2>4. SameDeal(calls[c].terms, calls[calls[c].of].terms)'
    BY <1>3, <1>4, <2>1, <2>2 DEF SameDeal
  <2> QED BY <1>3, <1>4, <1>5, <2>1, <2>3, <2>4 DEF Identified, Returned, At
<1>6. CASE calls[c].flow = "waitForPlan"
  <2>1. p \in Known \/ Returned(p, "executeIntent")
    BY <1>2, <1>4, <1>6 DEF Identified
  <2>2. p \in Known \/ (p \in Calls /\ calls'[p].flow = "executeIntent" /\ At(p, "resolved")')
    BY <1>1, <2>1 DEF Returned
  <2> QED BY <1>3, <1>4, <1>6, <2>2 DEF Identified, Returned, At
<1>7. CASE calls[c].flow \notin {"executeIntent", "waitForPlan"}
  BY <1>2, <1>3, <1>7 DEF Identified
<1> QED BY <1>5, <1>6, <1>7

LEMMA NamedStays ==
  ASSUME Named, Persist, \A d \in Calls : calls[d] = Unsent => calls'[d] = Unsent
  PROVE  Named'
BY IdentifiedStays DEF Named

LEMMA RecordedStays ==
  ASSUME Recorded, Persist, UNCHANGED <<intents, executions>>
  PROVE  Recorded'
BY DEF Recorded, Persist, Intent, Execution

LEMMA WaitsStay ==
  ASSUME WaitsSaw, synced => synced',
         \A d \in Calls : At(d, "resolved")' =>
            \/ calls'[d] = calls[d]
            \/ calls'[d].flow \notin Waits,
         \A d \in Calls : At(d, "resolved") /\ calls[d].flow = "waitForPlan" =>
            plans'[calls[d].of] = plans[calls[d].of]
  PROVE  WaitsSaw'
BY DEF WaitsSaw, At, Waits

\* Of the calls but one.
LEMMA OthersPlaced ==
  ASSUME CallsPlaced, NEW c \in Calls, NEW d \in Calls \ {c}, calls'[d] = calls[d],
         made'[d] = made[d], ops'[d] = ops[d]
  PROVE  (IF calls[d] = Unsent THEN ops[d] = None ELSE Placed(d))'
<1>1. IF calls[d] = Unsent THEN ops[d] = None ELSE Placed(d)
  BY DEF CallsPlaced
<1>2. Placed(d) => Placed(d)'
  BY DEF Placed, Waiting
<1> QED BY <1>1, <1>2 DEF Unsent

\* A call moves on by itself.
LEMMA QuietTurn ==
  ASSUME IInv, NEW c \in Calls, Turns(c), UNCHANGED router, Placed(c)',
         calls'[c].pc = "resolved" => ~Waiting(calls[c])
  PROVE  IInv'
<1> USE DEF IInv
<1>1. Persist
  BY TurnsPersist
<1>2. UNCHANGED <<made, ops, intents, executions, plans, synced>>
  BY DEF router
<1>3. \A d \in Calls \ {c} : calls'[d] = calls[d]
  BY DEF Turns
<1>4. calls[c] # Unsent /\ calls'[c] # Unsent
  BY <1>1, CallTypes DEF Turns, Persist
<1>5. TypeOK'
  BY <1>2 DEF TypeOK, Turns
<1>6. CallsPlaced'
  BY <1>2, <1>3, <1>4, OthersPlaced DEF CallsPlaced
<1>7. WaitsSaw'
  <2>1. \A d \in Calls : At(d, "resolved")' => calls'[d] = calls[d] \/ calls'[d].flow \notin Waits
    BY <1>3 DEF At, Turns, Waiting
  <2> QED BY <1>2, <2>1, WaitsStay
<1>8. Named'
  BY <1>1, <1>3, <1>4, NamedStays
<1>9. Recorded'
  BY <1>1, <1>2, RecordedStays
<1> QED BY <1>5, <1>6, <1>7, <1>8, <1>9


LEMMA PlacedCall ==
  ASSUME IInv, NEW c \in Calls, calls[c].pc # "unsent"
  PROVE  calls[c] \in CallType /\ calls[c] # Unsent /\ Placed(c)
         /\ calls \in [Calls -> CallType \cup {Unsent}]
BY CallTypes DEF IInv, CallsPlaced, TypeOK

\* The steps that end a call without a result.
LEMMA RejectIInv ==
  ASSUME IInv, NEW c \in Calls, calls[c].pc \in {"answered", "poll", "body", "look"},
         Goes(c, "rejected"), UNCHANGED router
  PROVE  IInv'
<1> USE DEF IInv
<1>1. calls[c].pc \notin Settled \cup {"unsent"} /\ calls[c].pc # "unsent" /\ "rejected" \in Stages
  BY DEF Settled, Stages
<1>2. /\ Turns(c) /\ calls'[c].pc = "rejected"
      /\ calls'[c].asks = calls[c].asks /\ calls'[c].answer = calls[c].answer
      /\ calls'[c].seen = calls[c].seen /\ calls'[c].heard = calls[c].heard
  BY <1>1, GoesTurns
<1>3. Placed(c)'
  <2>1. Placed(c) /\ calls'[c].flow = calls[c].flow /\ UNCHANGED <<made, ops>>
    BY <1>1, <1>2, PlacedCall DEF Turns, router
  <2> QED BY <1>2, <2>1 DEF Placed, Waiting, Settled
<1> QED BY <1>2, <1>3, QuietTurn

\* An answer is unwrapped: a body, or an operation to poll.
LEMMA UnwrapsIInv ==
  ASSUME IInv, NEW c \in Calls, Unwraps(c)
  PROVE  IInv'
<1> USE DEF IInv
<1>1. calls[c].pc = "answered" /\ calls[c].pc # "unsent" /\ calls[c].pc \notin Settled \cup {"unsent"}
      /\ UNCHANGED router
  BY DEF Unwraps, At, Settled
<1>2. Placed(c)
  BY <1>1, PlacedCall
<1>3. calls[c].answer \in {"id", "cid", "error", "empty"}
  BY <1>1, <1>2 DEF Placed
<1>4. CASE calls[c].answer \in {"error", "empty"}
  <2>1. Goes(c, "rejected")
    BY <1>4 DEF Unwraps
  <2> QED BY <1>1, <2>1, RejectIInv
<1>5. ASSUME NEW p \in {"body", "poll"}, Goes(c, p),
             p = "body" => calls[c].answer = "id", p = "poll" => calls[c].answer = "cid"
      PROVE  IInv'
  <2>1. p \in Stages
    BY DEF Stages
  <2>2. /\ Turns(c) /\ calls'[c].pc = p
        /\ calls'[c].asks = calls[c].asks /\ calls'[c].answer = calls[c].answer
        /\ calls'[c].seen = calls[c].seen /\ calls'[c].heard = calls[c].heard
    BY <1>1, <1>5, <2>1, GoesTurns
  <2>3. Placed(c)'
    <3>1. calls'[c].flow = calls[c].flow /\ UNCHANGED <<made, ops>>
      BY <1>1, <2>2 DEF Turns, router
    <3> QED BY <1>1, <1>2, <1>5, <2>2, <3>1 DEF Placed, Waiting, Settled
  <2>4. calls'[c].pc # "resolved"
    BY <2>2
  <2> QED BY <1>1, <2>2, <2>3, <2>4, QuietTurn
<1>6. CASE calls[c].answer = "id"
  BY <1>5, <1>6 DEF Unwraps
<1>7. CASE calls[c].answer = "cid"
  BY <1>5, <1>7 DEF Unwraps
<1> QED BY <1>3, <1>4, <1>6, <1>7

\* The operation has completed, with a response or with errors.
LEMMA ReadsIInv ==
  ASSUME IInv, NEW c \in Calls, ReadsCompleted(c)
  PROVE  IInv'
<1> USE DEF IInv
<1>1. /\ calls[c].pc = "poll" /\ calls[c].pc # "unsent" /\ calls[c].pc \notin Settled
      /\ UNCHANGED router /\ ops[c] \in {"done", "failed"}
  BY DEF ReadsCompleted, At, Settled
<1>2. Placed(c) /\ calls[c] \in CallType /\ calls \in [Calls -> CallType \cup {Unsent}]
  BY <1>1, PlacedCall
<1> DEFINE answer == IF ops[c] = "done" THEN "id" ELSE "errors"
           k == [calls[c] EXCEPT !.pc = "body", !.answer = answer]
<1>3. calls' = [calls EXCEPT ![c] = k]
  BY <1>2 DEF ReadsCompleted
<1>4. /\ k \in CallType /\ k.flow = calls[c].flow /\ k.of = calls[c].of /\ k.terms = calls[c].terms
      /\ k.pc = "body" /\ k.asks = calls[c].asks /\ k.answer = answer
      /\ k.seen = calls[c].seen /\ k.heard = calls[c].heard
  <2>1. answer \in Answers /\ "body" \in Stages
    BY DEF Answers, Stages
  <2> HIDE DEF answer
  <2> QED BY <1>2, <2>1 DEF CallType, Stages
<1>5. \/ answer = "id" /\ ops[c] = "done"
      \/ answer = "errors" /\ ops[c] = "failed"
  BY <1>1
<1> HIDE DEF k, answer
<1>6. Turns(c) /\ calls'[c] = k
  BY <1>1, <1>2, <1>3, <1>4, Rewrites
<1>7. Placed(c)'
  <2>1. UNCHANGED <<made, ops>>
    BY <1>1 DEF router
  <2> QED BY <1>1, <1>2, <1>4, <1>5, <1>6, <2>1 DEF Placed, Waiting
<1>8. calls'[c].pc # "resolved"
  BY <1>4, <1>6
<1> QED BY <1>1, <1>6, <1>7, <1>8, QuietTurn

LEMMA ElapsesIInv ==
  ASSUME IInv, NEW c \in Calls, Elapses(c)
  PROVE  IInv'
<1> USE DEF IInv
<1>1. /\ calls[c].pc = "poll" /\ calls[c].pc # "unsent" /\ calls[c].pc \notin Settled
      /\ UNCHANGED router
  BY DEF Elapses, At, Settled
<1>2. Placed(c) /\ calls[c] \in CallType /\ calls \in [Calls -> CallType \cup {Unsent}]
  BY <1>1, PlacedCall
<1> DEFINE k == [calls[c] EXCEPT !.late = TRUE]
<1>3. calls' = [calls EXCEPT ![c] = k]
  BY <1>2 DEF Elapses
<1>4. /\ k \in CallType /\ k.flow = calls[c].flow /\ k.of = calls[c].of /\ k.terms = calls[c].terms
      /\ k.pc = "poll" /\ k.asks = calls[c].asks /\ k.answer = calls[c].answer
      /\ k.seen = calls[c].seen /\ k.heard = calls[c].heard
  BY <1>1, <1>2 DEF CallType
<1> HIDE DEF k
<1>5. Turns(c) /\ calls'[c] = k
  BY <1>1, <1>2, <1>3, <1>4, Rewrites
<1>6. Placed(c)'
  <2>1. UNCHANGED <<made, ops>>
    BY <1>1 DEF router
  <2> QED BY <1>1, <1>2, <1>4, <1>5, <2>1 DEF Placed, Waiting
<1>7. calls'[c].pc # "resolved"
  BY <1>4, <1>5
<1> QED BY <1>1, <1>5, <1>6, <1>7, QuietTurn

\* The second request of createOwner: the owner has been made.
LEMMA AsksIInv ==
  ASSUME IInv, NEW c \in Calls, AsksForAccount(c)
  PROVE  IInv'
<1> USE DEF IInv
<1>1. /\ calls[c].pc = "body" /\ calls[c].pc # "unsent" /\ calls[c].pc \notin Settled
      /\ UNCHANGED router /\ calls[c].asks = "owner"
  BY DEF AsksForAccount, At, Settled
<1>2. Placed(c) /\ calls[c] \in CallType /\ calls \in [Calls -> CallType \cup {Unsent}]
      /\ calls[c] # Unsent
  BY <1>1, PlacedCall
<1> DEFINE k == [calls[c] EXCEPT !.pc = "sent", !.asks = "account", !.answer = None]
<1>3. calls' = [calls EXCEPT ![c] = k]
  BY <1>2 DEF AsksForAccount
<1>4. /\ k \in CallType /\ k.flow = calls[c].flow /\ k.of = calls[c].of /\ k.terms = calls[c].terms
      /\ k.pc = "sent" /\ k.asks = "account"
      /\ k.seen = calls[c].seen /\ k.heard = calls[c].heard
  BY <1>1, <1>2 DEF CallType, Things, Answers
<1> HIDE DEF k
<1>5. Turns(c) /\ calls'[c] = k
  BY <1>1, <1>2, <1>3, <1>4, Rewrites
<1>6. ~Waiting(calls[c]) /\ ops[c] = None /\ "owner" \in made[c]
  <2>1. ~Waiting(calls[c])
    BY <1>1, <1>2 DEF Placed, Settled
  <2>2. ops[c] = None
    BY <1>1, <1>2 DEF Placed, Deferrable
  <2>3. ops[c] # "failed"
    BY <2>2 DEF None
  <2> QED BY <1>1, <1>2, <2>1, <2>2, <2>3 DEF Placed
<1>7. calls[c].flow = "createOwner"
  BY <1>1, <1>2, <1>6, AsksTypes
<1>8. Placed(c)'
  <2>1. UNCHANGED <<made, ops>>
    BY <1>1 DEF router
  <2>2. ~Waiting(k)
    BY <1>4, <1>6 DEF Waiting
  <2> QED BY <1>2, <1>4, <1>5, <1>6, <1>7, <2>1, <2>2 DEF Placed, None
<1>9. calls'[c].pc # "resolved"
  BY <1>4, <1>5
<1> QED BY <1>1, <1>5, <1>8, <1>9, QuietTurn

\* The body is returned.
LEMMA ReturnsIInv ==
  ASSUME IInv, NEW c \in Calls, ReturnsId(c) \/ ReturnsAnyway(c)
  PROVE  IInv'
<1> USE DEF IInv
<1>1. /\ calls[c].pc = "body" /\ calls[c].pc # "unsent" /\ calls[c].pc \notin Settled \cup {"unsent"}
      /\ UNCHANGED router
  BY DEF ReturnsId, ReturnsAnyway, At, Settled
<1>2. Placed(c)
  BY <1>1, PlacedCall
<1>3. CASE Goes(c, "rejected")
  BY <1>1, <1>3, RejectIInv
<1>4. CASE /\ Goes(c, "resolved")
           /\ \/ calls[c].asks \in {"asset", "intent", "execution"} /\ calls[c].answer = "id"
              \/ calls[c].asks \in {"account", "update"}
  <2>1. "resolved" \in Stages
    BY DEF Stages, Settled
  <2>2. /\ Turns(c) /\ calls'[c].pc = "resolved"
        /\ calls'[c].asks = calls[c].asks /\ calls'[c].answer = calls[c].answer
        /\ calls'[c].seen = calls[c].seen /\ calls'[c].heard = calls[c].heard
    BY <1>1, <1>4, <2>1, GoesTurns
  <2>3. ~Waiting(calls[c])
    BY <1>1, <1>2 DEF Placed, Settled
  <2>4. \/ calls[c].asks \in made[c]
        \/ calls[c].asks \in {"account", "update"} /\ ops[c] = "failed"
    BY <1>1, <1>2, <1>4 DEF Placed
  <2>5. Placed(c)'
    <3>1. calls'[c].flow = calls[c].flow /\ UNCHANGED <<made, ops>>
      BY <1>1, <2>2 DEF Turns, router
    <3>2. calls[c].asks # "owner"
      BY <1>4
    <3> QED BY <1>2, <2>2, <2>3, <2>4, <3>1, <3>2 DEF Placed, Waiting, Settled
  <2> QED BY <1>1, <2>2, <2>3, <2>5, QuietTurn
<1> QED BY <1>3, <1>4 DEF ReturnsId, ReturnsAnyway

\* A look that fails.
LEMMA LookFailsIInv ==
  ASSUME IInv, NEW c \in Calls, LookFails(c)
  PROVE  IInv'
<1> USE DEF IInv
<1>1. /\ calls[c].pc = "look" /\ calls[c].pc # "unsent" /\ calls[c].pc \notin Settled
      /\ UNCHANGED router /\ calls[c].times < MaxTimes
  BY DEF LookFails, At, Settled
<1>2. Placed(c) /\ calls[c] \in CallType /\ calls \in [Calls -> CallType \cup {Unsent}]
  BY <1>1, PlacedCall
<1> DEFINE k == [calls[c] EXCEPT !.times = calls[c].times + 1]
<1>3. calls' = [calls EXCEPT ![c] = k]
  BY <1>2 DEF LookFails
<1>4. /\ k \in CallType /\ k.flow = calls[c].flow /\ k.of = calls[c].of /\ k.terms = calls[c].terms
      /\ k.pc = "look" /\ k.asks = calls[c].asks /\ k.answer = calls[c].answer
      /\ k.seen = calls[c].seen /\ k.heard = calls[c].heard
  <2>1. calls[c].times + 1 \in 0..MaxTimes
    BY <1>1, <1>2, ClientAssumption DEF CallType
  <2> QED BY <1>1, <1>2, <2>1 DEF CallType
<1> HIDE DEF k
<1>5. Turns(c) /\ calls'[c] = k
  BY <1>1, <1>2, <1>3, <1>4, Rewrites
<1>6. Placed(c)'
  <2>1. UNCHANGED <<made, ops>>
    BY <1>1 DEF router
  <2> QED BY <1>1, <1>2, <1>4, <1>5, <2>1 DEF Placed, Waiting
<1>7. calls'[c].pc # "resolved"
  BY <1>4, <1>5
<1> QED BY <1>1, <1>5, <1>6, <1>7, QuietTurn


-----------------------------------------------------------------------------
(* The router, the plans and the balance *)

\* The request of a call is answered, or its connection fails.
LEMMA HearsTurns ==
  ASSUME IInv, NEW c \in Calls, At(c, "sent"), NEW answer \in {"id", "cid", "error", "empty"},
         NEW heard \in BOOLEAN, Hears(c, answer, heard)
  PROVE  /\ Turns(c) /\ calls'[c].asks = calls[c].asks
         /\ calls'[c].pc = (IF heard THEN "answered" ELSE "rejected")
         /\ heard => calls'[c].answer = answer
         /\ calls'[c].seen = calls[c].seen /\ calls'[c].heard = calls[c].heard
<1> USE DEF IInv
<1>1. calls[c].pc = "sent" /\ calls[c].pc # "unsent" /\ calls[c].pc \notin Settled
  BY DEF At, Settled
<1>2. calls[c] \in CallType /\ calls \in [Calls -> CallType \cup {Unsent}]
  BY <1>1, PlacedCall
<1> DEFINE pc == IF heard THEN "answered" ELSE "rejected"
           got == IF heard THEN answer ELSE calls[c].answer
           k == [calls[c] EXCEPT !.pc = pc, !.answer = got]
<1>3. calls' = [calls EXCEPT ![c] = k]
  BY <1>2 DEF Hears
<1>4. /\ k \in CallType /\ k.flow = calls[c].flow /\ k.of = calls[c].of /\ k.terms = calls[c].terms
      /\ k.pc = pc /\ k.asks = calls[c].asks /\ k.answer = got
      /\ k.seen = calls[c].seen /\ k.heard = calls[c].heard
  <2>1. got \in Answers /\ pc \in Stages
    BY <1>2 DEF CallType, Answers, Stages, Settled
  <2> HIDE DEF got, pc
  <2>2. k \in CallType
    BY <1>2, <2>1, ZenonT(30) DEF CallType, Stages
  <2> QED BY <1>2, <2>2 DEF CallType
<1> HIDE DEF k
<1>5. Turns(c) /\ calls'[c] = k
  BY <1>1, <1>2, <1>3, <1>4, Rewrites
<1> QED BY <1>4, <1>5

LEMMA DeclinesIInv ==
  ASSUME IInv, NEW c \in Calls, NEW answer \in {"error", "empty"}, NEW heard \in BOOLEAN,
         Declines(c, answer, heard)
  PROVE  IInv'
<1>1. At(c, "sent") /\ Hears(c, answer, heard) /\ UNCHANGED router
  BY DEF Declines
<1>2. /\ Turns(c) /\ calls'[c].asks = calls[c].asks
      /\ calls'[c].pc = (IF heard THEN "answered" ELSE "rejected")
      /\ heard => calls'[c].answer = answer
      /\ calls'[c].seen = calls[c].seen /\ calls'[c].heard = calls[c].heard
  BY <1>1, HearsTurns
<1>3. Placed(c) /\ calls[c].pc = "sent"
  BY <1>1, PlacedCall DEF At
<1>4. Placed(c)'
  <2>1. calls'[c].flow = calls[c].flow /\ UNCHANGED <<made, ops>>
    BY <1>1, <1>2 DEF Turns, router
  <2> QED BY <1>2, <1>3, <2>1 DEF Placed, Waiting, Settled
<1>5. calls'[c].pc # "resolved"
  BY <1>2
<1> QED BY <1>1, <1>2, <1>4, <1>5, QuietTurn

\* A step of the router, or a call that moves on with one.
LEMMA RouterTurn ==
  ASSUME IInv, NEW c \in Calls, Persist, calls' \in [Calls -> CallType \cup {Unsent}],
         \A d \in Calls \ {c} : calls'[d] = calls[d],
         calls[c] # Unsent, Placed(c)',
         made' \in [Calls -> SUBSET Things], ops' \in [Calls -> {None, "running", "done", "failed"}],
         \A d \in Calls \ {c} : made'[d] = made[d] /\ ops'[d] = ops[d],
         plans' \in [Calls \cup Known -> View \cup {Unread}], synced' \in BOOLEAN,
         WaitsSaw', Recorded'
  PROVE  IInv'
<1> USE DEF IInv
<1>1. calls'[c] # Unsent
  BY DEF Persist
<1>2. TypeOK'
  BY DEF TypeOK
<1>3. CallsPlaced'
  BY <1>1, OthersPlaced DEF CallsPlaced
<1>4. Named'
  BY NamedStays
<1> QED BY <1>2, <1>3, <1>4

\* The router defers what it is asked.
LEMMA DefersIInv ==
  ASSUME IInv, NEW c \in Calls, NEW heard \in BOOLEAN, Defers(c, heard)
  PROVE  IInv'
<1> USE DEF IInv
<1>1. /\ At(c, "sent") /\ Hears(c, "cid", heard) /\ calls[c].asks \in Deferrable
      /\ ops' = [ops EXCEPT ![c] = "running"]
      /\ UNCHANGED <<made, intents, executions, plans, synced>>
  BY DEF Defers
<1>2. /\ Turns(c) /\ calls'[c].asks = calls[c].asks
      /\ calls'[c].pc = (IF heard THEN "answered" ELSE "rejected")
      /\ heard => calls'[c].answer = "cid"
      /\ calls'[c].seen = calls[c].seen /\ calls'[c].heard = calls[c].heard
  BY <1>1, HearsTurns
<1>3. Placed(c) /\ calls[c].pc = "sent" /\ calls[c] # Unsent
  BY <1>1, PlacedCall DEF At
<1>4. Persist
  BY <1>2, TurnsPersist
<1>5. ops' \in [Calls -> {None, "running", "done", "failed"}] /\ ops'[c] = "running"
      /\ \A d \in Calls \ {c} : ops'[d] = ops[d]
  BY <1>1 DEF TypeOK
<1>6. Placed(c)'
  <2>1. calls'[c].flow = calls[c].flow
    BY <1>2 DEF Turns
  <2>2. ~Waiting(calls[c])
    BY <1>3 DEF Placed, Settled
  <2> QED BY <1>1, <1>2, <1>3, <1>5, <2>1, <2>2 DEF Placed, Waiting, Settled, None
<1>7. WaitsSaw'
  <2>1. \A d \in Calls : At(d, "resolved")' => calls'[d] = calls[d]
    BY <1>2 DEF At, Turns
  <2> QED BY <1>1, <2>1, WaitsStay
<1>8. Recorded'
  BY <1>1, <1>4, RecordedStays
<1> QED BY <1>1, <1>2, <1>3, <1>4, <1>5, <1>6, <1>7, <1>8, RouterTurn DEF Turns, TypeOK

\* ... which fails.
LEMMA OperationFailsIInv ==
  ASSUME IInv, NEW c \in Calls, CompletesWithErrors(c)
  PROVE  IInv'
<1> USE DEF IInv
<1>1. /\ ops[c] = "running" /\ ops' = [ops EXCEPT ![c] = "failed"]
      /\ UNCHANGED <<calls, made, intents, executions, plans, synced>>
  BY DEF CompletesWithErrors
<1>2. calls[c] # Unsent /\ Placed(c)
  BY <1>1 DEF CallsPlaced, None
<1>3. Persist
  BY <1>1 DEF Persist
<1>4. ops' \in [Calls -> {None, "running", "done", "failed"}] /\ ops'[c] = "failed"
      /\ \A d \in Calls \ {c} : ops'[d] = ops[d]
  BY <1>1 DEF TypeOK
<1>5. Placed(c)'
  BY <1>1, <1>2, <1>4 DEF Placed, Waiting, None
<1>6. WaitsSaw'
  BY <1>1, WaitsStay
<1>7. Recorded'
  BY <1>1, <1>3, RecordedStays
<1> QED BY <1>1, <1>2, <1>3, <1>4, <1>5, <1>6, <1>7, RouterTurn DEF TypeOK


\* What a call asks for is made.
LEMMA MakeKeeps ==
  ASSUME IInv, NEW c \in Calls, calls[c] # Unsent, ~Waiting(calls[c]), Make(c), Persist
  PROVE  /\ made' \in [Calls -> SUBSET Things] /\ made'[c] = made[c] \cup {calls[c].asks}
         /\ \A d \in Calls \ {c} : made'[d] = made[d]
         /\ plans' \in [Calls \cup Known -> View \cup {Unread}]
         /\ \A p : p # c => plans'[p] = plans[p]
         /\ calls[c].asks # "execution" => plans' = plans
         /\ Recorded'
<1> USE DEF IInv
<1>1. Placed(c)
  BY DEF CallsPlaced
<1>2. /\ calls[c].asks \in Things
      /\ calls[c].asks = "intent" <=> calls[c].flow = "createIntent"
      /\ calls[c].asks = "execution" <=> calls[c].flow = "executeIntent"
  BY <1>1, AsksTypes
<1>3. /\ made' \in [Calls -> SUBSET Things] /\ made'[c] = made[c] \cup {calls[c].asks}
      /\ \A d \in Calls \ {c} : made'[d] = made[d]
  BY <1>2 DEF Make, TypeOK
<1>4. /\ plans' \in [Calls \cup Known -> View \cup {Unread}]
      /\ \A p : p # c => plans'[p] = plans[p]
      /\ calls[c].asks # "execution" => plans' = plans
  <2>1. [status |-> "Pending", done |-> 0] \in View
    BY DEF View, Statuses
  <2>2. plans \in [Calls \cup Known -> View \cup {Unread}] /\ c \in Calls \cup Known
    BY DEF TypeOK
  <2>3. CASE calls[c].asks # "execution"
    BY <2>2, <2>3 DEF Make
  <2>4. CASE calls[c].asks = "execution"
    <3>1. plans' = [plans EXCEPT ![c] = [status |-> "Pending", done |-> 0]]
      BY <2>4 DEF Make
    <3> QED BY <2>1, <2>2, <2>4, <3>1
  <2> QED BY <2>3, <2>4
<1>5. Recorded'
  <2>1. ASSUME NEW i \in intents'
        PROVE  /\ i.by \in Calls /\ calls'[i.by] # Unsent /\ calls'[i.by].flow = "createIntent"
               /\ i = Intent(i.by, calls'[i.by].terms)
    <3>1. CASE i \in intents
      <4>1. /\ i.by \in Calls /\ calls[i.by] # Unsent /\ calls[i.by].flow = "createIntent"
            /\ i = Intent(i.by, calls[i.by].terms)
        BY <3>1 DEF Recorded
      <4>2. calls'[i.by].terms = calls[i.by].terms
        BY <4>1 DEF Persist
      <4> QED BY <4>1, <4>2 DEF Persist
    <3>2. CASE i \notin intents
      <4>1. i = Intent(c, calls[c].terms) /\ calls[c].asks = "intent"
        BY <3>2 DEF Make
      <4>2. i.by = c
        BY <4>1 DEF Intent
      <4>3. calls'[c].terms = calls[c].terms /\ calls'[c] # Unsent /\ calls'[c].flow = calls[c].flow
        BY DEF Persist
      <4> QED BY <1>2, <4>1, <4>2, <4>3
    <3> QED BY <3>1, <3>2
  <2>2. ASSUME NEW e \in executions'
        PROVE  /\ e.by \in Calls /\ calls'[e.by] # Unsent /\ calls'[e.by].flow = "executeIntent"
               /\ e = Execution(e.by, calls'[e.by].of, calls'[e.by].terms)
    <3>1. CASE e \in executions
      <4>1. /\ e.by \in Calls /\ calls[e.by] # Unsent /\ calls[e.by].flow = "executeIntent"
            /\ e = Execution(e.by, calls[e.by].of, calls[e.by].terms)
        BY <3>1 DEF Recorded
      <4>2. calls'[e.by].terms = calls[e.by].terms /\ calls'[e.by].of = calls[e.by].of
        BY <4>1 DEF Persist
      <4> QED BY <4>1, <4>2 DEF Persist
    <3>2. CASE e \notin executions
      <4>1. e = Execution(c, calls[c].of, calls[c].terms) /\ calls[c].asks = "execution"
        BY <3>2 DEF Make
      <4>2. e.by = c
        BY <4>1 DEF Execution
      <4>3. calls'[c].terms = calls[c].terms /\ calls'[c].of = calls[c].of /\ calls'[c] # Unsent
            /\ calls'[c].flow = calls[c].flow
        BY DEF Persist
      <4> QED BY <1>2, <4>1, <4>2, <4>3
    <3> QED BY <3>1, <3>2
  <2> QED BY <2>1, <2>2 DEF Recorded, Intent, Execution
<1> QED BY <1>3, <1>4, <1>5

LEMMA ServesIInv ==
  ASSUME IInv, NEW c \in Calls, NEW heard \in BOOLEAN, Serves(c, heard)
  PROVE  IInv'
<1> USE DEF IInv
<1>1. At(c, "sent") /\ Make(c) /\ Hears(c, "id", heard) /\ UNCHANGED <<ops, synced>>
  BY DEF Serves
<1>2. /\ Turns(c) /\ calls'[c].asks = calls[c].asks
      /\ calls'[c].pc = (IF heard THEN "answered" ELSE "rejected")
      /\ heard => calls'[c].answer = "id"
      /\ calls'[c].seen = calls[c].seen /\ calls'[c].heard = calls[c].heard
  BY <1>1, HearsTurns
<1>3. Placed(c) /\ calls[c].pc = "sent" /\ calls[c] # Unsent
  BY <1>1, PlacedCall DEF At
<1>4. Persist
  BY <1>2, TurnsPersist
<1>5. ~Waiting(calls[c])
  BY <1>3 DEF Placed, Settled
<1>6. /\ made' \in [Calls -> SUBSET Things] /\ made'[c] = made[c] \cup {calls[c].asks}
      /\ \A d \in Calls \ {c} : made'[d] = made[d]
      /\ plans' \in [Calls \cup Known -> View \cup {Unread}]
      /\ \A p : p # c => plans'[p] = plans[p]
      /\ Recorded'
  BY <1>1, <1>3, <1>4, <1>5, MakeKeeps
<1>7. Placed(c)'
  <2>1. calls'[c].flow = calls[c].flow
    BY <1>2 DEF Turns
  <2> QED BY <1>1, <1>2, <1>3, <1>5, <1>6, <2>1 DEF Placed, Waiting, Settled
<1>8. WaitsSaw'
  <2>1. \A d \in Calls : At(d, "resolved")' => calls'[d] = calls[d]
    BY <1>2 DEF At, Turns
  <2>2. ASSUME NEW d \in Calls, At(d, "resolved"), calls[d].flow = "waitForPlan"
        PROVE  plans'[calls[d].of] = plans[calls[d].of]
    <3>1. calls[d] # Unsent
      BY <2>2 DEF At, Unsent
    <3>2. calls[d].of \in Known \/ At(calls[d].of, "resolved")
      BY <2>2, <3>1 DEF Named, Identified, Returned
    <3>3. calls[d].of # c
      BY <1>3, <3>2, ClientAssumption DEF At
    <3> QED BY <1>6, <3>3
  <2> QED BY <1>1, <2>1, <2>2, WaitsStay
<1> QED BY <1>1, <1>2, <1>3, <1>4, <1>6, <1>7, <1>8, RouterTurn DEF Turns, TypeOK

LEMMA CompletesIInv ==
  ASSUME IInv, NEW c \in Calls, Completes(c)
  PROVE  IInv'
<1> USE DEF IInv
<1>1. /\ ops[c] = "running" /\ ops' = [ops EXCEPT ![c] = "done"] /\ Make(c)
      /\ UNCHANGED <<calls, synced>>
  BY DEF Completes
<1>2. calls[c] # Unsent /\ Placed(c)
  BY <1>1 DEF CallsPlaced, None
<1>3. Persist
  BY <1>1 DEF Persist
<1>4. ops' \in [Calls -> {None, "running", "done", "failed"}] /\ ops'[c] = "done"
      /\ \A d \in Calls \ {c} : ops'[d] = ops[d]
  BY <1>1 DEF TypeOK
<1>5. ~Waiting(calls[c]) /\ calls[c].asks \in Deferrable
  BY <1>1, <1>2 DEF Placed, None
<1>6. /\ made' \in [Calls -> SUBSET Things] /\ made'[c] = made[c] \cup {calls[c].asks}
      /\ \A d \in Calls \ {c} : made'[d] = made[d]
      /\ plans' = plans /\ Recorded'
  <2>1. calls[c].asks # "execution"
    BY <1>5 DEF Deferrable
  <2> QED BY <1>1, <1>2, <1>3, <1>5, <2>1, MakeKeeps
<1>7. Placed(c)'
  <2>1. ops[c] # "failed" /\ ops[c] # None
    BY <1>1 DEF None
  <2> QED BY <1>1, <1>2, <1>4, <1>5, <1>6, <2>1 DEF Placed, Waiting, None
<1>8. WaitsSaw'
  BY <1>1, <1>6, WaitsStay
<1> QED BY <1>1, <1>2, <1>3, <1>4, <1>6, <1>7, <1>8, RouterTurn DEF TypeOK

\* A plan is read: what has changed since the last look is reported.
LEMMA LooksIInv ==
  ASSUME IInv, NEW c \in Calls, LooksAtPlan(c)
  PROVE  IInv'
<1> USE DEF IInv
<1> DEFINE p == calls[c].of
<1>1. /\ calls[c].pc = "look" /\ calls[c].pc # "unsent" /\ calls[c].pc \notin Settled
      /\ calls[c].flow = "waitForPlan" /\ calls[c].times < MaxTimes
      /\ UNCHANGED <<made, ops, intents, executions, synced>>
  BY DEF LooksAtPlan, At, Settled
<1>2. Placed(c) /\ calls[c] \in CallType /\ calls \in [Calls -> CallType \cup {Unsent}]
      /\ calls[c] # Unsent
  BY <1>1, PlacedCall
<1>3. p \in Calls \cup Known /\ plans \in [Calls \cup Known -> View \cup {Unread}]
  BY <1>1, <1>2 DEF Named, Identified, Returned, TypeOK
<1> DEFINE news(view) == IF Changed(calls[c], view) THEN view ELSE calls[c].heard
           pc(view) == IF view.status \in terminalStatuses THEN "resolved" ELSE "look"
           k(view) == [calls[c] EXCEPT !.times = calls[c].times + 1, !.seen = view,
                                       !.heard = news(view), !.pc = pc(view)]
<1>4. PICK view \in Later(plans[p]) :
         plans' = [plans EXCEPT ![p] = view] /\ calls' = [calls EXCEPT ![c] = k(view)]
  BY <1>1 DEF LooksAtPlan
<1>5. view \in View /\ (plans[p].status \in terminalStatuses => view = plans[p])
  <2>1. CASE plans[p].status \in terminalStatuses
    <3>1. plans[p] # Unread
      BY <2>1 DEF Unread, terminalStatuses, None
    <3> QED BY <1>3, <1>4, <2>1, <3>1 DEF Later
  <2>2. CASE plans[p].status \notin terminalStatuses
    BY <1>4, <2>2 DEF Later
  <2> QED BY <2>1, <2>2
<1>6. news(view) = view
  <2>1. calls[c].heard = calls[c].seen /\ calls[c].seen \in View \cup {Unread}
    BY <1>2 DEF Placed, CallType
  <2>2. CASE Changed(calls[c], view)
    BY <2>2
  <2>3. CASE ~Changed(calls[c], view)
    <3>1. view.status = calls[c].seen.status
      BY <2>3 DEF Changed
    <3>2. calls[c].seen # Unread
      BY <1>5, <3>1 DEF Unread, View, Statuses, None
    <3>3. view.done = calls[c].seen.done
      BY <2>3, <3>2 DEF Changed
    <3>4. view = calls[c].seen
      BY <1>5, <2>1, <3>1, <3>2, <3>3 DEF View
    <3> QED BY <2>1, <2>3, <3>4
  <2> QED BY <2>2, <2>3
<1>7. pc(view) \in {"resolved", "look"} /\ (pc(view) = "resolved" => view.status \in terminalStatuses)
  OBVIOUS
<1> HIDE DEF news, pc
<1>8. /\ k(view) \in CallType
      /\ k(view).flow = calls[c].flow /\ k(view).of = calls[c].of /\ k(view).terms = calls[c].terms
      /\ k(view).pc = pc(view) /\ k(view).asks = calls[c].asks /\ k(view).answer = calls[c].answer
      /\ k(view).seen = view /\ k(view).heard = view
  <2>1. calls[c].times + 1 \in 0..MaxTimes
    BY <1>1, <1>2, ClientAssumption DEF CallType
  <2>2. pc(view) \in Stages
    BY <1>7 DEF Stages, Settled
  <2>3. k(view) \in CallType
    BY <1>2, <1>5, <1>6, <2>1, <2>2, ZenonT(30) DEF CallType, Stages
  <2> QED BY <1>2, <1>6, <2>3 DEF CallType
<1> HIDE DEF k
<1>9. Turns(c) /\ calls'[c] = k(view)
  BY <1>1, <1>2, <1>4, <1>8, Rewrites
<1>10. Persist
  BY <1>9, TurnsPersist
<1>11. plans' \in [Calls \cup Known -> View \cup {Unread}] /\ plans'[p] = view
       /\ \A q : q # p => plans'[q] = plans[q]
  BY <1>3, <1>4, <1>5
<1>12. Placed(c)'
  <2>1. Waiting(calls[c])
    BY <1>1 DEF Waiting, Waits
  <2> QED BY <1>1, <1>2, <1>7, <1>8, <1>9, <2>1 DEF Placed, Waiting, Settled
<1>13. WaitsSaw'
  <2> SUFFICES ASSUME NEW d \in Calls, calls'[d].pc = "resolved"
               PROVE  /\ calls'[d].flow = "waitForPlan" =>
                            /\ calls'[d].seen = plans'[calls'[d].of]
                            /\ calls'[d].seen.status \in terminalStatuses
                      /\ calls'[d].flow = "waitForBalance" => synced'
    BY DEF WaitsSaw, At
  <2>1. CASE d = c
    BY <1>1, <1>7, <1>8, <1>9, <1>11, <2>1
  <2>2. CASE d # c
    <3>1. calls'[d] = calls[d] /\ At(d, "resolved")
      BY <1>9, <2>2 DEF Turns, At
    <3>2. /\ calls[d].flow = "waitForPlan" => /\ calls[d].seen = plans[calls[d].of]
                                              /\ calls[d].seen.status \in terminalStatuses
          /\ calls[d].flow = "waitForBalance" => synced
      BY <3>1 DEF WaitsSaw
    <3>3. calls[d].flow = "waitForPlan" => plans'[calls[d].of] = plans[calls[d].of]
      BY <1>5, <1>11, <3>2
    <3> QED BY <1>1, <3>1, <3>2, <3>3
  <2> QED BY <2>1, <2>2
<1>14. Recorded'
  BY <1>1, <1>10, RecordedStays
<1> QED BY <1>1, <1>2, <1>9, <1>10, <1>11, <1>12, <1>13, <1>14, RouterTurn DEF Turns, TypeOK



\* The balance is read.
LEMMA BalanceIInv ==
  ASSUME IInv, NEW c \in Calls, LooksAtBalance(c)
  PROVE  IInv'
<1> USE DEF IInv
<1>1. /\ calls[c].pc = "look" /\ calls[c].pc # "unsent" /\ calls[c].pc \notin Settled
      /\ calls[c].flow = "waitForBalance" /\ calls[c].times < MaxTimes
      /\ synced' \in {synced, TRUE}
      /\ UNCHANGED <<made, ops, intents, executions, plans>>
  BY DEF LooksAtBalance, At, Settled
<1>2. Placed(c) /\ calls[c] \in CallType /\ calls \in [Calls -> CallType \cup {Unsent}]
      /\ calls[c] # Unsent
  BY <1>1, PlacedCall
<1>3. PICK pc : pc = IF synced' THEN "resolved" ELSE "look"
  OBVIOUS
<1> DEFINE k == [calls[c] EXCEPT !.times = calls[c].times + 1, !.pc = pc]
<1>4. calls' = [calls EXCEPT ![c] = k]
  BY <1>1, <1>2, <1>3 DEF LooksAtBalance
<1>5. /\ k \in CallType
      /\ k.flow = calls[c].flow /\ k.of = calls[c].of /\ k.terms = calls[c].terms
      /\ k.pc = pc /\ k.asks = calls[c].asks /\ k.answer = calls[c].answer
      /\ k.seen = calls[c].seen /\ k.heard = calls[c].heard
  <2>1. calls[c].times + 1 \in 0..MaxTimes
    BY <1>1, <1>2, ClientAssumption DEF CallType
  <2>2. pc \in Stages
    BY <1>3 DEF Stages, Settled
  <2>3. k \in CallType
    BY <1>2, <2>1, <2>2, ZenonT(30) DEF CallType, Stages
  <2> QED BY <1>2, <2>3 DEF CallType
<1> HIDE DEF k
<1>6. Turns(c) /\ calls'[c] = k
  BY <1>1, <1>2, <1>4, <1>5, Rewrites
<1>7. Persist
  BY <1>6, TurnsPersist
<1>8. Placed(c)'
  <2>1. Waiting(calls[c])
    BY <1>1 DEF Waiting, Waits
  <2> QED BY <1>1, <1>2, <1>3, <1>5, <1>6, <2>1 DEF Placed, Waiting, Settled
<1>9. synced' \in BOOLEAN /\ (synced => synced')
  <2>1. synced \in BOOLEAN
    BY DEF TypeOK
  <2>2. CASE synced' = synced
    BY <2>1, <2>2
  <2>3. CASE synced' = TRUE
    BY <2>3
  <2> QED BY <1>1, <2>2, <2>3
<1>10. WaitsSaw'
  <2> SUFFICES ASSUME NEW d \in Calls, calls'[d].pc = "resolved"
               PROVE  /\ calls'[d].flow = "waitForPlan" =>
                            /\ calls'[d].seen = plans'[calls'[d].of]
                            /\ calls'[d].seen.status \in terminalStatuses
                      /\ calls'[d].flow = "waitForBalance" => synced'
    BY DEF WaitsSaw, At
  <2>1. CASE d = c
    <3>1. calls'[c].flow = "waitForBalance" /\ calls'[c].pc = pc
      BY <1>1, <1>5, <1>6
    <3>2. synced'
      BY <1>3, <2>1, <3>1
    <3> QED BY <2>1, <3>1, <3>2
  <2>2. CASE d # c
    <3>1. calls'[d] = calls[d] /\ At(d, "resolved")
      BY <1>6, <2>2 DEF Turns, At
    <3>2. /\ calls[d].flow = "waitForPlan" => /\ calls[d].seen = plans[calls[d].of]
                                              /\ calls[d].seen.status \in terminalStatuses
          /\ calls[d].flow = "waitForBalance" => synced
      BY <3>1 DEF WaitsSaw
    <3> QED BY <1>1, <1>9, <3>1, <3>2
  <2> QED BY <2>1, <2>2
<1>11. Recorded'
  BY <1>1, <1>7, RecordedStays
<1> QED BY <1>1, <1>2, <1>6, <1>7, <1>8, <1>9, <1>10, <1>11, RouterTurn DEF Turns, TypeOK

-----------------------------------------------------------------------------
(* A call begins *)

\* A call when it begins.
Begun(flow, of, t, pc) ==
    [pc |-> pc, flow |-> flow, of |-> of, terms |-> t,
     asks |-> IF flow \in Waits THEN None ELSE Makes(flow), answer |-> None, late |-> FALSE,
     times |-> 0, seen |-> Unread, heard |-> Unread]

LEMMA FreshCall ==
  ASSUME NEW flow \in Flows, NEW of \in Calls \cup Known \cup {None},
         NEW t \in Terms \cup {NoTerms}, NEW pc \in {"rejected", "look", "sent"},
         NEW k, k = Begun(flow, of, t, pc)
  PROVE  /\ k \in CallType /\ k.flow = flow /\ k.of = of /\ k.terms = t /\ k.pc = pc
         /\ k.asks = IF flow \in Waits THEN None ELSE Makes(flow)
         /\ k.seen = Unread /\ k.heard = Unread
<1>1. PICK asks : asks = IF flow \in Waits THEN None ELSE Makes(flow)
  OBVIOUS
<1>2. asks \in Things \cup {None}
  BY <1>1, MakesTypes DEF Things
<1>3. pc \in Stages
  BY DEF Stages, Settled
<1>4. 0 \in 0..MaxTimes /\ None \in Answers
  BY ClientAssumption DEF Answers
<1>5. k = [pc |-> pc, flow |-> flow, of |-> of, terms |-> t, asks |-> asks, answer |-> None,
           late |-> FALSE, times |-> 0, seen |-> Unread, heard |-> Unread]
  BY <1>1 DEF Begun
<1>6. k \in CallType
  BY <1>2, <1>3, <1>4, <1>5 DEF CallType, Stages
<1> QED BY <1>1, <1>5, <1>6

LEMMA CalledIInv ==
  ASSUME IInv, NEW c \in Calls, Called(c)
  PROVE  IInv'
<1> USE DEF IInv
<1>1. PICK flow \in Flows, of \in Calls \cup Known \cup {None}, t \in Terms \cup {NoTerms} :
         Legal(flow, of, t) /\ (Starts(c, flow, of, t) \/ Refuses(c, flow, of, t))
  BY DEF Called
<1>2. PICK pc \in {"rejected", "look", "sent"} :
         /\ pc \in {"rejected", IF flow \in Waits THEN "look" ELSE "sent"}
         /\ calls' = [calls EXCEPT ![c] = Begun(flow, of, t, pc)]
  <2>1. CASE Starts(c, flow, of, t)
    <3>1. Call(flow, of, t) = Begun(flow, of, t, IF flow \in Waits THEN "look" ELSE "sent")
      BY DEF Call, Begun
    <3>2. calls' = [calls EXCEPT ![c] = Call(flow, of, t)]
      BY <2>1 DEF Starts
    <3>3. (IF flow \in Waits THEN "look" ELSE "sent") \in {"rejected", "look", "sent"}
      OBVIOUS
    <3> QED BY <3>1, <3>2, <3>3
  <2>2. CASE Refuses(c, flow, of, t)
    <3>1. [Call(flow, of, t) EXCEPT !.pc = "rejected"] = Begun(flow, of, t, "rejected")
      <4>1. PICK start, asks, late, times :
              /\ start = IF flow \in Waits THEN "look" ELSE "sent"
              /\ asks = IF flow \in Waits THEN None ELSE Makes(flow)
              /\ late = FALSE /\ times = 0
        OBVIOUS
      <4>2. PICK call : call = Call(flow, of, t)
        OBVIOUS
      <4>3. call = [pc |-> start, flow |-> flow, of |-> of, terms |-> t, asks |-> asks, answer |-> None,
                    late |-> late, times |-> times, seen |-> Unread, heard |-> Unread]
        BY <4>1, <4>2 DEF Call
      <4>4. Begun(flow, of, t, "rejected") =
              [pc |-> "rejected", flow |-> flow, of |-> of, terms |-> t, asks |-> asks, answer |-> None,
               late |-> late, times |-> times, seen |-> Unread, heard |-> Unread]
        BY <4>1 DEF Begun
      <4>5. [call EXCEPT !.pc = "rejected"] =
              [pc |-> "rejected", flow |-> flow, of |-> of, terms |-> t, asks |-> asks, answer |-> None,
               late |-> late, times |-> times, seen |-> Unread, heard |-> Unread]
        BY <4>3
      <4> QED BY <4>2, <4>4, <4>5
    <3>2. calls' = [calls EXCEPT ![c] = [Call(flow, of, t) EXCEPT !.pc = "rejected"]]
      BY <2>2 DEF Refuses
    <3> QED BY <3>1, <3>2
  <2> QED BY <1>1, <2>1, <2>2
<1>3. UNCHANGED <<made, ops, intents, executions, plans, synced>>
  BY <1>1 DEF Starts, Refuses, router
<1>4. calls[c] = Unsent /\ calls[c].pc = "unsent" /\ calls \in [Calls -> CallType \cup {Unsent}]
  BY DEF Called, TypeOK, Unsent
<1>5. PICK k : k = Begun(flow, of, t, pc)
  OBVIOUS
<1>6. /\ k \in CallType /\ k.flow = flow /\ k.of = of /\ k.terms = t /\ k.pc = pc
      /\ k.asks = IF flow \in Waits THEN None ELSE Makes(flow)
      /\ k.seen = Unread /\ k.heard = Unread
  BY <1>2, <1>5, FreshCall
<1>7. /\ calls'[c] = k /\ calls' \in [Calls -> CallType \cup {Unsent}]
      /\ \A d \in Calls \ {c} : calls'[d] = calls[d]
  BY <1>2, <1>4, <1>5, <1>6
<1>8. Persist
  BY <1>4, <1>7 DEF Persist
<1>9. calls'[c] # Unsent
  <2>1. k.pc # "unsent"
    BY <1>2, <1>6
  <2> QED BY <1>7, <2>1 DEF Unsent
<1>10. TypeOK'
  BY <1>3, <1>7 DEF TypeOK
<1>11. Placed(c)'
  <2>1. ops'[c] = None
    BY <1>3, <1>4 DEF CallsPlaced
  <2>2. CASE flow \in Waits
    BY <1>2, <1>6, <1>7, <2>1, <2>2 DEF Placed, Waiting, Settled, None
  <2>3. CASE flow \notin Waits
    <3>1. k.asks = Makes(flow) /\ k.asks # "account"
      BY <1>6, <2>3, MakesTypes
    <3> QED BY <1>2, <1>6, <1>7, <2>1, <2>3, <3>1 DEF Placed, Waiting, Settled, None
  <2> QED BY <2>2, <2>3
<1>12. CallsPlaced'
  BY <1>3, <1>7, <1>9, <1>11, OthersPlaced DEF CallsPlaced
<1>13. WaitsSaw'
  <2>1. pc # "resolved"
    BY <1>2
  <2>2. \A d \in Calls : At(d, "resolved")' => calls'[d] = calls[d]
    BY <1>6, <1>7, <2>1 DEF At
  <2> QED BY <1>3, <2>2, WaitsStay
<1>14. Named'
  <2>1. \A d \in Calls \ {c} : calls'[d] # Unsent => Identified(d)'
    BY <1>7, <1>8, IdentifiedStays
  <2>2. ASSUME NEW p, Returned(p, "createIntent") \/ Returned(p, "executeIntent")
        PROVE  p # c /\ calls'[p] = calls[p]
    BY <1>4, <1>7, <2>2 DEF Returned, At
  <2>3. Identified(c)'
    <3>1. CASE flow = "createIntent"
      BY <1>1, <1>6, <1>7, <3>1 DEF Legal, Identified
    <3>2. CASE flow = "executeIntent"
      <4>1. Returned(of, "createIntent") /\ t # NoTerms /\ SameDeal(t, calls[of].terms)
        BY <1>1, <3>2 DEF Legal, Returned, SameDeal
      <4>2. calls'[of] = calls[of] /\ of \in Calls
        BY <2>2, <4>1 DEF Returned
      <4>3. SameDeal(calls[c].terms, calls[calls[c].of].terms)'
        BY <1>6, <1>7, <4>1, <4>2 DEF SameDeal
      <4>4. Returned(calls[c].of, "createIntent")'
        BY <1>6, <1>7, <4>1, <4>2 DEF Returned, At
      <4> QED BY <1>6, <1>7, <3>2, <4>1, <4>3, <4>4 DEF Identified
    <3>3. CASE flow = "waitForPlan"
      <4>1. of \in Known \/ Returned(of, "executeIntent")
        BY <1>1, <3>3 DEF Legal, Returned
      <4>2. of \in Known \/ Returned(of, "executeIntent")'
        BY <2>2, <4>1 DEF Returned, At
      <4>3. calls'[c].of \in Known \/ Returned(calls[c].of, "executeIntent")'
        BY <1>6, <1>7, <4>2 DEF Returned, At
      <4> QED BY <1>6, <1>7, <3>3, <4>3 DEF Identified
    <3>4. CASE flow \notin {"createIntent", "executeIntent", "waitForPlan"}
      BY <1>6, <1>7, <3>4 DEF Identified
    <3> QED BY <3>1, <3>2, <3>3, <3>4
  <2> QED BY <2>1, <2>3 DEF Named
<1>15. Recorded'
  BY <1>3, <1>8, RecordedStays
<1> QED BY <1>10, <1>12, <1>13, <1>14, <1>15


-----------------------------------------------------------------------------
(* The invariant holds always *)

LEMMA InitIInv ==
  ASSUME Init
  PROVE  IInv
<1>1. \A c \in Calls : calls[c] = Unsent /\ ops[c] = None /\ ~At(c, "resolved")
  BY DEF Init, Unsent, At
<1>2. TypeOK
  <2>1. [status |-> "Pending", done |-> 0] \in View
    BY DEF View, Statuses
  <2>2. plans \in [Calls \cup Known -> View \cup {Unread}]
    BY <2>1 DEF Init
  <2> QED BY <2>2 DEF Init, TypeOK
<1>3. CallsPlaced /\ WaitsSaw /\ Named
  BY <1>1 DEF CallsPlaced, WaitsSaw, Named
<1>4. Recorded
  BY DEF Init, Recorded
<1> QED BY <1>2, <1>3, <1>4 DEF IInv

LEMMA StepIInv ==
  ASSUME IInv, [Next]_vars
  PROVE  IInv'
<1>1. ASSUME NEW c \in Calls, At(c, "poll") \/ At(c, "look"), Goes(c, "rejected"), UNCHANGED router
      PROVE  IInv'
  BY <1>1, RejectIInv DEF At
<1>2. ASSUME NEW c \in Calls, Called(c)
      PROVE  IInv'
  BY <1>2, CalledIInv
<1>3. ASSUME NEW c \in Calls, Answered(c)
      PROVE  IInv'
  <2>1. PICK heard \in BOOLEAN :
          \/ Serves(c, heard) \/ Defers(c, heard)
          \/ \E answer \in {"error", "empty"} : Declines(c, answer, heard)
    BY <1>3 DEF Answered
  <2>2. CASE Serves(c, heard)
    BY <2>2, ServesIInv
  <2>3. CASE Defers(c, heard)
    BY <2>3, DefersIInv
  <2>4. CASE \E answer \in {"error", "empty"} : Declines(c, answer, heard)
    BY <2>4, DeclinesIInv
  <2> QED BY <2>1, <2>2, <2>3, <2>4
<1>4. ASSUME NEW c \in Calls, Unwrapping(c)
      PROVE  IInv'
  <2>1. CASE Unwraps(c)
    BY <2>1, UnwrapsIInv
  <2>2. CASE ReadsCompleted(c)
    BY <2>2, ReadsIInv
  <2>3. CASE TimesOut(c)
    BY <1>1, <2>3 DEF TimesOut
  <2>4. CASE AsksForAccount(c)
    BY <2>4, AsksIInv
  <2>5. CASE ReturnsId(c) \/ ReturnsAnyway(c)
    BY <2>5, ReturnsIInv
  <2> QED BY <1>4, <2>1, <2>2, <2>3, <2>4, <2>5 DEF Unwrapping
<1>5. ASSUME NEW c \in Calls, Looking(c)
      PROVE  IInv'
  <2>1. CASE LooksAtPlan(c)
    BY <2>1, LooksIInv
  <2>2. CASE LooksAtBalance(c)
    BY <2>2, BalanceIInv
  <2>3. CASE LookFails(c)
    BY <2>3, LookFailsIInv
  <2>4. CASE GivesUp(c)
    BY <1>1, <2>4 DEF GivesUp
  <2> QED BY <1>5, <2>1, <2>2, <2>3, <2>4 DEF Looking
<1>6. ASSUME NEW c \in Calls, ReadThrows(c)
      PROVE  IInv'
  BY <1>1, <1>6 DEF ReadThrows
<1>7. CASE UNCHANGED vars
  <2>1. UNCHANGED <<calls, made, ops, intents, executions, plans, synced>>
    BY <1>7 DEF vars
  <2>2. TypeOK'
    BY <2>1 DEF IInv, TypeOK
  <2>3. CallsPlaced'
    BY <2>1 DEF IInv, CallsPlaced, Placed, Waiting
  <2>4. WaitsSaw'
    BY <2>1 DEF IInv, WaitsSaw, At
  <2>5. Persist
    BY <2>1 DEF Persist
  <2>6. Named' /\ Recorded'
    BY <2>1, <2>5, NamedStays, RecordedStays DEF IInv
  <2> QED BY <2>2, <2>3, <2>4, <2>6 DEF IInv
<1>8. CASE Next
  BY <1>2, <1>3, <1>4, <1>5, <1>6, <1>8, ElapsesIInv, CompletesIInv, OperationFailsIInv DEF Next
<1> QED BY <1>7, <1>8

LEMMA Invariance == Spec => []IInv
<1>1. Init => IInv
  BY InitIInv
<1>2. IInv /\ [Next]_vars => IInv'
  BY StepIInv
<1> QED BY <1>1, <1>2, PTL DEF Spec

-----------------------------------------------------------------------------
(* The theorems *)

\* Every call is of its type, in every stage from its request to its result, and so is
\* what the router has made, deferred and planned for it.
THEOREM TypeCorrect == Spec => []TypeOK
<1>1. IInv => TypeOK
  BY DEF IInv
<1> QED BY <1>1, Invariance, PTL

\* unwrapOperation and the waits: a flow that resolves has been done, whichever answers
\* were lost, deferred or late, unless createOwner or updateAsset was deferred to an
\* operation that failed.
THEOREM ResolvedCorrect == Spec => []ResolvedUnlessFailed
<1>1. ASSUME IInv PROVE ResolvedUnlessFailed
  <2> USE <1>1 DEF IInv
  <2> SUFFICES ASSUME NEW c \in Calls, At(c, "resolved")
               PROVE  Kept(c) \/ (calls[c].flow \in {"createOwner", "updateAsset"} /\ ops[c] = "failed")
    BY DEF ResolvedUnlessFailed
  <2>1. calls[c].pc # "unsent" /\ calls[c].pc = "resolved"
    BY DEF At
  <2>2. Placed(c) /\ calls[c] # Unsent /\ calls[c].flow \in Flows
    BY <2>1, PlacedCall DEF CallType
  <2>3. CASE Waiting(calls[c])
    BY <2>3 DEF Waiting, Waits, WaitsSaw, Kept
  <2>4. CASE ~Waiting(calls[c])
    <3>1. /\ calls[c].asks # "owner"
          /\ calls[c].asks \in made[c] \/ (calls[c].asks \in {"account", "update"} /\ ops[c] = "failed")
          /\ calls[c].asks = "account" => "owner" \in made[c]
      BY <2>1, <2>2, <2>4 DEF Placed
    <3>2. /\ calls[c].asks = "update" <=> calls[c].flow = "updateAsset"
          /\ calls[c].asks \in {"owner", "account"} <=> calls[c].flow = "createOwner"
          /\ calls[c].asks \notin {"owner", "account"} => calls[c].asks = Makes(calls[c].flow)
      BY <2>2, <2>4, AsksTypes
    <3>3. CASE calls[c].flow = "createOwner"
      BY <3>1, <3>2, <3>3 DEF Kept
    <3>4. CASE calls[c].flow # "createOwner"
      <4>1. calls[c].flow \notin Waits
        BY <2>4 DEF Waiting
      <4> QED BY <3>1, <3>2, <3>4, <4>1 DEF Kept, Waits
    <3> QED BY <3>3, <3>4
  <2> QED BY <2>3, <2>4
<1> QED BY <1>1, Invariance, PTL

\* waitForExecutionPlanCompletion: the last change a wait has read is the last one it has
\* reported, however the plan moved between its looks.
THEOREM ChangesCorrect == Spec => []ChangesAreHeard
<1>1. IInv => ChangesAreHeard
  BY DEF IInv, ChangesAreHeard, CallsPlaced, Placed
<1> QED BY <1>1, Invariance, PTL

\* The terms under which a call makes or executes an intent.
LEMMA TermsAreTerms ==
  ASSUME TypeOK, Named, NEW c \in Calls, calls[c] # Unsent,
         calls[c].flow \in {"createIntent", "executeIntent"}
  PROVE  calls[c].terms \in TermsType
<1>1. calls[c].terms \in Terms \cup {NoTerms}
  BY CallTypes DEF CallType
<1>2. calls[c].terms # NoTerms
  BY DEF Named, Identified
<1> QED BY <1>1, <1>2, ClientAssumption

\* The execute flows: in every execution with a settlement who takes the asset pays who
\* gives it, for every kind of intent and every choice of bindings.
THEOREM PaidCorrect == Spec => []PaidByTaker
<1>1. ASSUME IInv PROVE PaidByTaker
  <2> USE <1>1 DEF IInv
  <2>1. ASSUME NEW e \in executions PROVE Fair(e.legs)
    <3>1. PICK c \in Calls : /\ calls[c] # Unsent /\ calls[c].flow = "executeIntent"
                             /\ e = Execution(c, calls[c].of, calls[c].terms)
      BY DEF Recorded
    <3>2. e.legs = Executed(calls[c].terms)
      BY <3>1 DEF Execution
    <3> QED BY <3>1, <3>2, TermsAreTerms, ExecutionsAreFair
  <2> QED BY <2>1 DEF PaidByTaker, Fair
<1> QED BY <1>1, Invariance, PTL

\* The create and execute flows: an execution keeps what the intent it names was made for,
\* and nobody executes a transfer alone.
THEOREM IntendedCorrect == Spec => []ExecutedAsIntended
<1>1. ASSUME IInv PROVE ExecutedAsIntended
  <2> USE <1>1 DEF IInv
  <2>1. ASSUME NEW e \in executions, NEW i \in intents, e.of = i.by
        PROVE  AsIntended(e.legs, i.legs, i.terms)
    <3>1. PICK c \in Calls : /\ calls[c] # Unsent /\ calls[c].flow = "executeIntent"
                             /\ e = Execution(c, calls[c].of, calls[c].terms)
      BY DEF Recorded
    <3>2. PICK d \in Calls : /\ calls[d] # Unsent /\ calls[d].flow = "createIntent"
                             /\ i = Intent(d, calls[d].terms)
      BY DEF Recorded
    <3>3. /\ e.legs = Executed(calls[c].terms) /\ e.of = calls[c].of
          /\ i.legs = Created(calls[d].terms) /\ i.terms = calls[d].terms /\ i.by = d
      BY <3>1, <3>2 DEF Execution, Intent
    <3>4. SameDeal(calls[c].terms, calls[d].terms)
      BY <2>1, <3>1, <3>3 DEF Named, Identified
    <3>5. calls[c].terms \in TermsType /\ calls[d].terms \in TermsType
      BY <3>1, <3>2, TermsAreTerms
    <3> QED BY <3>3, <3>4, <3>5, ExecutionsAreIntended
  <2> QED BY <2>1 DEF ExecutedAsIntended, AsIntended
<1> QED BY <1>1, Invariance, PTL

=============================================================================
