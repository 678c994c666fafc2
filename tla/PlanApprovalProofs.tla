------------------------- MODULE PlanApprovalProofs -------------------------
(***************************************************************************)
(* Theorems about PlanApproval, for any requests, plans, setups and number *)
(* of crashes: funds are credited only for what was received and verified, *)
(* an instruction proposed under one key is credited once, and what an     *)
(* approval says has been done has been done.                              *)
(***************************************************************************)
EXTENDS PlanApproval, TLAPS

Pcs == Live \cup Answers \cup {"lost"}

RequestType ==
    [kind : Kinds, at : 1..(Size + 1), asked : Events, event : Events, end : Statuses,
     pc : Pcs, out : Outcomes]

Sent(r) == requests[r].pc # "unsent"

\* Where a request may be, by what it asks.
Stages ==
    \A r \in Requests : Sent(r) =>
        /\ requests[r].pc \in {"approve", "ask"} => requests[r].kind = "approve"
        /\ requests[r].pc \in {"instruction", "credit"} => requests[r].kind = "instruction"
        /\ requests[r].pc = "status" => requests[r].kind = "status"
        /\ requests[r].pc \in {"ask", "credit"} => At(r) \in Seqs
        /\ requests[r].pc = "start" /\ requests[r].kind = "approve" => At(r) = 1

Typed == TypeOK /\ Stages

\* What the execution says now it has said: history remembers it through resets.
Remembered ==
    /\ \A i \in Seqs : events[i] = "receipt" => i \in received
    /\ status \in Ends => status \in ended

\* A receipt a request has seen was there, and while no reset takes the instruction back
\* it still is: what the execution said when it was fetched and what the router knew
\* when it asked remain true.
Seen ==
    \A r \in Requests : Sent(r) /\ requests[r].kind = "instruction" =>
        /\ requests[r].event = "receipt" => At(r) \in received
        /\ requests[r].asked = "receipt" => At(r) \in received
        /\ requests[r].asked = "receipt" /\ Stands(At(r)) =>
              /\ events[At(r)] = "receipt"
              /\ requests[r].pc \in {"instruction", "credit"} => requests[r].event = "receipt"

\* What has to be so before an instruction is credited.
Backed == {i \in received : Inbound(i) /\ (setup.verifies => i \in verified)}

Crediting == \A r \in Requests : requests[r].pc = "credit" => At(r) \in Backed

\* The journal: who has an entry asked about that instruction, and it was credited.
Journaled ==
    \A r \in Requests : journal[r] # 0 =>
        /\ Sent(r) /\ requests[r].kind = "instruction" /\ At(r) = journal[r]
        /\ journal[r] \in Backed /\ funds[journal[r]] > 0

Funded == \A i \in Seqs : funds[i] > 0 => \E r \in Requests : journal[r] = i

\* With one key for an instruction one request asks about it.
OneRequest ==
    setup.oneKey => \A r, q \in Requests :
        /\ Sent(r) /\ requests[r].kind = "instruction"
        /\ Sent(q) /\ requests[q].kind = "instruction"
        /\ At(r) = At(q)
        => r = q

\* What a status request was told of the end is an end the execution has come to, and
\* the one it is at while nothing was reset.
Unreset == \A q \in Requests : ~Granted(q)

EndSeen ==
    \A r \in Requests : Sent(r) /\ requests[r].end \in Ends =>
        requests[r].end \in ended /\ (Unreset => requests[r].end = status)

\* An approval that was given, stored or not.
Approved(r) ==
    \/ requests[r].pc = "approved"
    \/ requests[r].pc = "end" /\ requests[r].out = "approved"

Answered ==
    \A r \in Requests :
        /\ Sent(r) /\ Approved(r)
        /\ requests[r].kind = "instruction" /\ setup.client /\ setup.hook
        /\ At(r) \in Seqs /\ Inbound(At(r))
        /\ requests[r].asked = "receipt" /\ Stands(At(r))
        => funds[At(r)] > 0

\* An instruction is ready when it is another's, nobody looks at it, or it is prepared.
Ready ==
    {i \in Seqs : Instruction(i).own /\ ~Unseen(i) =>
        /\ Inbound(i) /\ setup.hook => i \in opened
        /\ Instruction(i).op = "hold" => Instruction(i).dest}

Prepared ==
    \A r \in Requests : Sent(r) /\ requests[r].kind = "approve" =>
        /\ requests[r].pc = "approve" => \A i \in Seqs : i < At(r) => i \in Ready
        /\ requests[r].pc = "ask" =>
              Instruction(At(r)).own /\ \A i \in Seqs : i <= At(r) => i \in Ready
        /\ Approved(r) /\ setup.client => Seqs \subseteq Ready

-----------------------------------------------------------------------------
(* What a step does to its request *)

\* A request that was sent is a record of a request.
LEMMA SentType ==
  ASSUME NEW r \in Requests, TypeOK, Sent(r)
  PROVE  requests[r] \in RequestType
<1>1. requests[r] \in {NoRequest} \cup RequestType
  BY DEF TypeOK, RequestType, Pcs
<1> QED BY <1>1 DEF Sent, NoRequest

\* Setting some fields of one request leaves the others as they are.
LEMMA SetRequest ==
  ASSUME NEW r \in Requests, TypeOK, NEW q \in RequestType, requests' = [requests EXCEPT ![r] = q]
  PROVE  /\ requests'[r] = q
         /\ \A s \in Requests \ {r} : requests'[s] = requests[s]
         /\ requests' \in [Requests -> {NoRequest} \cup RequestType]
BY DEF TypeOK, RequestType, Pcs

\* What Goes, Returns, Done and Fetch make of a request, field by field.
LEMMA Going ==
  ASSUME NEW r \in Requests, TypeOK, Sent(r), NEW p \in Pcs, Goes(r, p)
  PROVE  /\ requests' = [requests EXCEPT ![r] = [requests[r] EXCEPT !.pc = p]]
         /\ [requests[r] EXCEPT !.pc = p] \in RequestType
         /\ requests'[r].pc = p /\ requests'[r].kind = requests[r].kind
         /\ requests'[r].at = requests[r].at /\ requests'[r].asked = requests[r].asked
         /\ requests'[r].event = requests[r].event /\ requests'[r].end = requests[r].end
         /\ requests'[r].out = requests[r].out
<1> DEFINE q == [requests[r] EXCEPT !.pc = p]
<1>1. requests[r] \in RequestType /\ requests' = [requests EXCEPT ![r] = q]
  BY SentType DEF Goes, TypeOK
<1>2. q \in RequestType
  BY <1>1 DEF RequestType
<1>3. requests'[r] = q
  BY <1>1, <1>2, SetRequest
<1> QED BY <1>1, <1>2, <1>3 DEF RequestType

LEMMA Returning ==
  ASSUME NEW r \in Requests, TypeOK, Sent(r), NEW o \in Outcomes, Returns(r, o)
  PROVE  /\ requests' = [requests EXCEPT ![r] =
               [requests[r] EXCEPT !.pc = "end", !.out = o, !.event = "none", !.end = "proposed"]]
         /\ [requests[r] EXCEPT !.pc = "end", !.out = o, !.event = "none", !.end = "proposed"]
               \in RequestType
         /\ requests'[r].pc = "end" /\ requests'[r].kind = requests[r].kind
         /\ requests'[r].at = requests[r].at /\ requests'[r].asked = requests[r].asked
         /\ requests'[r].event = "none" /\ requests'[r].end = "proposed"
         /\ requests'[r].out = o
<1> DEFINE q ==
      [requests[r] EXCEPT !.pc = "end", !.out = o, !.event = "none", !.end = "proposed"]
<1>1. requests[r] \in RequestType /\ requests' = [requests EXCEPT ![r] = q]
  BY SentType DEF Returns, RequestType, TypeOK
<1>2. q \in RequestType
  BY <1>1 DEF RequestType, Pcs, Live, Events, Statuses
<1>3. requests'[r] = q
  BY <1>1, <1>2, SetRequest
<1> QED BY <1>1, <1>2, <1>3 DEF RequestType

LEMMA Moving ==
  ASSUME NEW r \in Requests, TypeOK, Sent(r), At(r) \in Seqs, Done(r)
  PROVE  /\ requests' = [requests EXCEPT ![r] =
               [requests[r] EXCEPT !.at = @ + 1, !.pc = "approve"]]
         /\ [requests[r] EXCEPT !.at = @ + 1, !.pc = "approve"] \in RequestType
         /\ requests'[r].pc = "approve" /\ requests'[r].kind = requests[r].kind
         /\ requests'[r].at = requests[r].at + 1 /\ requests'[r].asked = requests[r].asked
         /\ requests'[r].event = requests[r].event /\ requests'[r].end = requests[r].end
         /\ requests'[r].out = requests[r].out
<1> DEFINE q == [requests[r] EXCEPT !.at = @ + 1, !.pc = "approve"]
<1>1. Size \in Nat
  BY DEF TypeOK, PlanType, Size
<1>2. requests[r].at + 1 \in 1..(Size + 1)
  BY <1>1 DEF At, Seqs
<1>3. requests[r] \in RequestType /\ requests' = [requests EXCEPT ![r] = q]
  BY SentType DEF Done, RequestType, TypeOK
<1>4. q \in RequestType
  BY <1>2, <1>3 DEF RequestType, Pcs, Live
<1>5. requests'[r] = q
  BY <1>3, <1>4, SetRequest
<1> QED BY <1>3, <1>4, <1>5 DEF RequestType

LEMMA NotedFields ==
  ASSUME NEW q \in RequestType, NEW k, NEW e, NEW n
  PROVE  LET f == [q EXCEPT !.pc = k, !.event = e, !.end = n] IN
           /\ f.pc = k /\ f.kind = q.kind /\ f.at = q.at /\ f.asked = q.asked
           /\ f.event = e /\ f.end = n /\ f.out = q.out
BY DEF RequestType

\* The execution that was fetched is noted in the request.
Fetched(r) ==
    [requests[r] EXCEPT !.pc = requests[r].kind,
         !.event = IF requests[r].kind = "instruction" THEN Event(At(r)) ELSE @,
         !.end = IF requests[r].kind = "status" THEN status ELSE @]

LEMMA Fetching ==
  ASSUME NEW r \in Requests, TypeOK, Sent(r), Fetch(r)
  PROVE  /\ requests' = [requests EXCEPT ![r] = Fetched(r)] /\ Fetched(r) \in RequestType
         /\ requests'[r].pc = requests[r].kind /\ requests'[r].kind = requests[r].kind
         /\ requests'[r].at = requests[r].at /\ requests'[r].asked = requests[r].asked
         /\ requests'[r].event =
               IF requests[r].kind = "instruction" THEN Event(At(r)) ELSE requests[r].event
         /\ requests'[r].end = IF requests[r].kind = "status" THEN status ELSE requests[r].end
         /\ requests'[r].out = requests[r].out
<1>1. Event(At(r)) \in Events
  BY DEF Event, Events, TypeOK
<1>2. requests[r].kind \in {"approve", "instruction", "status"}
  <2>1. requests[r] \in RequestType
    BY SentType
  <2> QED BY <2>1 DEF Fetch, Unasked, RequestType, Kinds
<1>3. requests[r] \in RequestType /\ status \in Statuses
  BY SentType DEF TypeOK
<1>4. Fetched(r) \in RequestType
  <2>1. /\ Fetched(r).pc = requests[r].kind
        /\ Fetched(r).event \in Events
        /\ Fetched(r).end \in Statuses
    BY <1>1, <1>3 DEF Fetched, RequestType
  <2>2. requests[r].kind \in Pcs
    BY <1>2 DEF Pcs, Live
  <2> QED BY <1>1, <1>3, <2>2 DEF Fetched, RequestType
<1>5. requests' = [requests EXCEPT ![r] = Fetched(r)]
  BY <1>3 DEF Fetch, Fetched, TypeOK, RequestType
<1>6. requests'[r] = Fetched(r)
  BY <1>4, <1>5, SetRequest
<1>7. /\ Fetched(r).pc = requests[r].kind /\ Fetched(r).kind = requests[r].kind
      /\ Fetched(r).at = requests[r].at /\ Fetched(r).asked = requests[r].asked
      /\ Fetched(r).event =
            IF requests[r].kind = "instruction" THEN Event(At(r)) ELSE requests[r].event
      /\ Fetched(r).end = IF requests[r].kind = "status" THEN status ELSE requests[r].end
      /\ Fetched(r).out = requests[r].out
  <2> DEFINE e == IF requests[r].kind = "instruction" THEN Event(At(r)) ELSE requests[r].event
             n == IF requests[r].kind = "status" THEN status ELSE requests[r].end
  <2>1. Fetched(r) = [requests[r] EXCEPT !.pc = requests[r].kind, !.event = e, !.end = n]
    BY DEF Fetched
  <2> HIDE DEF e, n
  <2>2. /\ Fetched(r).pc = requests[r].kind /\ Fetched(r).kind = requests[r].kind
        /\ Fetched(r).at = requests[r].at /\ Fetched(r).asked = requests[r].asked
        /\ Fetched(r).event = e /\ Fetched(r).end = n
        /\ Fetched(r).out = requests[r].out
    BY <1>3, <2>1, NotedFields
  <2> QED BY <2>2 DEF e, n
<1> QED BY <1>4, <1>5, <1>6, <1>7

\* A step of a request moves that request only, and within its type; what it asks, what
\* the router knew and, unless it goes through a plan, its instruction remain.
Keeps(r) ==
    /\ requests[r] \in RequestType /\ requests'[r] \in RequestType
    /\ requests' \in [Requests -> {NoRequest} \cup RequestType]
    /\ \A s \in Requests \ {r} : requests'[s] = requests[s]
    /\ requests'[r].kind = requests[r].kind
    /\ requests'[r].asked = requests[r].asked
    /\ requests[r].kind # "approve" => requests'[r].at = requests[r].at
    /\ UNCHANGED router

LEMMA StepKeeps ==
  ASSUME NEW r \in Requests, Typed, RequestStep(r)
  PROVE  Sent(r) /\ Keeps(r)
<1>1. Sent(r)
  BY DEF RequestStep, AnswersAtOnce, FetchThrows, NotFound, Fetch, Approves, Looking, Prepares,
         PrepareThrows, LooksAt, LooksOn, PluginAnswers, Unlisted, NothingInbound, Verifies,
         VerifyThrows, CreditsAccount, CreditThrows, Tells, Finish, Sent
<1> SUFFICES Keeps(r)
  BY <1>1
<1>2. TypeOK /\ requests[r] \in RequestType
  BY <1>1, SentType DEF Typed
<1>3. ASSUME NEW q \in RequestType, requests' = [requests EXCEPT ![r] = q], UNCHANGED router,
             q.kind = requests[r].kind, q.asked = requests[r].asked,
             requests[r].kind # "approve" => q.at = requests[r].at
      PROVE  Keeps(r)
  BY <1>2, <1>3, SetRequest DEF Keeps
<1>4. ASSUME NEW p \in Pcs, Goes(r, p), UNCHANGED router PROVE Keeps(r)
  BY <1>1, <1>2, <1>3, <1>4, Going DEF RequestType
<1>5. ASSUME NEW o \in Outcomes, Returns(r, o), UNCHANGED router PROVE Keeps(r)
  BY <1>1, <1>2, <1>3, <1>5, Returning DEF RequestType
<1>6. ASSUME At(r) \in Seqs, requests[r].kind = "approve", Done(r), UNCHANGED router
      PROVE  Keeps(r)
  BY <1>1, <1>2, <1>3, <1>6, Moving DEF RequestType
<1>7. requests[r].pc \in {"approve", "ask"} => requests[r].kind = "approve"
  BY <1>1 DEF Typed, Stages
<1>8. UNCHANGED router
  BY DEF RequestStep, AnswersAtOnce, FetchThrows, NotFound, Fetch, Approves, Prepares,
         PrepareThrows, LooksAt, LooksOn, PluginAnswers, Unlisted, NothingInbound, Verifies,
         VerifyThrows, CreditsAccount, CreditThrows, Tells, Finish
<1>9. CASE Fetch(r)
  <2>1. requests'[r] = Fetched(r)
    BY <1>1, <1>2, <1>9, Fetching, SetRequest
  <2> QED BY <1>1, <1>2, <1>3, <1>8, <1>9, <2>1, Fetching
<1>10. CASE \E p \in Pcs : Goes(r, p)
  BY <1>4, <1>8, <1>10
<1>11. CASE \E o \in Outcomes : Returns(r, o)
  BY <1>5, <1>8, <1>11
<1>12. CASE Prepares(r) \/ Verifies(r) \/ Finish(r)
  <2>1. {"ask", "credit", requests[r].out} \subseteq Pcs
    BY <1>2 DEF RequestType, Pcs, Live, Outcomes
  <2> QED BY <1>10, <1>12, <2>1 DEF Prepares, Verifies, Finish
<1>13. CASE LooksAt(r)
  <2>1. "ask" \in Pcs /\ "rejected" \in Outcomes
    BY DEF Pcs, Live, Outcomes, Answers
  <2> QED BY <1>6, <1>7, <1>8, <1>10, <1>11, <1>13, <2>1 DEF LooksAt, Looking
<1>14. CASE LooksOn(r)
  BY <1>1, <1>6, <1>7, <1>8, <1>14 DEF LooksOn, Typed, Stages
<1>15. CASE \/ AnswersAtOnce(r) \/ FetchThrows(r) \/ NotFound(r) \/ Approves(r) \/ PrepareThrows(r)
            \/ (\E out \in {"approved", "rejected", "pending"} : PluginAnswers(r, out)) \/ Unlisted(r)
            \/ NothingInbound(r) \/ VerifyThrows(r)
            \/ (\E heard \in BOOLEAN : CreditsAccount(r, heard)) \/ CreditThrows(r) \/ Tells(r)
  <2>1. Outcomes = {"approved", "rejected", "failed", "pending"}
    BY DEF Outcomes, Answers
  <2>2. CASE NotFound(r) \/ \E heard \in BOOLEAN : CreditsAccount(r, heard)
    BY <1>11, <2>1, <2>2 DEF NotFound, CreditsAccount
  <2> QED BY <1>11, <1>15, <2>1, <2>2 DEF AnswersAtOnce, FetchThrows, Approves, PrepareThrows,
     PluginAnswers, Unlisted, NothingInbound, VerifyThrows, CreditThrows, Tells
<1> QED BY <1>1, <1>9, <1>12, <1>13, <1>14, <1>15 DEF RequestStep

\* A plan is finite, and what arrives is a request.
LEMMA PlanSize ==
  ASSUME plan \in PlanType
  PROVE  Size \in Nat
BY DEF PlanType, Size

LEMMA NewRequests ==
  ASSUME plan \in PlanType
  PROVE  \A kind \in Kinds, i \in 1..(Size + 1), e \in Events : Request(kind, i, e) \in RequestType
BY PlanSize DEF Request, RequestType, Pcs, Live, Outcomes, Answers, Events, Statuses

\* What is run again asks what it asked.
LEMMA Rerunning ==
  ASSUME NEW q \in RequestType, plan \in PlanType
  PROVE  /\ Rerun(q) \in RequestType
         /\ Rerun(q).kind = q.kind /\ Rerun(q).asked = q.asked
         /\ q.kind # "approve" => Rerun(q).at = q.at
         /\ Rerun(q).pc \in {"start", "lost"} \cup Answers
         /\ Rerun(q).pc = "start" /\ q.kind = "approve" => Rerun(q).at = 1
         /\ Rerun(q).pc \in Answers \cup {"lost"} =>
               Rerun(q).pc \in {q.pc, "lost"} /\ Rerun(q).event = q.event /\ Rerun(q).end = q.end
         /\ Rerun(q).pc = "start" => Rerun(q).event = "none" /\ Rerun(q).end = "proposed"
         /\ q.pc \in Answers => Rerun(q) = q
<1>1. Size \in Nat
  BY PlanSize
<1>2. q.pc # "unsent"
  BY DEF RequestType, Pcs, Live, Answers
<1>3. CASE q.pc \in Answers \cup {"lost"}
  BY <1>2, <1>3 DEF Rerun, Answers
<1>4. CASE q.pc \notin Answers \cup {"lost"} /\ q.kind = "status"
  BY <1>2, <1>4 DEF Rerun, RequestType, Pcs, Answers
<1>5. CASE q.pc \notin Answers \cup {"lost"} /\ q.kind # "status"
  <2> DEFINE i == IF q.kind = "approve" THEN 1 ELSE q.at
  <2>1. Rerun(q) = Request(q.kind, i, q.asked)
    BY <1>2, <1>5 DEF Rerun
  <2>2. q.kind \in Kinds /\ i \in 1..(Size + 1) /\ q.asked \in Events
    BY <1>1 DEF RequestType
  <2>3. Request(q.kind, i, q.asked) \in RequestType
    BY <2>2, NewRequests
  <2>4. /\ Rerun(q).kind = q.kind /\ Rerun(q).asked = q.asked /\ Rerun(q).at = i
        /\ Rerun(q).pc = "start" /\ Rerun(q).event = "none" /\ Rerun(q).end = "proposed"
    BY <2>1 DEF Request
  <2>5. q.pc \notin Answers /\ "start" \notin Answers \cup {"lost"}
    BY <1>5 DEF Answers
  <2> QED BY <2>1, <2>3, <2>4, <2>5
<1> QED BY <1>3, <1>4, <1>5

\* A crash changes no request that was not sent.
LEMMA Crashing ==
  ASSUME NEW r \in Requests, TypeOK, Crash
  PROVE  /\ requests[r].pc = "unsent" => requests'[r] = requests[r]
         /\ Sent(r) => requests[r] \in RequestType /\ requests'[r] = Rerun(requests[r])
         /\ requests'[r] \in {NoRequest} \cup RequestType
<1>1. requests'[r] = Rerun(requests[r]) /\ plan \in PlanType
  BY DEF Crash, TypeOK
<1>2. requests[r].pc = "unsent" => requests'[r] = requests[r] /\ requests[r] = NoRequest
  <2>1. requests[r] \in {NoRequest} \cup RequestType
    BY DEF TypeOK, RequestType, Pcs
  <2> QED BY <1>1, <2>1 DEF Rerun, NoRequest, RequestType, Pcs, Live, Answers
<1>3. Sent(r) => requests[r] \in RequestType
  BY SentType
<1>4. Sent(r) => requests'[r] \in RequestType
  BY <1>1, <1>3, Rerunning
<1> QED BY <1>1, <1>2, <1>3, <1>4 DEF Sent

\* A request that arrives.
LEMMA Serving ==
  ASSUME NEW r \in Requests, NEW kind \in Kinds, NEW i \in 1..(Size + 1), TypeOK,
         Serve(r, kind, i)
  PROVE  /\ ~Sent(r) /\ journal' = journal
         /\ \A s \in Requests \ {r} : requests'[s] = requests[s]
         /\ requests'[r].pc = "start" /\ requests'[r].kind = kind
         /\ requests'[r].at = IF kind \in {"instruction", "reset"} THEN i ELSE 1
         /\ requests'[r].asked = IF kind = "instruction" THEN Event(i) ELSE "none"
         /\ requests'[r].event = "none" /\ requests'[r].end = "proposed"
         /\ requests' \in [Requests -> {NoRequest} \cup RequestType]
<1> DEFINE j == IF kind \in {"instruction", "reset"} THEN i ELSE 1
           e == IF kind = "instruction" THEN Event(i) ELSE "none"
           q == Request(kind, j, e)
<1>1. e \in Events /\ j \in 1..(Size + 1)
  BY PlanSize DEF Event, Events, TypeOK
<1> HIDE DEF j, e
<1>2. q \in RequestType
  BY <1>1, NewRequests DEF TypeOK
<1> HIDE DEF q
<1>3. requests' = [requests EXCEPT ![r] = q]
  BY DEF Serve, q, j, e
<1>4. ~Sent(r) /\ journal' = journal
  BY DEF Serve, Sent, NoRequest, ledger
<1>5. q.pc = "start" /\ q.kind = kind /\ q.event = "none" /\ q.end = "proposed"
        /\ q.at = j /\ q.asked = e
  BY DEF q, Request
<1> QED BY <1>2, <1>3, <1>4, <1>5, SetRequest DEF j, e

-----------------------------------------------------------------------------
(* Type correctness *)

LEMMA InitTyped == Init => Typed
<1> SUFFICES ASSUME Init PROVE Typed
  OBVIOUS
<1>1. plan \in PlanType /\ setup \in SetupType /\ 0 \in 0..MaxCrashes
  BY PlanAssumption DEF Init
<1>2. TypeOK
  BY <1>1, PlanSize DEF Init, TypeOK, Events, Statuses, Ends
<1>3. Stages
  BY DEF Init, Stages, Sent, NoRequest
<1> QED BY <1>2, <1>3 DEF Typed

\* What a step of a request does to the ledger and the plugin.
LEMMA StepEffects ==
  ASSUME NEW r \in Requests, Typed, RequestStep(r)
  PROVE  /\ opened' \subseteq Seqs /\ opened \subseteq opened'
         /\ verified' \subseteq Seqs /\ verified \subseteq verified'
         /\ journal' \in [Requests -> 0..Size] /\ funds' \in [Seqs -> Nat]
         /\ \A i \in Seqs : funds'[i] >= funds[i]
         /\ told' \subseteq Ends /\ crashes' = crashes
<1>1. TypeOK /\ Size \in Nat
  BY PlanSize DEF Typed, TypeOK
<1>2. CASE Prepares(r)
  BY <1>1, <1>2 DEF Prepares, Looking, TypeOK
<1>3. CASE Verifies(r)
  BY <1>1, <1>3 DEF Verifies, TypeOK
<1>4. ASSUME NEW heard \in BOOLEAN, CreditsAccount(r, heard)
      PROVE  /\ opened' \subseteq Seqs /\ opened \subseteq opened'
             /\ verified' = verified
             /\ journal' \in [Requests -> 0..Size] /\ funds' \in [Seqs -> Nat]
             /\ \A i \in Seqs : funds'[i] >= funds[i]
             /\ told' = told /\ crashes' = crashes
  <2>1. At(r) \in Seqs
    BY <1>4 DEF CreditsAccount, Typed, Stages, Sent
  <2>2. At(r) \in 0..Size
    BY <1>1, <2>1 DEF Seqs
  <2>3. opened' \subseteq Seqs /\ opened \subseteq opened'
    BY <1>1, <1>4, <2>1 DEF CreditsAccount, TypeOK
  <2>4. journal' \in [Requests -> 0..Size]
    BY <1>1, <1>4, <2>2 DEF CreditsAccount, TypeOK
  <2>5. funds' \in [Seqs -> Nat] /\ \A i \in Seqs : funds'[i] >= funds[i]
    BY <1>1, <1>4, <2>1 DEF CreditsAccount, TypeOK
  <2> QED BY <1>4, <2>3, <2>4, <2>5 DEF CreditsAccount
<1>5. CASE Tells(r)
  BY <1>1, <1>5 DEF Tells, TypeOK, ledger
<1>6. CASE UNCHANGED <<ledger, told, crashes>>
  BY <1>1, <1>6 DEF TypeOK, ledger
<1> QED BY <1>1, <1>2, <1>3, <1>4, <1>5, <1>6 DEF RequestStep, AnswersAtOnce, FetchThrows, NotFound, Fetch,
     Approves, PrepareThrows, LooksAt, LooksOn, PluginAnswers, Unlisted, NothingInbound,
     VerifyThrows, CreditThrows, Finish, TypeOK

\* A step of a request leads to a stage of its kind.
LEMMA StepStages ==
  ASSUME NEW r \in Requests, Typed, RequestStep(r)
  PROVE  Stages'
<1>1. Sent(r) /\ Keeps(r) /\ TypeOK /\ requests[r] \in RequestType
  BY StepKeeps DEF Typed, Keeps
<1>2. /\ At(r) = requests[r].at /\ At(r)' = requests'[r].at /\ Seqs' = Seqs
  BY <1>1 DEF At, Seqs, Size, Keeps, router
<1> DEFINE Staged ==
        /\ requests'[r].pc \in {"approve", "ask"} => requests[r].kind = "approve"
        /\ requests'[r].pc \in {"instruction", "credit"} => requests[r].kind = "instruction"
        /\ requests'[r].pc = "status" => requests[r].kind = "status"
        /\ requests'[r].pc \in {"ask", "credit"} => requests'[r].at \in Seqs
        /\ requests'[r].pc # "start"
<1> SUFFICES Staged
  BY <1>1, <1>2 DEF Stages, Sent, Keeps, Typed, At
<1>3. ASSUME NEW o \in Outcomes, Returns(r, o) PROVE Staged
  BY <1>1, <1>3, Returning
<1>4. ASSUME At(r) \in Seqs, requests[r].pc \in {"approve", "ask"}, Done(r) PROVE Staged
  BY <1>1, <1>4, Moving DEF Typed, Stages
<1>5. ASSUME NEW p \in {"ask", "credit"} \cup Outcomes, Goes(r, p),
             p = "ask" => requests[r].pc = "approve" /\ At(r) \in Seqs,
             p = "credit" => requests[r].pc = "instruction" /\ At(r) \in Seqs
      PROVE  Staged
  <2>1. p \in Pcs
    BY <1>5 DEF Pcs, Live, Outcomes
  <2>2. requests'[r].pc = p /\ requests'[r].at = At(r)
    BY <1>1, <1>2, <1>5, <2>1, Going
  <2> QED BY <1>1, <1>5, <2>2 DEF Typed, Stages, Outcomes, Answers
<1>6. CASE Fetch(r)
  <2>1. requests'[r].pc = requests[r].kind
    BY <1>1, <1>6, Fetching
  <2>2. requests[r].kind \in {"approve", "instruction", "status"}
    BY <1>1, <1>6 DEF Fetch, Unasked, RequestType, Kinds
  <2> QED BY <2>1, <2>2
<1>7. CASE Prepares(r) \/ Verifies(r)
  BY <1>5, <1>7 DEF Prepares, Looking, Verifies
<1>8. CASE Finish(r)
  BY <1>1, <1>5, <1>8 DEF Finish, RequestType, Outcomes, Answers
<1>9. CASE LooksAt(r)
  <2>1. "rejected" \in Outcomes
    BY DEF Outcomes, Answers
  <2> QED BY <1>3, <1>4, <1>5, <1>9, <2>1 DEF LooksAt, Looking
<1>10. CASE LooksOn(r)
  BY <1>1, <1>4, <1>10 DEF LooksOn, Typed, Stages
<1>11. CASE \E o \in Outcomes : Returns(r, o)
  BY <1>3, <1>11
<1>12. CASE NotFound(r) \/ \E heard \in BOOLEAN : CreditsAccount(r, heard)
  BY <1>11, <1>12 DEF NotFound, CreditsAccount, Outcomes, Answers
<1> QED
  BY <1>6, <1>7, <1>8, <1>9, <1>10, <1>11, <1>12 DEF RequestStep, AnswersAtOnce, FetchThrows,
     Approves, PrepareThrows, PluginAnswers, Unlisted, NothingInbound, VerifyThrows, CreditThrows,
     Tells, Outcomes, Answers

\* A step of the router changes no request, and takes back only what was reset.
RouterStep ==
    \/ \E i \in Seqs, e \in {"receipt", "error"} : Completes(i, e)
    \/ \E s \in Statuses : Advances(s)
    \/ \E r \in Requests : Resets(r)

LEMMA RouterKeeps ==
  ASSUME TypeOK, RouterStep
  PROVE  /\ UNCHANGED <<requests, ledger, told, crashes, setup, plan>>
         /\ events' \in [Seqs -> Events] /\ status' \in Statuses
         /\ received' \subseteq Seqs /\ ended' \subseteq Ends
         /\ received \subseteq received' /\ ended \subseteq ended'
         /\ \A i \in Seqs : events'[i] = "receipt" => events[i] = "receipt" \/ i \in received'
         /\ status' \in Ends => status' = status \/ status' \in ended'
         /\ \A i \in Seqs : events[i] = "receipt" /\ Stands(i) => events'[i] = "receipt"
         /\ status \in Ends /\ Unreset => status' = status
<1>1. CASE \E i \in Seqs, e \in {"receipt", "error"} : Completes(i, e)
  BY <1>1 DEF Completes, TypeOK, Events
<1>2. CASE \E s \in Statuses : Advances(s)
  BY <1>2 DEF Advances, TypeOK
<1>3. ASSUME NEW r \in Requests, Resets(r)
      PROVE  /\ UNCHANGED <<received, ended, requests, ledger, told, crashes, setup, plan>>
             /\ Granted(r) /\ status' = "approved"
             /\ events' = [i \in Seqs |-> IF i < At(r) THEN events[i] ELSE "none"]
  BY <1>3 DEF Resets
<1>4. ASSUME NEW r \in Requests, Resets(r)
      PROVE  /\ events' \in [Seqs -> Events] /\ status' \in Statuses
             /\ \A i \in Seqs : events'[i] = "receipt" => events[i] = "receipt"
             /\ \A i \in Seqs : events[i] = "receipt" /\ Stands(i) => events'[i] = "receipt"
             /\ ~Unreset /\ status' \notin Ends
  BY <1>3, <1>4 DEF TypeOK, Events, Statuses, Ends, Stands, Unreset
<1>5. CASE \E r \in Requests : Resets(r)
  BY <1>3, <1>4, <1>5 DEF TypeOK
<1> QED BY <1>1, <1>2, <1>5 DEF RouterStep

LEMMA StepTyped == Typed /\ [Next]_vars => Typed'
<1> SUFFICES ASSUME Typed, [Next]_vars PROVE Typed'
  OBVIOUS
<1>1. TypeOK /\ Stages
  BY DEF Typed
<1>2. ASSUME NEW r \in Requests, RequestStep(r) PROVE Typed'
  <2>1. Keeps(r) /\ Stages'
    BY <1>2, StepKeeps, StepStages
  <2>2. TypeOK'
    BY <1>1, <1>2, <2>1, StepEffects DEF TypeOK, Keeps, RequestType, Pcs, router, Size, Seqs
  <2> QED BY <2>1, <2>2 DEF Typed
<1>3. CASE RouterStep
  <2>1. /\ UNCHANGED <<requests, opened, verified, journal, funds, told, crashes, setup, plan>>
        /\ events' \in [Seqs -> Events] /\ status' \in Statuses
        /\ received' \subseteq Seqs /\ ended' \subseteq Ends
    BY <1>1, <1>3, RouterKeeps DEF ledger
  <2> QED BY <1>1, <2>1 DEF TypeOK, Typed, Stages, Sent, At, Size, Seqs
<1>4. ASSUME NEW r \in Requests, NEW kind \in Kinds, NEW i \in 1..(Size + 1), Serve(r, kind, i)
      PROVE  Typed'
  <2>1. UNCHANGED <<setup, plan, events, status, received, ended, opened, verified, journal,
                    funds, told, crashes>>
    BY <1>4 DEF Serve, router, ledger
  <2>2. TypeOK'
    BY <1>1, <1>4, <2>1, Serving DEF TypeOK, RequestType, Pcs, Size, Seqs
  <2>3. requests'[r].pc = "start" /\ (requests'[r].kind = "approve" => requests'[r].at = 1)
    BY <1>1, <1>4, Serving
  <2>4. Stages'
    BY <1>1, <1>4, <2>1, <2>3, Serving DEF Stages, Sent, At, Size, Seqs
  <2> QED BY <2>2, <2>4 DEF Typed
<1>5. CASE Crash
  <2>1. /\ UNCHANGED <<setup, plan, events, status, received, ended, opened, verified, journal,
                       funds, told>>
        /\ crashes' \in 0..MaxCrashes /\ requests' = [r \in Requests |-> Rerun(requests[r])]
    BY <1>1, <1>5, PlanAssumption DEF Crash, router, ledger, TypeOK
  <2>2. \A r \in Requests : requests'[r] \in {NoRequest} \cup RequestType
    BY <1>1, <1>5, Crashing
  <2>3. TypeOK'
    BY <1>1, <2>1, <2>2 DEF TypeOK, RequestType, Pcs, Size, Seqs
  <2>4. ASSUME NEW r \in Requests, Sent(r)'
        PROVE  /\ requests'[r].pc \in {"start", "lost"} \cup Answers
               /\ requests'[r].pc = "start" /\ requests'[r].kind = "approve" => requests'[r].at = 1
    <3>1. Sent(r) /\ requests[r] \in RequestType /\ requests'[r] = Rerun(requests[r])
      BY <1>1, <1>5, <2>4, Crashing DEF Sent
    <3>2. plan \in PlanType
      BY <1>1 DEF TypeOK
    <3> QED BY <3>1, <3>2, Rerunning
  <2>5. Stages'
    BY <2>4 DEF Stages, Answers, At
  <2> QED BY <2>3, <2>5 DEF Typed
<1>6. CASE UNCHANGED vars
  BY <1>1, <1>6 DEF vars, Typed, TypeOK, Stages, Sent, At, Size, Seqs
<1> QED BY <1>2, <1>3, <1>4, <1>5, <1>6 DEF Next, RouterStep

\* Every variable stays in its type, and no request is at a stage of another kind.
THEOREM TypeCorrect == Spec => []TypeOK
<1>1. Typed => TypeOK
  BY DEF Typed
<1> QED BY <1>1, InitTyped, StepTyped, PTL DEF Spec

-----------------------------------------------------------------------------
(* Which step leads to a stage *)

\* An instruction of this organisation with nothing to reject.
Passes(r) ==
    Instruction(At(r)).own /\ (Instruction(At(r)).op = "hold" => Instruction(At(r)).dest)

Causes(r) ==
    /\ requests'[r].end \notin {"proposed", requests[r].end} =>
         Fetch(r) /\ requests[r].kind = "status" /\ requests'[r].end = status
    /\ requests'[r].event \in {"none", requests[r].event} \/ Fetch(r)
    /\ requests'[r].pc = "instruction" => Fetch(r)
    /\ requests'[r].pc = "credit" => Verifies(r) /\ requests'[r].event = requests[r].event
    /\ requests'[r].pc = "approve" =>
         \/ Fetch(r)
         \/ Looking(r) /\ ~Instruction(At(r)).own /\ requests'[r].at = At(r) + 1
         \/ LooksOn(r) /\ requests'[r].at = At(r) + 1
    /\ requests'[r].pc = "ask" =>
         /\ requests'[r].at = At(r)
         /\ Prepares(r) \/ (LooksAt(r) /\ Passes(r))
    /\ requests'[r].pc = "approved" => Approved(r)
    /\ requests'[r].pc = "end" /\ requests'[r].out = "approved" =>
         \/ Approved(r)
         \/ AnswersAtOnce(r) \/ requests[r].kind = "status"
         \/ Approves(r) \/ PluginAnswers(r, "approved") \/ NothingInbound(r)
         \/ CreditsAccount(r, TRUE)

LEMMA StepCauses ==
  ASSUME NEW r \in Requests, Typed, RequestStep(r)
  PROVE  Causes(r)
<1>1. Sent(r) /\ TypeOK /\ requests[r] \in RequestType /\ requests[r].at = At(r)
  BY StepKeeps DEF Keeps, Typed, At
<1>2. ASSUME NEW o \in Outcomes, Returns(r, o)
      PROVE  /\ requests'[r].end = "proposed" /\ requests'[r].event = "none"
             /\ requests'[r].pc = "end" /\ requests'[r].out = o
  BY <1>1, <1>2, Returning
<1>3. CASE \E o \in {"rejected", "failed", "pending"} : Returns(r, o)
  BY <1>2, <1>3 DEF Outcomes, Answers, Causes
<1>4. ASSUME NEW p \in Pcs, Goes(r, p)
      PROVE  /\ requests'[r].pc = p /\ requests'[r].at = At(r) /\ requests'[r].out = requests[r].out
             /\ requests'[r].event = requests[r].event /\ requests'[r].end = requests[r].end
  BY <1>1, <1>4, Going
<1>5. "ask" \in Pcs /\ "credit" \in Pcs /\ "approved" \in Outcomes
  BY DEF Pcs, Live, Outcomes, Answers
<1>6. CASE Prepares(r)
  BY <1>4, <1>5, <1>6 DEF Prepares, Causes
<1>7. CASE LooksAt(r)
  <2>1. CASE Passes(r) /\ Goes(r, "ask")
    BY <1>4, <1>5, <1>7, <2>1 DEF Causes
  <2>2. CASE ~Instruction(At(r)).own /\ Done(r)
    BY <1>1, <1>7, <2>2, Moving DEF LooksAt, Looking, Causes
  <2> QED BY <1>3, <1>7, <2>1, <2>2 DEF LooksAt, Passes
<1>8. CASE LooksOn(r)
  <2>1. At(r) \in Seqs
    BY <1>1, <1>8 DEF LooksOn, Typed, Stages
  <2> QED BY <1>1, <1>8, <2>1, Moving DEF LooksOn, Causes
<1>9. CASE Verifies(r)
  BY <1>4, <1>5, <1>9 DEF Verifies, Causes
<1>10. CASE Finish(r)
  <2>1. requests[r].out \in Outcomes /\ requests[r].out \in Pcs
    BY <1>1 DEF RequestType, Pcs, Live, Outcomes
  <2> QED BY <1>4, <1>10, <2>1 DEF Finish, Approved, Outcomes, Answers, Causes
<1>11. CASE Fetch(r)
  <2>1. requests[r].kind \in {"approve", "instruction", "status"}
    BY <1>1, <1>11 DEF Fetch, Unasked, RequestType, Kinds
  <2> QED BY <1>1, <1>11, <2>1, Fetching DEF Causes
<1>12. CASE AnswersAtOnce(r) \/ Approves(r) \/ NothingInbound(r) \/ Tells(r)
  <2>1. Tells(r) => requests[r].kind = "status"
    BY <1>1 DEF Tells, Typed, Stages
  <2> QED BY <1>2, <1>5, <1>12, <2>1 DEF AnswersAtOnce, Approves, NothingInbound, Tells, Causes
<1>13. CASE NotFound(r)
  BY <1>2, <1>3, <1>5, <1>13 DEF NotFound, Causes
<1>14. CASE \E out \in {"approved", "rejected", "pending"} : PluginAnswers(r, out)
  BY <1>2, <1>3, <1>5, <1>14 DEF PluginAnswers, Causes
<1>15. CASE \E heard \in BOOLEAN : CreditsAccount(r, heard)
  BY <1>2, <1>3, <1>5, <1>15 DEF CreditsAccount, Causes
<1>16. CASE FetchThrows(r) \/ PrepareThrows(r) \/ Unlisted(r) \/ VerifyThrows(r) \/ CreditThrows(r)
  BY <1>3, <1>16 DEF FetchThrows, PrepareThrows, Unlisted, VerifyThrows, CreditThrows, Causes
<1> QED
  BY <1>6, <1>7, <1>8, <1>9, <1>10, <1>11, <1>12, <1>13, <1>14, <1>15, <1>16 DEF RequestStep

-----------------------------------------------------------------------------
(* What holds from one state to the next *)

LEMMA JournalStep ==
  ASSUME Typed, [Next]_vars, NEW r \in Requests
  PROVE  journal'[r] = journal[r] \/ \E heard \in BOOLEAN : CreditsAccount(r, heard)
<1>1. ASSUME NEW s \in Requests, NEW heard \in BOOLEAN, CreditsAccount(s, heard), s # r
      PROVE  journal'[r] = journal[r]
  BY <1>1 DEF CreditsAccount, Typed, TypeOK
<1>2. ASSUME NEW s \in Requests, RequestStep(s)
      PROVE  UNCHANGED journal \/ \E heard \in BOOLEAN : CreditsAccount(s, heard)
  BY <1>2 DEF RequestStep, AnswersAtOnce, FetchThrows, NotFound, Fetch, Approves, Prepares,
     PrepareThrows, LooksAt, LooksOn, PluginAnswers, Unlisted, NothingInbound, Verifies,
     VerifyThrows, CreditThrows, Tells, Finish, ledger
<1>3. CASE RouterStep
  BY <1>3, RouterKeeps DEF Typed, ledger
<1>4. CASE \E s \in Requests, kind \in Kinds, i \in 1..(Size + 1) : Serve(s, kind, i)
  BY <1>4 DEF Serve, ledger
<1>5. CASE Crash \/ UNCHANGED vars
  BY <1>5 DEF Crash, ledger, vars
<1> QED BY <1>1, <1>2, <1>3, <1>4, <1>5 DEF Next, RouterStep

LEMMA FundsStep ==
  ASSUME Typed, [Next]_vars, NEW i \in Seqs
  PROVE  \/ funds'[i] = funds[i]
         \/ \E r \in Requests, heard \in BOOLEAN :
              /\ CreditsAccount(r, heard) /\ At(r) = i
              /\ journal[r] = 0 /\ funds'[i] = funds[i] + 1
<1>1. ASSUME NEW s \in Requests, NEW heard \in BOOLEAN, CreditsAccount(s, heard)
      PROVE  \/ funds'[i] = funds[i]
             \/ At(s) = i /\ journal[s] = 0 /\ funds'[i] = funds[i] + 1
  BY <1>1 DEF CreditsAccount, Typed, TypeOK
<1>2. ASSUME NEW s \in Requests, RequestStep(s)
      PROVE  UNCHANGED funds \/ \E heard \in BOOLEAN : CreditsAccount(s, heard)
  BY <1>2 DEF RequestStep, AnswersAtOnce, FetchThrows, NotFound, Fetch, Approves, Prepares,
     PrepareThrows, LooksAt, LooksOn, PluginAnswers, Unlisted, NothingInbound, Verifies,
     VerifyThrows, CreditThrows, Tells, Finish, ledger
<1>3. CASE RouterStep
  BY <1>3, RouterKeeps DEF Typed, ledger
<1>4. CASE \E s \in Requests, kind \in Kinds, j \in 1..(Size + 1) : Serve(s, kind, j)
  BY <1>4 DEF Serve, ledger
<1>5. CASE Crash \/ UNCHANGED vars
  BY <1>5 DEF Crash, ledger, vars
<1> QED BY <1>1, <1>2, <1>3, <1>4, <1>5 DEF Next, RouterStep

\* Setup and plan stay, and so does what was received, what the execution ended at, open
\* accounts, verifications and funds.
LEMMA Monotone ==
  ASSUME Typed, [Next]_vars
  PROVE  /\ UNCHANGED <<setup, plan>> /\ Seqs' = Seqs
         /\ received \subseteq received' /\ ended \subseteq ended'
         /\ opened \subseteq opened' /\ verified \subseteq verified'
         /\ \A i \in Seqs : funds'[i] >= funds[i]
         /\ Backed \subseteq Backed'
<1>1. TypeOK
  BY DEF Typed
<1>2. /\ UNCHANGED <<setup, plan>> /\ opened \subseteq opened' /\ verified \subseteq verified'
      /\ received \subseteq received' /\ ended \subseteq ended'
  <2>1. CASE \E r \in Requests : RequestStep(r)
    BY <2>1, StepKeeps, StepEffects DEF Keeps, router
  <2>2. CASE RouterStep
    BY <1>1, <2>2, RouterKeeps DEF ledger
  <2>3. CASE \E s \in Requests, kind \in Kinds, i \in 1..(Size + 1) : Serve(s, kind, i)
    BY <2>3 DEF Serve, router, ledger
  <2>4. CASE Crash \/ UNCHANGED vars
    BY <2>4 DEF Crash, router, ledger, vars
  <2> QED BY <2>1, <2>2, <2>3, <2>4 DEF Next, RouterStep
<1>3. Seqs' = Seqs
  BY <1>2 DEF Seqs, Size
<1>4. \A i \in Seqs : funds'[i] >= funds[i]
  BY <1>1, FundsStep DEF TypeOK
<1>5. Backed \subseteq Backed'
  BY <1>2, <1>3 DEF Backed, Inbound, Instruction
<1> QED BY <1>2, <1>3, <1>4, <1>5

\* A request stays as it is, takes a step of its own, arrives, or is run again.
LEMMA Fate ==
  ASSUME Typed, [Next]_vars, NEW r \in Requests
  PROVE  \/ requests'[r] = requests[r]
         \/ RequestStep(r)
         \/ \E kind \in Kinds, i \in 1..(Size + 1) : Serve(r, kind, i)
         \/ Crash /\ Sent(r)
<1>1. TypeOK
  BY DEF Typed
<1>2. ASSUME NEW s \in Requests, RequestStep(s) PROVE s = r \/ requests'[r] = requests[r]
  BY <1>2, StepKeeps DEF Keeps
<1>3. CASE RouterStep
  BY <1>1, <1>3, RouterKeeps
<1>4. ASSUME NEW s \in Requests, NEW kind \in Kinds, NEW i \in 1..(Size + 1), Serve(s, kind, i)
      PROVE  s = r \/ requests'[r] = requests[r]
  BY <1>1, <1>4, Serving
<1>5. CASE Crash
  BY <1>1, <1>5, Crashing DEF Sent
<1> QED BY <1>2, <1>3, <1>4, <1>5 DEF Next, RouterStep, vars

\* A request that is run again, field by field.
LEMMA RunAgain ==
  ASSUME Typed, Crash, NEW r \in Requests, Sent(r)
  PROVE  /\ Sent(r)' /\ requests'[r].kind = requests[r].kind
         /\ requests'[r].asked = requests[r].asked
         /\ requests[r].kind # "approve" => requests'[r].at = requests[r].at
         /\ requests'[r].event \in {"none", requests[r].event}
         /\ requests'[r].end \in {"proposed", requests[r].end}
         /\ requests'[r].pc \in {"start", "lost"} \cup Answers
         /\ requests'[r].pc \in Answers => requests'[r].pc = requests[r].pc
<1>1. requests[r] \in RequestType /\ requests'[r] = Rerun(requests[r]) /\ plan \in PlanType
  BY Crashing DEF Typed, TypeOK
<1>2. requests'[r].pc \in {"start", "lost"} \cup Answers
  BY <1>1, Rerunning
<1>3. Sent(r)'
  BY <1>2 DEF Sent, Answers
<1> QED BY <1>1, <1>2, <1>3, Rerunning DEF Answers

\* A request that was sent stays the request it is.
LEMMA Identity ==
  ASSUME Typed, [Next]_vars, NEW r \in Requests, Sent(r)
  PROVE  /\ Sent(r)' /\ requests'[r].kind = requests[r].kind
         /\ requests'[r].asked = requests[r].asked
         /\ requests[r].kind # "approve" => requests'[r].at = requests[r].at
<1>1. CASE requests'[r] = requests[r]
  BY <1>1 DEF Sent
<1>2. CASE RequestStep(r)
  <2>1. Keeps(r)
    BY <1>2, StepKeeps
  <2> QED BY <2>1 DEF Keeps, Sent, RequestType, Pcs, Live, Answers
<1>3. CASE Crash
  BY <1>3, RunAgain
<1>4. \A kind \in Kinds, i \in 1..(Size + 1) : ~Serve(r, kind, i)
  BY Serving DEF Typed
<1> QED BY <1>1, <1>2, <1>3, <1>4, Fate

\* A reset that was approved stays approved, so what stands now stood before.
LEMMA Granting ==
  ASSUME Typed, [Next]_vars, NEW q \in Requests, Granted(q)
  PROVE  Granted(q)' /\ At(q)' = At(q)
<1>1. Sent(q) /\ requests[q].kind = "reset" /\ requests[q].pc = "approved"
  BY DEF Granted, Sent
<1>2. requests'[q].kind = "reset" /\ requests'[q].at = requests[q].at
  BY <1>1, Identity
<1>3. ~RequestStep(q)
  BY <1>1 DEF RequestStep, AnswersAtOnce, FetchThrows, NotFound, Fetch, Approves, Looking, Prepares,
     PrepareThrows, LooksAt, LooksOn, PluginAnswers, Unlisted, NothingInbound, Verifies,
     VerifyThrows, CreditsAccount, CreditThrows, Tells, Finish
<1>4. CASE Crash
  BY <1>1, <1>4, Crashing, Rerunning DEF Typed, TypeOK, Answers, Granted, At
<1>5. CASE requests'[q] = requests[q]
  BY <1>1, <1>5 DEF Granted, At
<1>6. \A kind \in Kinds, i \in 1..(Size + 1) : ~Serve(q, kind, i)
  BY <1>1, Serving DEF Typed
<1> QED BY <1>3, <1>4, <1>5, <1>6, Fate

LEMMA Standing ==
  ASSUME Typed, [Next]_vars
  PROVE  /\ \A i \in Seqs : Stands(i)' =>
               Stands(i) /\ (events[i] = "receipt" => events'[i] = "receipt")
         /\ Unreset' => Unreset /\ (status \in Ends => status' = status)
<1>1. (\A i \in Seqs : Stands(i)' => Stands(i)) /\ (Unreset' => Unreset)
  BY Granting DEF Stands, Unreset
<1>2. CASE RouterStep
  BY <1>1, <1>2, RouterKeeps DEF Typed
<1>3. CASE ~RouterStep
  <2> SUFFICES UNCHANGED <<events, status>>
    BY <1>1
  <2>1. CASE \E r \in Requests : RequestStep(r)
    BY <2>1, StepKeeps DEF Keeps, router
  <2>2. CASE \E r \in Requests, kind \in Kinds, i \in 1..(Size + 1) : Serve(r, kind, i)
    BY <2>2 DEF Serve, router
  <2>3. CASE Crash \/ UNCHANGED vars
    BY <2>3 DEF Crash, router, vars
  <2> QED BY <1>3, <2>1, <2>2, <2>3 DEF Next, RouterStep
<1> QED BY <1>2, <1>3

LEMMA StepRemembered == Typed /\ Remembered /\ [Next]_vars => Remembered'
<1> SUFFICES ASSUME Typed, Remembered, [Next]_vars PROVE Remembered'
  OBVIOUS
<1>1. CASE RouterStep
  BY <1>1, RouterKeeps, Monotone DEF Typed, Remembered
<1>2. CASE \E r \in Requests : RequestStep(r)
  BY <1>2, StepKeeps, Monotone DEF Keeps, router, Remembered
<1>3. CASE \E r \in Requests, kind \in Kinds, i \in 1..(Size + 1) : Serve(r, kind, i)
  BY <1>3, Monotone DEF Serve, router, Remembered
<1>4. CASE Crash \/ UNCHANGED vars
  BY <1>4, Monotone DEF Crash, router, vars, Remembered
<1> QED BY <1>1, <1>2, <1>3, <1>4 DEF Next, RouterStep

-----------------------------------------------------------------------------
(* Credits *)

LEMMA StepSeen == Typed /\ Remembered /\ Seen /\ [Next]_vars => Seen'
<1> SUFFICES ASSUME Typed, Remembered, Seen, [Next]_vars, NEW r \in Requests,
                    Sent(r)', requests'[r].kind = "instruction"
             PROVE  /\ requests'[r].event = "receipt" => At(r)' \in received'
                    /\ requests'[r].asked = "receipt" => At(r)' \in received'
                    /\ requests'[r].asked = "receipt" /\ Stands(At(r))' =>
                          /\ events'[At(r)'] = "receipt"
                          /\ requests'[r].pc \in {"instruction", "credit"} =>
                                requests'[r].event = "receipt"
  BY DEF Seen
<1>1. Sent(r) => /\ requests[r].kind = "instruction" /\ requests'[r].asked = requests[r].asked
                 /\ At(r)' = At(r)
                 /\ requests[r].event = "receipt" => At(r) \in received /\ At(r) \in received'
                 /\ requests[r].asked = "receipt" => At(r) \in Seqs /\ At(r) \in received'
  BY Identity, Monotone DEF Seen, At, Typed, TypeOK
<1>2. Sent(r) /\ requests[r].asked = "receipt" /\ Stands(At(r))' =>
         /\ events[At(r)] = "receipt" /\ events'[At(r)] = "receipt"
         /\ requests[r].pc \in {"instruction", "credit"} => requests[r].event = "receipt"
  <2> SUFFICES ASSUME Sent(r), requests[r].asked = "receipt", Stands(At(r))'
               PROVE  /\ events[At(r)] = "receipt" /\ events'[At(r)] = "receipt"
                      /\ requests[r].pc \in {"instruction", "credit"} =>
                            requests[r].event = "receipt"
    OBVIOUS
  <2>1. Stands(At(r))
    BY <1>1, Granting DEF Stands
  <2>2. /\ events[At(r)] = "receipt"
        /\ requests[r].pc \in {"instruction", "credit"} => requests[r].event = "receipt"
    BY <1>1, <2>1 DEF Seen
  <2>3. \A i \in Seqs : i = At(r) => Stands(i)'
    BY <1>1 DEF Stands
  <2> QED BY <1>1, <2>2, <2>3, Standing
<1>3. CASE requests'[r] = requests[r]
  BY <1>1, <1>2, <1>3 DEF Sent
<1>4. CASE RequestStep(r)
  <2>1. Sent(r) /\ Causes(r) /\ TypeOK
    BY <1>4, StepKeeps, StepCauses DEF Typed
  <2>2. CASE Fetch(r)
    <3>1. requests'[r].event = Event(At(r))
      BY <1>1, <2>1, <2>2, Fetching
    <3>2. Event(At(r)) = "receipt" => At(r) \in received'
      BY Monotone DEF Event, Remembered
    <3>3. requests[r].asked = "receipt" => Event(At(r)) = events[At(r)]
      BY <1>1, <2>1 DEF Event
    <3> QED BY <1>1, <1>2, <2>1, <3>1, <3>2, <3>3
  <2>3. CASE ~Fetch(r)
    BY <1>1, <1>2, <2>1, <2>3 DEF Causes, Verifies
  <2> QED BY <2>2, <2>3
<1>5. ASSUME NEW kind \in Kinds, NEW i \in 1..(Size + 1), Serve(r, kind, i)
      PROVE  /\ requests'[r].event = "none" /\ requests'[r].pc = "start"
             /\ requests'[r].asked = "receipt" =>
                   At(r)' \in received' /\ events'[At(r)'] = "receipt"
  <2>1. requests'[r].kind = kind /\ requests'[r].event = "none" /\ requests'[r].pc = "start"
    BY <1>5, Serving DEF Typed
  <2>2. At(r)' = i /\ requests'[r].asked = Event(i)
    BY <1>5, <2>1, Serving DEF Typed, At
  <2>3. Event(i) = "receipt" => i \in received /\ events[i] = "receipt"
    BY DEF Event, Remembered
  <2>4. events' = events
    BY <1>5 DEF Serve, router
  <2> QED BY <2>1, <2>2, <2>3, <2>4, Monotone
<1>6. CASE Crash /\ Sent(r)
  BY <1>1, <1>2, <1>6, RunAgain DEF Answers
<1> QED BY <1>3, <1>4, <1>5, <1>6, Fate

LEMMA StepCrediting == Typed /\ Seen /\ Crediting /\ [Next]_vars => Crediting'
<1> SUFFICES ASSUME Typed, Seen, Crediting, [Next]_vars, NEW r \in Requests,
                    requests'[r].pc = "credit"
             PROVE  requests'[r].at \in Backed'
  BY DEF Crediting, At
<1>1. CASE requests'[r] = requests[r]
  BY <1>1, Monotone DEF Crediting, At
<1>2. CASE RequestStep(r)
  <2>1. Verifies(r) /\ Sent(r) /\ Keeps(r)
    BY <1>2, StepCauses, StepKeeps DEF Causes
  <2>2. requests[r].kind = "instruction" /\ requests'[r].at = At(r)
    BY <2>1 DEF Verifies, Typed, Stages, Keeps, At
  <2>3. At(r) \in Seqs /\ Inbound(At(r)) /\ At(r) \in received
    BY <2>1, <2>2 DEF Verifies, Credits, Seen
  <2>4. setup.verifies => At(r) \in verified'
    BY <2>1 DEF Verifies
  <2> QED BY <2>2, <2>3, <2>4, Monotone DEF Backed, Inbound, Instruction
<1>3. \A kind \in Kinds, i \in 1..(Size + 1) : ~Serve(r, kind, i)
  BY Serving DEF Typed
<1>4. ~(Crash /\ Sent(r))
  BY RunAgain DEF Answers
<1> QED BY <1>1, <1>2, <1>3, <1>4, Fate

LEMMA StepJournaled == Typed /\ Crediting /\ Journaled /\ [Next]_vars => Journaled'
<1> SUFFICES ASSUME Typed, Crediting, Journaled, [Next]_vars, NEW r \in Requests, journal'[r] # 0
             PROVE  /\ Sent(r)' /\ requests'[r].kind = "instruction" /\ requests'[r].at = journal'[r]
                    /\ journal'[r] \in Backed' /\ funds'[journal'[r]] > 0
  BY DEF Journaled, At
<1>1. TypeOK /\ \A i \in Seqs : funds[i] \in Nat /\ funds'[i] >= funds[i] /\ funds'[i] \in Nat
  BY Monotone, StepTyped DEF Typed, TypeOK
<1>2. CASE journal'[r] = journal[r]
  <2>1. /\ Sent(r) /\ requests[r].kind = "instruction" /\ requests[r].at = journal[r]
        /\ journal[r] \in Backed /\ funds[journal[r]] > 0 /\ journal[r] \in Seqs
    BY <1>1, <1>2 DEF Journaled, Backed, TypeOK, At
  <2> QED BY <1>1, <1>2, <2>1, Identity, Monotone
<1>3. ASSUME NEW heard \in BOOLEAN, CreditsAccount(r, heard)
      PROVE  /\ Sent(r)' /\ requests'[r].kind = "instruction" /\ requests'[r].at = journal'[r]
             /\ journal'[r] \in Backed' /\ funds'[journal'[r]] > 0
  <2>1. Sent(r) /\ requests[r].kind = "instruction" /\ At(r) \in Seqs /\ At(r) \in Backed
    BY <1>3 DEF CreditsAccount, Sent, Typed, Stages, Crediting
  <2>2. journal'[r] = At(r)
    BY <1>1, <1>3 DEF CreditsAccount, TypeOK
  <2>3. funds'[At(r)] = IF journal[r] = 0 THEN funds[At(r)] + 1 ELSE funds[At(r)]
    BY <1>1, <1>3, <2>1 DEF CreditsAccount, TypeOK
  <2>4. journal[r] # 0 => funds[At(r)] > 0
    BY DEF Journaled
  <2>5. funds'[At(r)] > 0
    BY <1>1, <2>1, <2>3, <2>4
  <2> QED BY <2>1, <2>2, <2>5, Identity, Monotone DEF At
<1> QED BY <1>2, <1>3, JournalStep

LEMMA StepFunded == Typed /\ Journaled /\ Funded /\ [Next]_vars => Funded'
<1> SUFFICES ASSUME Typed, Journaled, Funded, [Next]_vars, NEW i \in Seqs, funds'[i] > 0
             PROVE  \E r \in Requests : journal'[r] = i
  BY Monotone DEF Funded
<1>1. TypeOK
  BY DEF Typed
<1>2. ASSUME NEW r \in Requests, NEW heard \in BOOLEAN, CreditsAccount(r, heard)
      PROVE  journal'[r] = At(r)
  BY <1>1, <1>2 DEF CreditsAccount, TypeOK
<1>3. CASE funds'[i] = funds[i]
  <2>1. PICK r \in Requests : journal[r] = i
    BY <1>3 DEF Funded
  <2>2. At(r) = i
    BY <2>1 DEF Journaled, Seqs
  <2> QED BY <1>2, <2>1, <2>2, JournalStep
<1> QED BY <1>2, <1>3, FundsStep

\* Credits: the conjunction that is kept, and what it says of funds.
Secure == Typed /\ Remembered /\ Seen /\ Crediting /\ Journaled /\ Funded

LEMMA SecureHolds == Spec => []Secure
<1>1. Init => Secure
  BY InitTyped DEF Init, Secure, Remembered, Ends, Seen, Crediting, Journaled, Funded, Sent, NoRequest
<1>2. Secure /\ [Next]_vars => Secure'
  BY StepTyped, StepRemembered, StepSeen, StepCrediting, StepJournaled, StepFunded DEF Secure
<1> QED BY <1>1, <1>2, PTL DEF Spec

\* Funds appear on a local account only for an inbound instruction that completed with a
\* receipt and was verified: what the hook was told when the execution was fetched stays
\* true through crashes, and every credit has an entry under the key of a request for it.
THEOREM CreditsCorrect == Spec => []CreditsAreBacked
<1>1. Secure => CreditsAreBacked
  <2> SUFFICES ASSUME Secure, NEW i \in Seqs, funds[i] > 0 PROVE i \in Backed
    BY DEF CreditsAreBacked, Backed
  <2> QED BY DEF Secure, Funded, Journaled, Seqs
<1> QED BY <1>1, SecureHolds, PTL

-----------------------------------------------------------------------------
(* Once *)

LEMMA StepOneRequest == Typed /\ OneRequest /\ [Next]_vars => OneRequest'
<1> SUFFICES ASSUME Typed, OneRequest, [Next]_vars, setup'.oneKey,
                    NEW r \in Requests, NEW q \in Requests,
                    Sent(r)', requests'[r].kind = "instruction",
                    Sent(q)', requests'[q].kind = "instruction",
                    requests'[r].at = requests'[q].at
             PROVE  r = q
  BY DEF OneRequest, At
<1>1. setup.oneKey
  BY Monotone
<1>2. ASSUME NEW s \in Requests, Sent(s), requests'[s].kind = "instruction"
      PROVE  requests[s].kind = "instruction" /\ requests'[s].at = requests[s].at
  BY <1>2, Identity
<1>3. ASSUME NEW s \in Requests, ~Sent(s), Sent(s)', requests'[s].kind = "instruction"
      PROVE  Serve(s, "instruction", requests'[s].at) /\ requests'[s].at \in 1..(Size + 1)
  <2>1. PICK kind \in Kinds, i \in 1..(Size + 1) : Serve(s, kind, i)
    BY <1>3, Fate, StepKeeps DEF Sent
  <2> QED BY <1>3, <2>1, Serving DEF Typed
<1>4. ASSUME NEW s \in Requests, NEW u \in Requests, ~Sent(s), Sent(s)', Sent(u),
             requests'[s].kind = "instruction", requests'[u].kind = "instruction",
             requests'[s].at = requests'[u].at
      PROVE  FALSE
  <2>1. requests[u].kind = "instruction" /\ requests[u].at = requests'[s].at
    BY <1>2, <1>4
  <2>2. requests[u] # NoRequest
    BY <1>4 DEF Sent, NoRequest
  <2> QED BY <1>1, <1>3, <1>4, <2>1, <2>2 DEF Serve
<1>5. CASE Sent(r) /\ Sent(q)
  BY <1>1, <1>2, <1>5 DEF OneRequest, At
<1>6. CASE ~Sent(r) /\ ~Sent(q)
  <2>1. PICK kind \in Kinds, i \in 1..(Size + 1) : Serve(r, kind, i)
    BY <1>6, Fate, StepKeeps DEF Sent
  <2>2. q # r => requests'[q] = requests[q]
    BY <2>1, Serving DEF Typed
  <2> QED BY <1>6, <2>2 DEF Sent
<1> QED BY <1>4, <1>5, <1>6

\* A router that proposes an instruction under one key has it credited at most once: the
\* entry under the key of its one request outlives every crash.
THEOREM OnceCorrect == Spec => []CreditedOnce
<1>1. Init => OneRequest /\ CreditedOnce
  BY DEF Init, OneRequest, CreditedOnce, Sent, NoRequest
<1>2. Secure /\ OneRequest /\ CreditedOnce /\ [Next]_vars => CreditedOnce'
  <2> SUFFICES ASSUME Secure, OneRequest, CreditedOnce, [Next]_vars, setup.oneKey, NEW i \in Seqs
               PROVE  funds'[i] <= 1
    BY Monotone DEF CreditedOnce, Secure
  <2>1. Typed /\ funds[i] \in Nat /\ funds[i] <= 1
    BY DEF Secure, Typed, TypeOK, CreditedOnce
  <2>2. ASSUME NEW r \in Requests, NEW heard \in BOOLEAN, CreditsAccount(r, heard), At(r) = i,
               journal[r] = 0
        PROVE  funds[i] = 0
    <3>1. Sent(r) /\ requests[r].kind = "instruction"
      BY <2>1, <2>2 DEF CreditsAccount, Sent, Typed, Stages
    <3>2. ASSUME NEW q \in Requests, journal[q] = i PROVE FALSE
      <4>1. Sent(q) /\ requests[q].kind = "instruction" /\ At(q) = i
        BY <3>2 DEF Secure, Journaled, Seqs
      <4> QED BY <2>2, <3>1, <3>2, <4>1 DEF OneRequest, Seqs
    <3> QED BY <2>1, <3>2 DEF Secure, Funded
  <2> QED BY <2>1, <2>2, FundsStep
<1>3. Secure /\ OneRequest /\ [Next]_vars => OneRequest'
  BY StepOneRequest DEF Secure
<1> QED BY <1>1, <1>2, <1>3, SecureHolds, PTL DEF Spec

-----------------------------------------------------------------------------
(* The end of a plan *)

LEMMA StepEndSeen == Typed /\ Remembered /\ EndSeen /\ [Next]_vars => EndSeen'
<1> SUFFICES ASSUME Typed, Remembered, EndSeen, [Next]_vars, NEW r \in Requests,
                    Sent(r)', requests'[r].end \in Ends
             PROVE  requests'[r].end \in ended' /\ (Unreset' => requests'[r].end = status')
  BY DEF EndSeen
<1>1. "proposed" \notin Ends
  BY DEF Ends
<1>2. Sent(r) /\ requests'[r].end = requests[r].end =>
         requests'[r].end \in ended' /\ (Unreset' => requests'[r].end = status')
  BY Monotone, Standing DEF EndSeen
<1>3. CASE requests'[r] = requests[r]
  BY <1>2, <1>3 DEF Sent
<1>4. CASE RequestStep(r)
  <2>1. Sent(r) /\ Causes(r)
    BY <1>4, StepKeeps, StepCauses
  <2>2. requests'[r].end = requests[r].end \/ requests'[r].end = status
    BY <1>1, <2>1 DEF Causes
  <2> QED BY <1>2, <2>1, <2>2, Monotone, Standing DEF Remembered
<1>5. \A kind \in Kinds, i \in 1..(Size + 1) : ~Serve(r, kind, i)
  BY <1>1, Serving DEF Typed
<1>6. CASE Crash /\ Sent(r)
  BY <1>1, <1>2, <1>6, RunAgain
<1> QED BY <1>3, <1>4, <1>5, <1>6, Fate

\* The plugin is told only of ends the execution has come to, and of the one it is at
\* while no reset was approved: what a status call read of an end stays one, whatever the
\* router does before the plugin is told, and only a reset leads out of it.
THEOREM ToldCorrect == Spec => []ToldItsEnds
<1>1. Init => Typed /\ Remembered /\ EndSeen /\ ToldItsEnds
  BY InitTyped DEF Init, Remembered, EndSeen, ToldItsEnds, Ends, Sent, NoRequest
<1>2. Typed /\ EndSeen /\ ToldItsEnds /\ [Next]_vars => ToldItsEnds'
  <2> SUFFICES ASSUME Typed, EndSeen, ToldItsEnds, [Next]_vars
               PROVE  told' \subseteq ended' /\ (Unreset' => told' \subseteq {status'})
    BY DEF ToldItsEnds, Unreset
  <2>1. told \subseteq Ends
    BY DEF Typed, TypeOK
  <2>2. told \subseteq ended' /\ (Unreset' => told \subseteq {status'})
    <3>1. told \subseteq ended /\ (Unreset => told \subseteq {status})
      BY DEF ToldItsEnds, Unreset
    <3>2. told = {} \/ status \in Ends \/ ~Unreset
      BY <2>1, <3>1
    <3> QED BY <3>1, <3>2, Monotone, Standing
  <2>3. ASSUME NEW r \in Requests, Tells(r)
        PROVE  told' \subseteq ended' /\ (Unreset' => told' \subseteq {status'})
    <3>1. Sent(r) /\ status' = status /\ ended' = ended
      BY <2>3 DEF Tells, Sent, router
    <3>2. told' = told \cup ({requests[r].end} \cap Ends)
      BY <2>3 DEF Tells
    <3> QED BY <2>2, <3>1, <3>2, Standing DEF EndSeen
  <2>4. ASSUME NEW r \in Requests, RequestStep(r) PROVE Tells(r) \/ told' = told
    BY <2>4 DEF RequestStep, AnswersAtOnce, FetchThrows, NotFound, Fetch, Approves, Prepares,
       PrepareThrows, LooksAt, LooksOn, PluginAnswers, Unlisted, NothingInbound, Verifies,
       VerifyThrows, CreditsAccount, CreditThrows, Finish
  <2>5. CASE RouterStep
    BY <2>2, <2>5, RouterKeeps DEF Typed
  <2>6. CASE \/ \E r \in Requests, kind \in Kinds, i \in 1..(Size + 1) : Serve(r, kind, i)
             \/ Crash \/ UNCHANGED vars
    BY <2>2, <2>6 DEF Serve, Crash, vars
  <2> QED BY <2>2, <2>3, <2>4, <2>5, <2>6 DEF Next, RouterStep
<1> QED BY <1>1, <1>2, StepTyped, StepRemembered, StepEndSeen, PTL DEF Spec

-----------------------------------------------------------------------------
(* What an approval means *)

LEMMA StepAnswered == Secure /\ Secure' /\ Answered /\ [Next]_vars => Answered'
<1> SUFFICES ASSUME Secure, Secure', Answered, [Next]_vars, NEW r \in Requests,
                    Sent(r)', Approved(r)', requests'[r].kind = "instruction",
                    setup.client, setup.hook, requests'[r].at \in Seqs, Inbound(requests'[r].at),
                    requests'[r].asked = "receipt", Stands(At(r))'
             PROVE  funds'[requests'[r].at] > 0
  BY Monotone DEF Answered, At, Inbound, Instruction, Secure
<1>1. Typed
  BY DEF Secure
<1>2. Sent(r) => /\ requests[r].kind = "instruction" /\ requests[r].asked = "receipt"
                 /\ At(r) = requests'[r].at /\ Stands(At(r))
  <2>1. Sent(r) => /\ requests[r].kind = "instruction" /\ requests[r].asked = "receipt"
                   /\ At(r) = requests'[r].at /\ At(r)' = At(r)
    BY <1>1, Identity DEF At
  <2>2. Sent(r) => Stands(At(r))
    BY <1>1, <2>1, Granting DEF Stands
  <2> QED BY <2>1, <2>2
<1>3. Sent(r) /\ Approved(r) => funds'[requests'[r].at] > 0
  <2>1. Sent(r) /\ Approved(r) => funds[At(r)] > 0
    BY <1>2 DEF Answered
  <2>2. \A i \in Seqs : funds[i] \in Nat /\ funds'[i] \in Nat /\ funds'[i] >= funds[i]
    BY <1>1, StepTyped, Monotone DEF Typed, TypeOK
  <2> QED BY <1>2, <2>1, <2>2
<1>4. CASE requests'[r] = requests[r]
  BY <1>3, <1>4 DEF Sent, Approved
<1>5. CASE RequestStep(r)
  <2>1. Sent(r) /\ Causes(r) /\ TypeOK
    BY <1>1, <1>5, StepKeeps, StepCauses DEF Typed
  <2>2. ~(AnswersAtOnce(r) \/ Approves(r) \/ PluginAnswers(r, "approved"))
    BY <1>1, <1>2, <2>1 DEF AnswersAtOnce, Unasked, Approves, PluginAnswers, Typed, Stages
  <2>3. ~NothingInbound(r)
    BY <1>2, <2>1 DEF NothingInbound, Credits, Secure, Seen
  <2>4. CreditsAccount(r, TRUE) => funds'[requests'[r].at] > 0
    <3>1. CreditsAccount(r, TRUE) => journal'[r] = At(r)
      BY <2>1 DEF CreditsAccount, TypeOK
    <3> QED BY <1>2, <2>1, <3>1 DEF Secure, Journaled, Seqs
  <2> QED BY <1>2, <1>3, <2>1, <2>2, <2>3, <2>4 DEF Causes, Approved
<1>6. \A kind \in Kinds, i \in 1..(Size + 1) : ~Serve(r, kind, i)
  BY <1>1, Serving DEF Typed, Approved
<1>7. CASE Crash /\ Sent(r)
  BY <1>1, <1>3, <1>7, RunAgain DEF Approved, Answers
<1> QED BY <1>1, <1>4, <1>5, <1>6, <1>7, Fate

\* When the approval of an inbound instruction was asked for after its receipt was there,
\* an approval means that the funds were credited, unless a reset that takes the
\* instruction back was approved.
THEOREM ApprovalCorrect == Spec => []ApprovedIsCredited
<1>1. Init => Answered
  BY DEF Init, Answered, Sent, NoRequest
<1>2. Answered => ApprovedIsCredited
  BY DEF Answered, ApprovedIsCredited, Sent, Approved
<1> QED BY <1>1, <1>2, SecureHolds, StepAnswered, PTL DEF Spec

LEMMA StepPrepared == Typed /\ Prepared /\ [Next]_vars => Prepared'
<1> SUFFICES ASSUME Typed, Prepared, [Next]_vars, NEW r \in Requests,
                    Sent(r)', requests'[r].kind = "approve"
             PROVE  /\ requests'[r].pc = "approve" =>
                          \A i \in Seqs : i < requests'[r].at => i \in Ready'
                    /\ requests'[r].pc = "ask" =>
                          /\ Instruction(requests'[r].at).own
                          /\ \A i \in Seqs : i <= requests'[r].at => i \in Ready'
                    /\ Approved(r)' /\ setup.client => Seqs \subseteq Ready'
  BY Monotone DEF Prepared, At, Instruction
<1>1. Ready \subseteq Ready'
  BY Monotone DEF Ready, Instruction, Inbound, Unseen, Validated
<1>2. Sent(r) => requests[r].kind = "approve"
  BY Identity
<1>3. CASE requests'[r] = requests[r]
  BY <1>1, <1>2, <1>3 DEF Prepared, Sent, At, Approved
<1>4. CASE RequestStep(r)
  <2>1. Sent(r) /\ Causes(r) /\ TypeOK /\ requests[r].kind = "approve"
    BY <1>2, <1>4, StepKeeps, StepCauses DEF Typed
  <2>2. Size \in Nat /\ requests[r] \in RequestType /\ At(r) \in 1..(Size + 1)
    BY <2>1, PlanSize, SentType DEF TypeOK, RequestType, At
  <2>3. ASSUME requests'[r].pc = "approve", NEW i \in Seqs, i < requests'[r].at
        PROVE  i \in Ready'
    <3>1. CASE Fetch(r)
      <4>1. requests'[r].at = 1
        BY <2>1, <3>1, Fetching DEF Fetch, Typed, Stages, At
      <4> QED BY <2>2, <2>3, <4>1 DEF Seqs
    <3>2. CASE Looking(r) /\ ~Instruction(At(r)).own /\ requests'[r].at = At(r) + 1
      <4>1. i < At(r) \/ i = At(r)
        BY <2>2, <2>3, <3>2 DEF Seqs
      <4>2. i < At(r) => i \in Ready
        BY <2>1, <3>2 DEF Looking, Prepared
      <4>3. i = At(r) => i \in Ready
        BY <3>2 DEF Ready
      <4> QED BY <1>1, <4>1, <4>2, <4>3
    <3>3. CASE LooksOn(r) /\ requests'[r].at = At(r) + 1
      <4>1. i <= At(r)
        BY <2>2, <2>3, <3>3 DEF Seqs
      <4> QED BY <1>1, <2>1, <3>3, <4>1 DEF LooksOn, Prepared
    <3> QED BY <2>1, <2>3, <3>1, <3>2, <3>3 DEF Causes
  <2>4. ASSUME requests'[r].pc = "ask"
        PROVE  /\ Instruction(requests'[r].at).own
               /\ \A i \in Seqs : i <= requests'[r].at => i \in Ready'
    <3>1. /\ requests'[r].at = At(r) /\ Looking(r) /\ Passes(r)
          /\ Inbound(At(r)) /\ setup.hook => At(r) \in opened'
      BY <2>1, <2>4 DEF Causes, Prepares, LooksAt, Looking, Passes, Inbound
    <3>2. At(r) \in Ready'
      BY <3>1, Monotone DEF Ready, Passes, Looking, Inbound, Instruction
    <3>3. \A i \in Seqs : i < At(r) => i \in Ready'
      BY <1>1, <2>1, <3>1 DEF Looking, Prepared
    <3>4. \A i \in Seqs : i <= At(r) => i < At(r) \/ i = At(r)
      BY <2>2 DEF Seqs
    <3> QED BY <3>1, <3>2, <3>3, <3>4 DEF Passes
  <2>5. ASSUME Approved(r)', setup.client PROVE Seqs \subseteq Ready'
    <3>1. CASE Approved(r)
      BY <1>1, <2>1, <2>5, <3>1 DEF Prepared
    <3>2. CASE Approves(r)
      <4>1. \A i \in Seqs : i < At(r)
        BY <2>2, <3>2 DEF Approves, Seqs
      <4> QED BY <1>1, <2>1, <3>2, <4>1 DEF Approves, Prepared
    <3>3. CASE PluginAnswers(r, "approved")
      <4>1. /\ Instruction(At(r)).own /\ Validated(At(r)) /\ setup.plugin /\ At(r) \in Seqs
            /\ \A i \in Seqs : i <= At(r) => i \in Ready
        BY <2>1, <3>3 DEF PluginAnswers, Asks, Prepared, Typed, Stages
      <4>2. ASSUME NEW i \in Seqs, ~(i <= At(r)) PROVE i \in Ready
        <5>1. At(r) < i
          BY <2>2, <4>2 DEF Seqs
        <5>2. Unseen(i)
          BY <4>1, <5>1 DEF Unseen
        <5> QED BY <5>2 DEF Ready
      <4> QED BY <1>1, <4>1, <4>2
    <3>4. ~AnswersAtOnce(r)
      BY <2>1, <2>5 DEF AnswersAtOnce, Unasked
    <3>5. ~NothingInbound(r) /\ ~CreditsAccount(r, TRUE)
      BY <2>1 DEF NothingInbound, CreditsAccount, Typed, Stages
    <3> QED BY <2>1, <2>5, <3>1, <3>2, <3>3, <3>4, <3>5 DEF Causes, Approved
  <2> QED BY <2>3, <2>4, <2>5
<1>5. ASSUME NEW kind \in Kinds, NEW i \in 1..(Size + 1), Serve(r, kind, i)
      PROVE  requests'[r].pc = "start"
  BY <1>5, Serving DEF Typed
<1>6. CASE Crash /\ Sent(r)
  <2>1. /\ requests'[r].pc \in {"start", "lost"} \cup Answers
        /\ requests'[r].pc \in Answers => requests'[r].pc = requests[r].pc
    BY <1>6, RunAgain
  <2>2. requests'[r].pc \notin {"approve", "ask", "end"}
    BY <2>1 DEF Answers
  <2>3. Approved(r)' => Approved(r)
    BY <2>1, <2>2 DEF Approved, Answers
  <2> QED BY <1>1, <1>2, <1>6, <2>2, <2>3 DEF Prepared
<1> QED BY <1>3, <1>4, <1>5, <1>6, Fate DEF Approved

\* An approved plan is prepared: the account of every inbound instruction of this
\* organisation is open and every hold of its has a destination, but for those after the
\* first instruction the plugin has validated.
THEOREM PreparedCorrect == Spec => []ApprovedIsPrepared
<1>1. Init => Prepared
  BY DEF Init, Prepared, Sent, NoRequest
<1>2. Prepared => ApprovedIsPrepared
  BY DEF Prepared, ApprovedIsPrepared, Ready, Sent, Approved
<1> QED BY <1>1, <1>2, InitTyped, StepTyped, StepPrepared, PTL DEF Spec
====
