------------------------------ MODULE Approval ------------------------------
(***************************************************************************)
(* The approval requests of one page: RequestApproval, Decide and          *)
(* PublishApproved (internal/approval/store.go), each of whose statements   *)
(* is a step of its own.  Requests are numbered in the order they were made; *)
(* the latest one is the live ask (migrations/0009_approvals.sql).  Scope   *)
(* gates that refuse change nothing and are left out.                       *)
(***************************************************************************)
EXTENDS Naturals

CONSTANTS Member,       \* those who may be named as reviewers
          Handler,      \* goroutines serving a request on this page
          MaxRequests,  \* bound: approval requests made
          MaxDecisions, \* bound: decisions recorded
          MaxPublishes, \* bound: publishes that passed the check
          MaxFailures   \* bound: operations that end half-way

ASSUME ApprovalAssumption ==
    /\ MaxRequests \in Nat /\ MaxDecisions \in Nat
    /\ MaxPublishes \in Nat /\ MaxFailures \in Nat

VARIABLES
    docStatus, \* pages.doc_status
    asked,     \* approval_requests: the latest one; the ids are 1..asked
    reviewers, \* approval_requests.reviewers
    status,    \* approval_requests.status
    decision,  \* review_decisions, "none" where there is no row
    op,        \* the locals of each handler
    granted,   \* history: requests all of whose reviewers approved at once
    unseeded,  \* history: requests decided before all their rows were there
    unflipped, \* history: requests decided before RequestApproval was over
    changed,   \* history: requests on which a reviewer took a verdict back
    crossed,   \* history: an operation on one request, or a publish, met
               \* another's that was in flight or had ended half-way
    torn,      \* history: requests on which an operation ended half-way and no
               \* decision has been carried through since
    decisions, publishes, failures

rows == <<docStatus, asked, reviewers, status, decision>>
historyVars == <<granted, unseeded, unflipped, changed, crossed, torn>>
boundVars == <<decisions, publishes, failures>>
vars == <<rows, op, historyVars, boundVars>>

Id == 1..MaxRequests

DocStatus == {"draft", "in_review", "approved", "rejected", "archived"}

Verdict == {"approved", "rejected"}

ApprovalStatus == Verdict \cup {"pending"}

Opening == {"seed", "flip"}
Closing == {"closeRequest", "closePage"}

Local == [pc: {"idle", "count", "publish"} \cup Opening \cup Closing,
          id: Id \cup {0}, todo: SUBSET Member, verdict: ApprovalStatus]

At(pc, id, todo) == [pc |-> pc, id |-> id, todo |-> todo, verdict |-> "pending"]

Idle == At("idle", 0, {})

TypeOK ==
    /\ docStatus \in DocStatus
    /\ asked \in 0..MaxRequests
    /\ reviewers \in [Id -> SUBSET Member]
    /\ status \in [Id -> ApprovalStatus]
    /\ decision \in [Id -> [Member -> ApprovalStatus \cup {"none"}]]
    /\ op \in [Handler -> Local]
    /\ \A h \in Handler : op[h].pc \in Closing => op[h].verdict \in Verdict
    /\ granted \subseteq Id /\ unseeded \subseteq Id
    /\ unflipped \subseteq Id /\ changed \subseteq Id /\ torn \subseteq Id /\ crossed \in BOOLEAN
    /\ decisions \in 0..MaxDecisions /\ publishes \in 0..MaxPublishes
    /\ failures \in 0..MaxFailures

Init ==
    /\ docStatus = "draft"
    /\ asked = 0
    /\ reviewers = [id \in Id |-> {}]
    /\ status = [id \in Id |-> "pending"]
    /\ decision = [id \in Id |-> [m \in Member |-> "none"]]
    /\ op = [h \in Handler |-> Idle]
    /\ granted = {} /\ unseeded = {} /\ unflipped = {} /\ changed = {} /\ torn = {}
    /\ crossed = FALSE
    /\ decisions = 0 /\ publishes = 0 /\ failures = 0

-----------------------------------------------------------------------------
Begin(h, pc, id, todo) == op[h].pc = "idle" /\ op' = [op EXCEPT ![h] = At(pc, id, todo)]

Finish(h) == op' = [op EXCEPT ![h] = Idle]

BeingOpened(id) == \E h \in Handler : op[h].pc \in Opening /\ op[h].id = id

AllIdle == \A h \in Handler : op[h].pc = "idle"

Decided(id, d) == {m \in Member : decision[id][m] = d}

-----------------------------------------------------------------------------
(* RequestApproval *)

OpenRequest(h, S) ==
    LET id == asked + 1
    IN  /\ Begin(h, "seed", id, S)
        /\ id \in Id /\ S # {}
        /\ asked' = id
        /\ reviewers' = [reviewers EXCEPT ![id] = S]
        /\ crossed' = (crossed \/ ~AllIdle)
        /\ UNCHANGED <<docStatus, status, decision, boundVars>>
        /\ UNCHANGED <<granted, unseeded, unflipped, changed, torn>>

(* ON CONFLICT DO NOTHING: a row that is there keeps its decision. *)
SeedDecision(h, m) ==
    LET rest == op[h].todo \ {m}
    IN  /\ op[h].pc = "seed" /\ m \in op[h].todo
        /\ decision' = [decision EXCEPT ![op[h].id][m] = IF @ = "none" THEN "pending" ELSE @]
        /\ op' = [op EXCEPT ![h] = At(IF rest = {} THEN "flip" ELSE "seed", op[h].id, rest)]
        /\ UNCHANGED <<docStatus, asked, reviewers, status, historyVars, boundVars>>

FlipInReview(h) ==
    /\ op[h].pc = "flip"
    /\ docStatus' = "in_review"
    /\ Finish(h)
    /\ UNCHANGED <<asked, reviewers, status, decision, historyVars, boundVars>>

-----------------------------------------------------------------------------
(* Decide *)

(* The UPDATE matches the reviewer's own row; without one, ErrNotReviewer. *)
Decide(h, id, m, d) ==
    /\ Begin(h, "count", id, {})
    /\ decisions < MaxDecisions /\ decisions' = decisions + 1
    /\ id \in 1..asked /\ decision[id][m] # "none"
    /\ decision' = [decision EXCEPT ![id][m] = d]
    /\ granted' = granted \cup {i \in {id} : \A r \in reviewers[i] : decision'[i][r] = "approved"}
    /\ unseeded' = unseeded \cup {i \in {id} : \E r \in reviewers[i] : decision[i][r] = "none"}
    /\ unflipped' = unflipped \cup {i \in {id} : BeingOpened(i)}
    /\ changed' = changed \cup {i \in {id} : decision[i][m] \notin {"pending", d}}
    /\ crossed' = (crossed \/ id # asked)
    /\ UNCHANGED <<docStatus, asked, reviewers, status, torn, publishes, failures>>

AggregateIgnoringPending(id) ==   \* mutant: without pending == 0
    IF Decided(id, "rejected") # {} THEN "rejected"
    ELSE IF Decided(id, "approved") # {} THEN "approved" ELSE "pending"

AggregateWhenComplete(id) ==   \* mutant: a rejection waits for the others
    IF Decided(id, "pending") # {} THEN "pending"
    ELSE IF Decided(id, "rejected") # {} THEN "rejected" ELSE "approved"

AggregateAnyApproval(id) ==   \* mutant: an approval wins over a rejection
    IF Decided(id, "pending") # {} /\ Decided(id, "rejected") = {} THEN "pending"
    ELSE IF Decided(id, "approved") # {} THEN "approved" ELSE "rejected"

(* aggregate: one SELECT over the rows there are. *)
Aggregate(id) ==
    IF Decided(id, "rejected") # {} THEN "rejected"
    ELSE IF Decided(id, "pending") = {} /\ Decided(id, "approved") # {} THEN "approved"
    ELSE "pending"

CountAnyway(h) ==   \* mutant: no return while the verdict is pending
    /\ op[h].pc = "count"
    /\ op' = [op EXCEPT ![h].pc = "closeRequest", ![h].verdict = Aggregate(op[h].id)]
    /\ UNCHANGED <<rows, historyVars, boundVars>>

Count(h) ==
    LET verdict == Aggregate(op[h].id)
    IN  /\ op[h].pc = "count"
        /\ \/ verdict = "pending" /\ Finish(h)
           \/ /\ verdict # "pending"
              /\ op' = [op EXCEPT ![h].pc = "closeRequest", ![h].verdict = verdict]
        /\ UNCHANGED <<rows, historyVars, boundVars>>

CloseRequest(h) ==
    /\ op[h].pc = "closeRequest"
    /\ status' = [status EXCEPT ![op[h].id] = op[h].verdict]
    /\ op' = [op EXCEPT ![h].pc = "closePage"]
    /\ UNCHANGED <<docStatus, asked, reviewers, decision, historyVars, boundVars>>

ClosePage(h) ==
    /\ op[h].pc = "closePage"
    /\ docStatus' = op[h].verdict
    /\ torn' = torn \ {op[h].id}
    /\ Finish(h)
    /\ UNCHANGED <<asked, reviewers, status, decision, boundVars>>
    /\ UNCHANGED <<granted, unseeded, unflipped, changed, crossed>>

-----------------------------------------------------------------------------
(* PublishApproved: the check, then a write of what the check saw. *)

PublishableAnyway == TRUE   \* mutant: the check is dropped

Publishable == docStatus = "approved"

PublishCheck(h) ==
    /\ Begin(h, "publish", 0, {})
    /\ publishes < MaxPublishes /\ publishes' = publishes + 1
    /\ Publishable
    /\ crossed' = (crossed \/ \E id \in Id : BeingOpened(id) \/ id \in torn)
    /\ UNCHANGED <<rows, granted, unseeded, unflipped, changed, torn, decisions, failures>>

PublishWrite(h) ==
    /\ op[h].pc = "publish"
    /\ docStatus' = "approved"
    /\ Finish(h)
    /\ UNCHANGED <<asked, reviewers, status, decision, historyVars, boundVars>>

-----------------------------------------------------------------------------
(* A statement fails or the process dies: the operation ends where it is. *)
OperationEnds(h) ==
    /\ op[h].pc # "idle"
    /\ failures < MaxFailures /\ failures' = failures + 1
    /\ torn' = torn \cup ({op[h].id} \cap Id)
    /\ Finish(h)
    /\ UNCHANGED <<rows, granted, unseeded, unflipped, changed, crossed, decisions, publishes>>

Next ==
    \E h \in Handler :
       \/ \E S \in SUBSET Member : OpenRequest(h, S)
       \/ \E m \in Member : SeedDecision(h, m)
       \/ FlipInReview(h)
       \/ \E id \in Id, m \in Member, d \in Verdict : Decide(h, id, m, d)
       \/ Count(h) \/ CloseRequest(h) \/ ClosePage(h)
       \/ PublishCheck(h) \/ PublishWrite(h)
       \/ OperationEnds(h)

Spec == Init /\ [][Next]_vars

-----------------------------------------------------------------------------
(* What the rows of a request say, each way a review can stand. *)
Rejected(id) == \E m \in Member : decision[id][m] = "rejected"

AllApproved(id) == /\ reviewers[id] # {}
                   /\ \A m \in reviewers[id] : decision[id][m] = "approved"

AtRest(id) == id \notin torn /\ \A h \in Handler : op[h].id # id

(* A request becomes approved, and with it the page, only after all its      *)
(* reviewers stood approved at the same moment, unless somebody decided it    *)
(* before all its decisions were seeded (store.go, package comment).          *)
QuorumApproves ==
    /\ \A id \in Id : status[id] = "approved" => id \in granted \cup unseeded
    /\ docStatus = "approved" => granted \cup unseeded # {}

(* Reviewers who decide at the same moment do not leave a request open       *)
(* between them: once nothing is in flight on it, a request that a reviewer   *)
(* rejected or that all approved is closed, and if an operation on it ended   *)
(* half-way the next decision closes it (store.go Decide).                    *)
NothingLeftOpen ==
    \A id \in Id : AtRest(id) /\ (Rejected(id) \/ AllApproved(id)) => status[id] # "pending"

(* The verdict of a request is what its rows say, in whatever order the       *)
(* flips of several reviewers arrive, unless a reviewer took a verdict back   *)
(* or decided before the rows were there (store.go aggregate).               *)
VerdictStands ==
    \A id \in 1..asked \ (changed \cup unseeded) :
        AtRest(id) => status[id] = IF Rejected(id) THEN "rejected"
                                   ELSE IF AllApproved(id) THEN "approved" ELSE "pending"

(* The page shows the state of its latest request, also after a decision that *)
(* repaired a half-way one, unless operations on two requests met, somebody    *)
(* decided before the request was wholly opened or took a verdict back        *)
(* (store.go Decide, PublishApproved).                                        *)
PageFollowsLatest ==
    asked > 0 /\ ~crossed /\ asked \notin changed \cup unflipped \cup torn /\ AllIdle
        => docStatus = IF status[asked] = "pending" THEN "in_review" ELSE status[asked]

=============================================================================
