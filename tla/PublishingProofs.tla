--------------------------- MODULE PublishingProofs ---------------------------
(***************************************************************************)
(* What TLAPS proves about Publishing: about the approval of a page, for any *)
(* number of reviewers, handlers, requests, decisions and failures, about    *)
(* its issue links and its cost, for any number of issues, savers, processes, *)
(* edits and failures, and about the walk through a search's answer, for any *)
(* number of pages, scores, limits and fetch bounds.                        *)
(***************************************************************************)
EXTENDS Publishing, OrderLemmas

-----------------------------------------------------------------------------
(* Type correctness.                                                        *)

RowsTyped == /\ docStatus \in DocStatus
             /\ asked \in 0..MaxRequests
             /\ reviewers \in [Id -> SUBSET Member]
             /\ status \in [Id -> ApprovalStatus]
             /\ decision \in [Id -> [Member -> ApprovalStatus \cup {"none"}]]

(* An operation at work on a request works on one that was made, and seeds   *)
(* only rows of its reviewers.                                               *)
AtWork == {"count"} \cup Opening \cup Closing

LocalOK(o, made, revs) ==
    /\ o \in Local
    /\ o.pc \in Closing => o.verdict \in Verdict
    /\ o.pc \in AtWork => o.id \in 1..made
    /\ o.pc = "seed" => o.todo \subseteq revs[o.id]

OpsTyped == op = [h \in Handler |-> op[h]] /\ \A h \in Handler : LocalOK(op[h], asked, reviewers)

HistoryTyped == /\ granted \subseteq Id /\ unseeded \subseteq Id
                /\ unflipped \subseteq Id /\ changed \subseteq Id /\ torn \subseteq Id
                /\ crossed \in BOOLEAN

BoundTyped == /\ decisions \in 0..MaxDecisions /\ publishes \in 0..MaxPublishes
              /\ failures \in 0..MaxFailures

(* There are no rows but those of the reviewers of a request that was made.  *)
RowsMade == /\ \A id \in Id, m \in Member : decision[id][m] # "none" => m \in reviewers[id]
            /\ \A id \in Id : id > asked => reviewers[id] = {} /\ status[id] = "pending"

Typed == RowsTyped /\ OpsTyped /\ HistoryTyped /\ BoundTyped /\ RowsMade

LEMMA TypedIsTypeOK == Typed => TypeOK
<1> SUFFICES ASSUME Typed PROVE TypeOK
  OBVIOUS
<1>1. op \in [Handler -> Local]
  BY DEF Typed, OpsTyped, LocalOK
<1>2. \A h \in Handler : op[h].pc \in Closing => op[h].verdict \in Verdict
  BY DEF Typed, OpsTyped, LocalOK
<1> QED
  BY <1>1, <1>2 DEF Typed, RowsTyped, HistoryTyped, BoundTyped, TypeOK

LEMMA InitTyped == Init => Typed
<1> SUFFICES ASSUME Init PROVE Typed
  OBVIOUS
<1>1. RowsTyped
  BY ApprovalAssumption DEF Init, RowsTyped, DocStatus, ApprovalStatus
<1>4. HistoryTyped
  BY DEF Init, HistoryTyped
<1>6. BoundTyped
  BY ApprovalAssumption DEF Init, BoundTyped
<1>5. RowsMade
  BY DEF Init, RowsMade
<1>2. LocalOK(Idle, asked, reviewers)
  BY DEF LocalOK, Local, Idle, At, ApprovalStatus, AtWork, Opening, Closing
<1>3. OpsTyped
  BY <1>2 DEF Init, OpsTyped
<1> QED
  BY <1>1, <1>3, <1>4, <1>5, <1>6 DEF Typed

(* The locals stay well formed when one handler moves and requests are only  *)
(* added: what the others hold is about requests that were made already.     *)
Moved(h, o) == op' = [op EXCEPT ![h] = o]

RequestsKept == /\ asked' \in Nat /\ asked' >= asked
                /\ \A id \in 1..asked : reviewers'[id] = reviewers[id]

LEMMA NoneMade == Typed /\ UNCHANGED <<asked, reviewers>> => RequestsKept
BY ApprovalAssumption DEF RequestsKept, Typed, RowsTyped

LEMMA OneMoves ==
    ASSUME Typed, RequestsKept,
           NEW h \in Handler, NEW o, Moved(h, o), LocalOK(o, asked', reviewers')
    PROVE  OpsTyped'
<1> USE DEF Moved, RequestsKept
<1>1. op' = [g \in Handler |-> op'[g]]
  BY DEF Typed, OpsTyped
<1>2. ASSUME NEW g \in Handler PROVE LocalOK(op'[g], asked', reviewers')
  <2>1. CASE g = h
    BY <2>1 DEF Typed, OpsTyped
  <2>2. CASE g # h
    <3>1. op'[g] = op[g] /\ LocalOK(op[g], asked, reviewers)
      BY <2>2 DEF Typed, OpsTyped
    <3>2. asked \in Nat /\ 1..asked \subseteq 1..asked'
      BY ApprovalAssumption DEF Typed, RowsTyped
    <3> QED
      BY <3>1, <3>2 DEF LocalOK, AtWork, Opening, Closing
  <2> QED
    BY <2>1, <2>2
<1> QED
  BY <1>1, <1>2 DEF OpsTyped

LEMMA IdleOK == Typed => LocalOK(Idle, asked, reviewers)
BY DEF LocalOK, Local, Idle, At, ApprovalStatus, AtWork, Opening, Closing

LEMMA FinishTyped ==
    ASSUME Typed, NEW h \in Handler, Finish(h), UNCHANGED <<asked, reviewers>>
    PROVE  OpsTyped'
<1>1. Moved(h, Idle) /\ RequestsKept /\ LocalOK(Idle, asked', reviewers')
  BY NoneMade, IdleOK DEF Finish, Moved
<1> QED
  BY <1>1, OneMoves

(* Every operation starts, moves and ends within the types. *)
LEMMA TypedStep == Typed /\ [Next]_vars => Typed'
<1> SUFFICES ASSUME Typed, [Next]_vars PROVE Typed'
  OBVIOUS
<1>0. asked \in Nat /\ 1..asked \subseteq Id
  BY ApprovalAssumption DEF Typed, RowsTyped, Id
<1>1. ASSUME NEW h \in Handler, NEW revs \in SUBSET Member, OpenRequest(h, revs) PROVE Typed'
  <2>1. asked + 1 \in Id /\ asked' = asked + 1 /\ reviewers' = [reviewers EXCEPT ![asked + 1] = revs]
    BY <1>1 DEF OpenRequest
  <2>2. LocalOK(At("seed", asked + 1, revs), asked', reviewers')
    BY <1>0, <2>1 DEF LocalOK, Local, At, ApprovalStatus, AtWork, Opening, Closing, Typed, RowsTyped
  <2>3. OpsTyped'
    <3>1. RequestsKept
      BY <1>0, <2>1 DEF Typed, RowsTyped, RequestsKept
    <3>2. Moved(h, At("seed", asked + 1, revs))
      BY <1>1 DEF OpenRequest, Begin, Moved
    <3> QED
      BY <2>2, <3>1, <3>2, OneMoves
  <2>4. RowsTyped' /\ HistoryTyped' /\ BoundTyped'
    BY <1>0, <1>1, <2>1 DEF OpenRequest, boundVars, Typed, RowsTyped, HistoryTyped, BoundTyped, Id
  <2>5. RowsMade'
    BY <1>0, <1>1, <2>1 DEF OpenRequest, Typed, RowsTyped, RowsMade, Id
  <2> QED
    BY <2>3, <2>4, <2>5 DEF Typed
<1>2. ASSUME NEW h \in Handler, NEW m \in Member, SeedDecision(h, m) PROVE Typed'
  <2> DEFINE rest == op[h].todo \ {m}
             o == At(IF rest = {} THEN "flip" ELSE "seed", op[h].id, rest)
  <2>1. /\ LocalOK(op[h], asked, reviewers) /\ op[h].pc = "seed" /\ m \in op[h].todo
        /\ Moved(h, o)
    BY <1>2 DEF SeedDecision, Typed, OpsTyped, Moved
  <2>2. op[h].id \in 1..asked /\ m \in reviewers[op[h].id] /\ rest \subseteq reviewers[op[h].id]
    BY <2>1 DEF LocalOK, AtWork, Opening
  <2>3. LocalOK(o, asked, reviewers)
    BY <2>1, <2>2, <1>0 DEF LocalOK, Local, At, ApprovalStatus, AtWork, Opening, Closing
  <2>4. OpsTyped'
    <3>1. UNCHANGED <<asked, reviewers>>
      BY <1>2 DEF SeedDecision
    <3>2. RequestsKept /\ LocalOK(o, asked', reviewers')
      BY <2>3, <3>1, NoneMade
    <3> HIDE DEF o
    <3> QED
      BY <2>1, <3>2, OneMoves
  <2>5. RowsTyped' /\ HistoryTyped' /\ BoundTyped'
    BY <1>2, <2>2, <1>0 DEF SeedDecision, historyVars, boundVars, Typed, RowsTyped,
                            HistoryTyped, BoundTyped, ApprovalStatus
  <2>6. RowsMade'
    BY <1>2, <2>2, <1>0 DEF SeedDecision, Typed, RowsTyped, RowsMade
  <2> QED
    BY <2>4, <2>5, <2>6 DEF Typed
<1>3. ASSUME NEW h \in Handler, FlipInReview(h) PROVE Typed'
  BY <1>3, FinishTyped
  DEF FlipInReview, historyVars, boundVars, Typed, RowsTyped, HistoryTyped, BoundTyped, RowsMade, DocStatus
<1>4. ASSUME NEW h \in Handler, NEW id \in Id, NEW m \in Member, NEW d \in Verdict,
             Decide(h, id, m, d)
      PROVE  Typed'
  <2>1. LocalOK(At("count", id, {}), asked, reviewers)
    BY <1>4 DEF Decide, LocalOK, Local, At, ApprovalStatus, AtWork, Opening, Closing
  <2>2. OpsTyped'
    <3>1. UNCHANGED <<asked, reviewers>> /\ Moved(h, At("count", id, {}))
      BY <1>4 DEF Decide, Begin, Moved
    <3>2. RequestsKept /\ LocalOK(At("count", id, {}), asked', reviewers')
      BY <2>1, <3>1, NoneMade
    <3> QED
      BY <3>1, <3>2, OneMoves
  <2>3. RowsTyped' /\ RowsMade'
    BY <1>4 DEF Decide, Typed, RowsTyped, RowsMade, ApprovalStatus
  <2>4. HistoryTyped'
    BY <1>4 DEF Decide, Typed, HistoryTyped
  <2>5. BoundTyped'
    BY <1>4, ApprovalAssumption DEF Decide, Typed, BoundTyped
  <2> QED
    BY <2>2, <2>3, <2>4, <2>5 DEF Typed
<1>5. ASSUME NEW h \in Handler, Count(h) PROVE Typed'
  <2>1. RowsTyped' /\ HistoryTyped' /\ BoundTyped' /\ RowsMade' /\ UNCHANGED <<asked, reviewers>>
    BY <1>5 DEF Count, rows, historyVars, boundVars, Typed, RowsTyped, HistoryTyped, BoundTyped, RowsMade
  <2>2. CASE Finish(h)
    BY <2>1, <2>2, FinishTyped DEF Typed
  <2>3. CASE ~Finish(h)
    <3> DEFINE v == Aggregate(op[h].id)
    <3>1. v \in Verdict /\ op[h].pc = "count" /\ LocalOK(op[h], asked, reviewers)
      BY <1>5, <2>3 DEF Count, Aggregate, Verdict, Typed, OpsTyped
    <3> DEFINE o == [op[h] EXCEPT !.pc = "closeRequest", !.verdict = v]
    <3>2. Moved(h, o)
      BY <1>5, <2>3 DEF Count, Moved
    <3> HIDE DEF v
    <3>3. LocalOK(o, asked, reviewers)
      BY <3>1 DEF LocalOK, Local, AtWork, Opening, Closing, Verdict, ApprovalStatus
    <3>4. RequestsKept /\ LocalOK(o, asked', reviewers')
      BY <2>1, <3>3, NoneMade
    <3> HIDE DEF o
    <3>5. OpsTyped'
      BY <3>2, <3>4, OneMoves
    <3> QED
      BY <2>1, <3>5 DEF Typed
  <2> QED
    BY <2>2, <2>3
<1>6. ASSUME NEW h \in Handler, CloseRequest(h) PROVE Typed'
  <2>1. LocalOK(op[h], asked, reviewers) /\ op[h].pc = "closeRequest"
    BY <1>6 DEF CloseRequest, Typed, OpsTyped
  <2> DEFINE o == [op[h] EXCEPT !.pc = "closePage"]
  <2>2. LocalOK(o, asked, reviewers)
    BY <2>1 DEF LocalOK, Local, AtWork, Opening, Closing, Verdict, ApprovalStatus
  <2>3. Moved(h, o) /\ UNCHANGED <<asked, reviewers>>
    BY <1>6 DEF CloseRequest, Moved
  <2>4. OpsTyped'
    <3>1. RequestsKept /\ LocalOK(o, asked', reviewers')
      BY <2>2, <2>3, NoneMade
    <3> HIDE DEF o
    <3> QED
      BY <2>3, <3>1, OneMoves
  <2>5. op[h].id \in 1..asked /\ op[h].verdict \in ApprovalStatus
    BY <2>1 DEF LocalOK, AtWork, Closing, Verdict, ApprovalStatus
  <2>6. RowsTyped' /\ RowsMade' /\ HistoryTyped' /\ BoundTyped'
    BY <1>0, <1>6, <2>5 DEF CloseRequest, historyVars, boundVars, Typed, RowsTyped, RowsMade,
                            HistoryTyped, BoundTyped
  <2> QED
    BY <2>4, <2>6 DEF Typed
<1>7. ASSUME NEW h \in Handler, ClosePage(h) PROVE Typed'
  <2>1. op[h].verdict \in Verdict
    BY <1>7 DEF ClosePage, Typed, OpsTyped, LocalOK, Closing
  <2> QED
    BY <1>7, <2>1, FinishTyped
    DEF ClosePage, historyVars, boundVars, Typed, RowsTyped, HistoryTyped, BoundTyped, RowsMade,
        DocStatus, Verdict
<1>8. ASSUME NEW h \in Handler, PublishCheck(h) PROVE Typed'
  <2>1. LocalOK(At("publish", 0, {}), asked, reviewers)
    BY DEF LocalOK, Local, At, ApprovalStatus, AtWork, Opening, Closing
  <2>2. OpsTyped'
    <3>1. UNCHANGED <<asked, reviewers>> /\ Moved(h, At("publish", 0, {}))
      BY <1>8 DEF PublishCheck, Begin, Moved, rows
    <3>2. RequestsKept /\ LocalOK(At("publish", 0, {}), asked', reviewers')
      BY <2>1, <3>1, NoneMade
    <3> QED
      BY <3>1, <3>2, OneMoves
  <2> QED
    BY <1>8, <2>2, ApprovalAssumption
    DEF PublishCheck, rows, Typed, RowsTyped, HistoryTyped, BoundTyped, RowsMade
<1>9. ASSUME NEW h \in Handler, PublishWrite(h) PROVE Typed'
  BY <1>9, FinishTyped
  DEF PublishWrite, historyVars, boundVars, Typed, RowsTyped, HistoryTyped, BoundTyped, RowsMade, DocStatus
<1>10. ASSUME NEW h \in Handler, OperationEnds(h) PROVE Typed'
  BY <1>10, FinishTyped, ApprovalAssumption
  DEF OperationEnds, rows, historyVars, Typed, RowsTyped, HistoryTyped, BoundTyped, RowsMade
<1>11. CASE UNCHANGED vars
  BY <1>11 DEF vars, rows, historyVars, boundVars, Typed, RowsTyped, OpsTyped, HistoryTyped,
               BoundTyped, RowsMade
<1> QED
  BY <1>1, <1>2, <1>3, <1>4, <1>5, <1>6, <1>7, <1>8, <1>9, <1>10, <1>11 DEF Next

(* The rows of internal/approval hold only statuses and members the code     *)
(* knows, and a closing verdict is never "pending".                          *)
THEOREM ApprovalTypeCorrect == Spec => []TypeOK
<1>1. Spec => []Typed
  BY InitTyped, TypedStep, PTL DEF Spec
<1> QED
  BY <1>1, TypedIsTypeOK, PTL

-----------------------------------------------------------------------------
(* The quorum.                                                              *)

Missing(id) == \E r \in reviewers[id] : decision[id][r] = "none"

Excused == granted \cup unseeded

(* Somebody who counts while a row is missing decided while it was missing;   *)
(* and the approval that completes a quorum is recorded as it happens.        *)
CountersSaw == \A h \in Handler :
                  op[h].pc = "count" /\ Missing(op[h].id) => op[h].id \in unseeded

QuorumRecorded == \A id \in Id : AllApproved(id) => id \in granted

ApprovalsInHand == \A h \in Handler :
                      /\ op[h].pc \in Closing /\ op[h].verdict = "approved" => op[h].id \in Excused
                      /\ op[h].pc = "publish" => Excused # {}

Quorum == CountersSaw /\ QuorumRecorded /\ ApprovalsInHand /\ QuorumApproves

LEMMA RowsSame ==
    UNCHANGED <<reviewers, decision>> =>
        \A id \in Id : /\ Rejected(id)' = Rejected(id) /\ AllApproved(id)' = AllApproved(id)
                       /\ Missing(id)' = Missing(id)
BY DEF Rejected, AllApproved, Missing

(* Only the handler that moves has new locals.                               *)
LEMMA OthersKept ==
    ASSUME Typed, NEW h \in Handler, NEW o, Moved(h, o)
    PROVE  op'[h] = o /\ \A g \in Handler : g # h => op'[g] = op[g]
BY DEF Typed, OpsTyped, Moved

LEMMA IdsMade == Typed => \A h \in Handler : op[h].pc \in AtWork => op[h].id \in Id
BY ApprovalAssumption DEF Typed, RowsTyped, OpsTyped, LocalOK, Id

(* Steps that touch neither the rows of the reviewers nor the history.        *)
QuietRows == UNCHANGED <<reviewers, decision, granted, unseeded>>

LEMMA QuorumQuiet ==
    ASSUME Typed, Quorum, QuietRows, NEW h \in Handler, NEW o, Moved(h, o),
           o.pc # "count",
           o.pc \in Closing /\ o.verdict = "approved" => o.id \in Excused,
           o.pc = "publish" => Excused # {},
           \A id \in Id : status'[id] = "approved" => id \in Excused,
           docStatus' = "approved" => Excused # {}
    PROVE  Quorum'
<1>1. op'[h] = o /\ \A g \in Handler : g # h => op'[g] = op[g]
  BY OthersKept
<1>2. Excused' = Excused
  BY DEF QuietRows, Excused
<1>3. CountersSaw'
  BY <1>1, IdsMade, RowsSame DEF QuietRows, Quorum, CountersSaw, AtWork
<1>4. QuorumRecorded'
  BY RowsSame DEF QuietRows, Quorum, QuorumRecorded
<1>5. ApprovalsInHand'
  BY <1>1, <1>2 DEF Quorum, ApprovalsInHand
<1>6. QuorumApproves'
  BY <1>2 DEF Quorum, QuorumApproves, Excused
<1> QED
  BY <1>3, <1>4, <1>5, <1>6 DEF Quorum

LEMMA QuorumStep == Typed /\ Quorum /\ [Next]_vars => Quorum'
<1> SUFFICES ASSUME Typed, Quorum, [Next]_vars PROVE Quorum'
  OBVIOUS
<1>0. /\ \A id \in Id : status[id] = "approved" => id \in Excused
      /\ docStatus = "approved" => Excused # {}
  BY DEF Quorum, QuorumApproves, Excused
<1>1. ASSUME NEW h \in Handler, NEW revs \in SUBSET Member, OpenRequest(h, revs) PROVE Quorum'
  <2>1. /\ asked + 1 \in Id /\ asked + 1 > asked
        /\ Moved(h, At("seed", asked + 1, revs)) /\ revs # {}
        /\ reviewers' = [reviewers EXCEPT ![asked + 1] = revs]
        /\ UNCHANGED <<docStatus, status, decision, granted, unseeded>>
    BY <1>1, ApprovalAssumption DEF OpenRequest, Begin, Moved, Typed, RowsTyped
  <2>2. \A id \in Id \ {asked + 1} : reviewers'[id] = reviewers[id]
    BY <2>1 DEF Typed, RowsTyped
  <2>3. reviewers'[asked + 1] = revs /\ revs \subseteq Member /\ \A m \in Member : decision[asked + 1][m] = "none"
    BY <2>1 DEF Typed, RowsTyped, RowsMade
  <2>4. op'[h] = At("seed", asked + 1, revs) /\ \A g \in Handler : g # h => op'[g] = op[g]
    BY <2>1, OthersKept
  <2>5. \A g \in Handler : op[g].pc \in AtWork => op[g].id \in Id \ {asked + 1}
    BY ApprovalAssumption DEF Typed, RowsTyped, OpsTyped, LocalOK, Id
  <2>6. CountersSaw'
    BY <2>1, <2>2, <2>4, <2>5 DEF Quorum, CountersSaw, Missing, At, AtWork
  <2>7. QuorumRecorded'
    BY <2>1, <2>2, <2>3 DEF Quorum, QuorumRecorded, AllApproved
  <2>8. ApprovalsInHand' /\ QuorumApproves'
    BY <2>1, <2>4 DEF Quorum, ApprovalsInHand, QuorumApproves, Excused, At, Closing
  <2> QED
    BY <2>6, <2>7, <2>8 DEF Quorum
<1>2. ASSUME NEW h \in Handler, NEW m \in Member, SeedDecision(h, m) PROVE Quorum'
  <2> DEFINE rest == op[h].todo \ {m}
             o == At(IF rest = {} THEN "flip" ELSE "seed", op[h].id, rest)
  <2>1. /\ op[h].pc = "seed" /\ m \in op[h].todo /\ op[h].id \in Id /\ m \in reviewers[op[h].id]
        /\ Moved(h, o) /\ o.pc \in Opening
    BY <1>2, ApprovalAssumption
    DEF SeedDecision, Typed, RowsTyped, OpsTyped, LocalOK, Moved, AtWork, Opening, At, Id
  <2> HIDE DEF o
  <2>2. op'[h] = o /\ \A g \in Handler : g # h => op'[g] = op[g]
    BY <2>1, OthersKept
  <2>3. /\ UNCHANGED <<docStatus, reviewers, status, granted, unseeded>>
        /\ \A id \in Id, r \in Member :
              decision'[id][r] = IF id = op[h].id /\ r = m /\ decision[id][r] = "none"
                                 THEN "pending" ELSE decision[id][r]
    BY <1>2, <2>1 DEF SeedDecision, historyVars, Typed, RowsTyped
  <2>4. \A id \in Id : (Missing(id)' => Missing(id)) /\ (AllApproved(id)' => AllApproved(id))
    BY <2>1, <2>3 DEF Missing, AllApproved, Typed, RowsTyped
  <2>5. CountersSaw'
    BY <2>1, <2>2, <2>3, <2>4, IdsMade DEF Quorum, CountersSaw, AtWork, Opening
  <2>6. QuorumRecorded'
    BY <2>3, <2>4 DEF Quorum, QuorumRecorded
  <2>7. ApprovalsInHand' /\ QuorumApproves'
    BY <2>1, <2>2, <2>3 DEF Quorum, ApprovalsInHand, QuorumApproves, Excused, Opening, Closing
  <2> QED
    BY <2>5, <2>6, <2>7 DEF Quorum
<1>3. ASSUME NEW h \in Handler, FlipInReview(h) PROVE Quorum'
  <2>1. QuietRows /\ Moved(h, Idle) /\ status' = status /\ docStatus' = "in_review"
    BY <1>3 DEF FlipInReview, QuietRows, Finish, Moved, historyVars
  <2> QED
    BY <1>0, <2>1, QuorumQuiet DEF Idle, At, Closing
<1>4. ASSUME NEW h \in Handler, NEW id \in Id, NEW m \in Member, NEW d \in Verdict,
             Decide(h, id, m, d)
      PROVE  Quorum'
  <2>1. /\ Moved(h, At("count", id, {})) /\ UNCHANGED <<docStatus, reviewers, status>>
        /\ decision[id][m] # "none"
        /\ \A i \in Id, r \in Member :
              decision'[i][r] = IF i = id /\ r = m THEN d ELSE decision[i][r]
        /\ granted' = granted \cup {i \in {id} : \A r \in reviewers[i] : decision'[i][r] = "approved"}
        /\ unseeded' = unseeded \cup {i \in {id} : \E r \in reviewers[i] : decision[i][r] = "none"}
    BY <1>4 DEF Decide, Begin, Moved, Typed, RowsTyped
  <2>2. op'[h] = At("count", id, {}) /\ \A g \in Handler : g # h => op'[g] = op[g]
    BY <2>1, OthersKept
  <2>3. /\ \A i \in Id : Missing(i)' => Missing(i)
        /\ Missing(id) => id \in unseeded'
    BY <2>1 DEF Missing, Typed, RowsTyped, Verdict
  <2>4. granted \subseteq granted' /\ unseeded \subseteq unseeded' /\ Excused \subseteq Excused'
    BY <2>1 DEF Excused
  <2>5. CountersSaw'
    BY <2>2, <2>3, <2>4, IdsMade DEF Quorum, CountersSaw, At, AtWork
  <2>6. QuorumRecorded'
    <3>1. \A i \in Id : i # id /\ AllApproved(i)' => AllApproved(i)
      BY <2>1 DEF AllApproved, Typed, RowsTyped
    <3>2. AllApproved(id)' => id \in granted'
      BY <2>1 DEF AllApproved
    <3> QED
      BY <2>4, <3>1, <3>2 DEF Quorum, QuorumRecorded
  <2>7. ApprovalsInHand'
    BY <2>2, <2>4 DEF Quorum, ApprovalsInHand, At, Closing
  <2>8. QuorumApproves'
    BY <1>0, <2>1, <2>4 DEF QuorumApproves, Excused
  <2> QED
    BY <2>5, <2>6, <2>7, <2>8 DEF Quorum
<1>5. ASSUME NEW h \in Handler, Count(h) PROVE Quorum'
  <2> DEFINE v == Aggregate(op[h].id)
             o == [op[h] EXCEPT !.pc = "closeRequest", !.verdict = v]
  <2>1. QuietRows /\ UNCHANGED <<docStatus, status>> /\ op[h].pc = "count" /\ op[h].id \in Id
    BY <1>5, IdsMade DEF Count, QuietRows, rows, historyVars, AtWork
  <2>2. CASE Finish(h)
    <3>1. Moved(h, Idle)
      BY <2>2 DEF Finish, Moved
    <3> QED
      BY <1>0, <2>1, <3>1, QuorumQuiet DEF Idle, At, Closing
  <2>3. CASE ~Finish(h)
    <3>1. Moved(h, o) /\ v # "pending"
      BY <1>5, <2>3 DEF Count, Moved
    <3>2. v = "approved" => op[h].id \in Excused
      <4>1. SUFFICES ASSUME v = "approved", op[h].id \notin unseeded
                     PROVE  op[h].id \in granted
        BY DEF Excused
      <4>2. /\ \A m \in Member : decision[op[h].id][m] \notin {"rejected", "pending"}
            /\ \E m \in Member : decision[op[h].id][m] = "approved"
        BY <4>1 DEF Aggregate, Decided
      <4>3. ~Missing(op[h].id)
        BY <2>1, <4>1 DEF Quorum, CountersSaw
      <4>4. AllApproved(op[h].id)
        BY <2>1, <4>2, <4>3 DEF AllApproved, Missing, Typed, RowsTyped, RowsMade, ApprovalStatus, Verdict
      <4> QED
        BY <2>1, <4>4 DEF Quorum, QuorumRecorded
    <3>3. op[h] \in Local
      BY DEF Typed, OpsTyped, LocalOK
    <3> HIDE DEF v
    <3>4. o.pc = "closeRequest" /\ o.verdict = v /\ o.id = op[h].id
      BY <3>3 DEF Local
    <3> HIDE DEF o
    <3> QED
      BY <1>0, <2>1, <3>1, <3>2, <3>4, QuorumQuiet DEF Closing
  <2> QED
    BY <2>2, <2>3
<1>6. ASSUME NEW h \in Handler, CloseRequest(h) PROVE Quorum'
  <2> DEFINE o == [op[h] EXCEPT !.pc = "closePage"]
  <2>1. QuietRows /\ Moved(h, o) /\ docStatus' = docStatus
    BY <1>6 DEF CloseRequest, QuietRows, Moved, historyVars
  <2>2. op[h].pc = "closeRequest" /\ op[h] \in Local /\ op[h].id \in Id
    BY <1>6, IdsMade DEF CloseRequest, Typed, OpsTyped, LocalOK, AtWork, Closing
  <2>3. o.pc = "closePage" /\ o.verdict = op[h].verdict /\ o.id = op[h].id
    BY <2>2 DEF Local
  <2>4. op[h].verdict = "approved" => op[h].id \in Excused
    BY <2>2 DEF Quorum, ApprovalsInHand, Closing
  <2>5. \A id \in Id : status'[id] = "approved" => id \in Excused
    BY <1>0, <1>6, <2>4 DEF CloseRequest, Typed, RowsTyped
  <2> HIDE DEF o
  <2> QED
    BY <1>0, <2>1, <2>3, <2>4, <2>5, QuorumQuiet DEF Closing
<1>7. ASSUME NEW h \in Handler, ClosePage(h) PROVE Quorum'
  <2>1. QuietRows /\ Moved(h, Idle) /\ status' = status /\ docStatus' = op[h].verdict
        /\ op[h].pc = "closePage"
    BY <1>7 DEF ClosePage, QuietRows, Finish, Moved, historyVars
  <2>2. docStatus' = "approved" => Excused # {}
    BY <2>1 DEF Quorum, ApprovalsInHand, Closing
  <2> QED
    BY <1>0, <2>1, <2>2, QuorumQuiet DEF Idle, At, Closing
<1>8. ASSUME NEW h \in Handler, PublishCheck(h) PROVE Quorum'
  <2>1. QuietRows /\ Moved(h, At("publish", 0, {})) /\ UNCHANGED <<docStatus, status>>
        /\ docStatus = "approved"
    BY <1>8 DEF PublishCheck, Publishable, Begin, QuietRows, Moved, rows
  <2> QED
    BY <1>0, <2>1, QuorumQuiet DEF At, Closing
<1>9. ASSUME NEW h \in Handler, PublishWrite(h) PROVE Quorum'
  <2>1. QuietRows /\ Moved(h, Idle) /\ status' = status /\ op[h].pc = "publish"
    BY <1>9 DEF PublishWrite, QuietRows, Finish, Moved, historyVars
  <2>2. Excused # {}
    BY <2>1 DEF Quorum, ApprovalsInHand
  <2> QED
    BY <1>0, <2>1, <2>2, QuorumQuiet DEF Idle, At, Closing
<1>10. ASSUME NEW h \in Handler, OperationEnds(h) PROVE Quorum'
  <2>1. QuietRows /\ Moved(h, Idle) /\ UNCHANGED <<docStatus, status>>
    BY <1>10 DEF OperationEnds, QuietRows, Finish, Moved, rows, historyVars
  <2> QED
    BY <1>0, <2>1, QuorumQuiet DEF Idle, At, Closing
<1>11. CASE UNCHANGED vars
  BY <1>11 DEF vars, rows, historyVars, Quorum, CountersSaw, QuorumRecorded, ApprovalsInHand,
               QuorumApproves, Missing, AllApproved, Excused
<1> QED
  BY <1>1, <1>2, <1>3, <1>4, <1>5, <1>6, <1>7, <1>8, <1>9, <1>10, <1>11 DEF Next

(* A request, and with it its page, is approved only after all its reviewers   *)
(* stood approved at once, except where somebody decided before all the rows   *)
(* of the request were seeded (approval Decide, aggregate, PublishApproved).   *)
THEOREM ApprovedByQuorum == Spec => []QuorumApproves
<1>1. Init => Quorum
  BY DEF Init, Quorum, CountersSaw, QuorumRecorded, ApprovalsInHand, QuorumApproves, AllApproved,
         Idle, At, Closing
<1>2. Spec => [](Typed /\ Quorum)
  BY <1>1, InitTyped, TypedStep, QuorumStep, PTL DEF Spec
<1>3. Typed /\ Quorum => QuorumApproves
  BY DEF Quorum
<1> QED
  BY <1>2, <1>3, PTL

-----------------------------------------------------------------------------
(* The verdict of a request.                                                *)

(* Whoever made the rows decisive, or somebody after him, is still at work.   *)
SomebodyCloses ==
    \A id \in Id \ torn : (Rejected(id) \/ AllApproved(id)) /\ status[id] = "pending" =>
        \E h \in Handler : op[h].id = id /\ op[h].pc \in {"count", "closeRequest"}

(* The page is closed after its request.                                      *)
RequestFirst ==
    \A h \in Handler : op[h].pc = "closePage" => status[op[h].id] # "pending"

(* What a closing operation, or the request, says is still so in the rows.    *)
Says(id, verdict) == /\ verdict = "rejected" => Rejected(id)
                     /\ verdict = "approved" => AllApproved(id)

VerdictsHold ==
    \A id \in Id \ (changed \cup unseeded) :
        /\ Says(id, status[id])
        /\ \A h \in Handler : op[h].pc \in Closing /\ op[h].id = id => Says(id, op[h].verdict)

VerdictInv == SomebodyCloses /\ RequestFirst /\ VerdictsHold

(* Steps after which one handler is past counting and closing, and nothing     *)
(* else about a verdict has changed.                                           *)
LEMMA VerdictQuiet ==
    ASSUME Typed, VerdictInv, UNCHANGED <<reviewers, decision, status, changed, unseeded>>,
           NEW h \in Handler, NEW o, Moved(h, o), o.pc \notin Closing,
           \/ op[h].pc \notin {"count", "closeRequest"}
           \/ op[h].id \in torn'
           \/ op[h].pc = "count" /\ Aggregate(op[h].id) = "pending",
           \A id \in Id : id \in torn /\ id \notin torn' => status[id] # "pending"
    PROVE  VerdictInv'
<1>1. op'[h] = o /\ \A g \in Handler : g # h => op'[g] = op[g]
  BY OthersKept
<1>2. \A id \in Id : Rejected(id)' = Rejected(id) /\ AllApproved(id)' = AllApproved(id)
  BY RowsSame
<1>3. VerdictsHold'
  BY <1>1, <1>2 DEF VerdictInv, VerdictsHold, Says, Closing, Rejected, AllApproved
<1>4. ASSUME NEW id \in Id \ torn', Rejected(id) \/ AllApproved(id), status[id] = "pending"
      PROVE  \E g \in Handler : op'[g].id = id /\ op'[g].pc \in {"count", "closeRequest"}
  <2>1. PICK g \in Handler : op[g].id = id /\ op[g].pc \in {"count", "closeRequest"}
    BY <1>4 DEF VerdictInv, SomebodyCloses
  <2>2. Aggregate(id) # "pending"
    BY <1>4 DEF Aggregate, Decided, Rejected, AllApproved, Typed, RowsTyped, RowsMade
  <2>3. g # h
    BY <1>4, <2>1, <2>2
  <2> QED
    BY <1>1, <2>1, <2>3
<1>5. SomebodyCloses'
  BY <1>2, <1>4 DEF SomebodyCloses
<1>6. RequestFirst'
  BY <1>1 DEF VerdictInv, RequestFirst, Closing
<1> QED
  BY <1>3, <1>5, <1>6 DEF VerdictInv

(* The rows of a request that nobody excuses change towards a verdict only.    *)
LEMMA VerdictStep == Typed /\ Quorum /\ VerdictInv /\ [Next]_vars => VerdictInv'
<1> SUFFICES ASSUME Typed, Quorum, VerdictInv, [Next]_vars PROVE VerdictInv'
  OBVIOUS
<1>1. ASSUME NEW h \in Handler, NEW revs \in SUBSET Member, OpenRequest(h, revs) PROVE VerdictInv'
  <2>0. PICK id \in Id : id = asked + 1
    BY <1>1 DEF OpenRequest
  <2>1. /\ id > asked /\ revs # {}
        /\ Moved(h, At("seed", id, revs)) /\ op[h].pc = "idle"
        /\ reviewers' = [reviewers EXCEPT ![id] = revs]
        /\ UNCHANGED <<status, decision, changed, unseeded, torn>>
    BY <1>1, <2>0, ApprovalAssumption DEF OpenRequest, Begin, Moved, Typed, RowsTyped, boundVars
  <2>2. op'[h] = At("seed", id, revs) /\ \A g \in Handler : g # h => op'[g] = op[g]
    BY <2>1, OthersKept
  <2>3. /\ status[id] = "pending" /\ reviewers'[id] = revs /\ revs \subseteq Member
        /\ \A m \in Member : decision[id][m] = "none"
    BY <2>1 DEF Typed, RowsTyped, RowsMade
  <2>4. ~Rejected(id)' /\ ~AllApproved(id)'
    BY <2>1, <2>3 DEF Rejected, AllApproved
  <2>5. \A i \in Id \ {id} : /\ Rejected(i)' = Rejected(i)
                              /\ AllApproved(i)' = AllApproved(i)
    BY <2>1 DEF Rejected, AllApproved, Typed, RowsTyped
  <2>6. \A g \in Handler : op[g].pc \in Closing => op[g].id \in Id \ {id}
    BY <2>0, ApprovalAssumption DEF Typed, RowsTyped, OpsTyped, LocalOK, AtWork, Id
  <2>7. SomebodyCloses'
    BY <2>1, <2>2, <2>4, <2>5 DEF VerdictInv, SomebodyCloses
  <2>8. VerdictsHold'
    BY <2>1, <2>2, <2>3, <2>5, <2>6
    DEF VerdictInv, VerdictsHold, Says, Closing, At, Rejected, AllApproved
  <2>9. RequestFirst'
    BY <2>1, <2>2 DEF VerdictInv, RequestFirst, At
  <2> QED
    BY <2>7, <2>8, <2>9 DEF VerdictInv
<1>2. ASSUME NEW h \in Handler, NEW m \in Member, SeedDecision(h, m) PROVE VerdictInv'
  <2> DEFINE rest == op[h].todo \ {m}
             o == At(IF rest = {} THEN "flip" ELSE "seed", op[h].id, rest)
  <2>1. /\ op[h].pc = "seed" /\ op[h].id \in Id /\ m \in reviewers[op[h].id]
        /\ Moved(h, o) /\ o.pc \in Opening
        /\ UNCHANGED <<reviewers, status, changed, unseeded, torn>>
    BY <1>2, ApprovalAssumption
    DEF SeedDecision, Typed, RowsTyped, OpsTyped, LocalOK, Moved, AtWork, Opening, At, Id,
        historyVars, boundVars
  <2> HIDE DEF o
  <2>2. op'[h] = o /\ \A g \in Handler : g # h => op'[g] = op[g]
    BY <2>1, OthersKept
  <2>3. \A id \in Id, r \in Member :
            decision'[id][r] = IF id = op[h].id /\ r = m /\ decision[id][r] = "none"
                               THEN "pending" ELSE decision[id][r]
    BY <1>2, <2>1 DEF SeedDecision, Typed, RowsTyped
  <2>4. \A id \in Id : Rejected(id)' = Rejected(id) /\ AllApproved(id)' = AllApproved(id)
    BY <2>1, <2>3 DEF Rejected, AllApproved, Typed, RowsTyped
  <2>5. SomebodyCloses'
    BY <2>1, <2>2, <2>4 DEF VerdictInv, SomebodyCloses
  <2>6. VerdictsHold'
    BY <2>1, <2>2, <2>4 DEF VerdictInv, VerdictsHold, Says, Opening, Closing, Rejected, AllApproved
  <2>7. RequestFirst'
    BY <2>1, <2>2 DEF VerdictInv, RequestFirst, Opening
  <2> QED
    BY <2>5, <2>6, <2>7 DEF VerdictInv
<1>3. ASSUME NEW h \in Handler, FlipInReview(h) PROVE VerdictInv'
  <2>1. /\ UNCHANGED <<reviewers, decision, status, changed, unseeded, torn>>
        /\ Moved(h, Idle) /\ op[h].pc = "flip"
    BY <1>3 DEF FlipInReview, Finish, Moved, historyVars, boundVars
  <2> QED
    BY <2>1, VerdictQuiet DEF Idle, At, Closing
<1>4. ASSUME NEW h \in Handler, NEW id \in Id, NEW m \in Member, NEW d \in Verdict,
             Decide(h, id, m, d)
      PROVE  VerdictInv'
  <2>1. /\ Moved(h, At("count", id, {})) /\ op[h].pc = "idle"
        /\ UNCHANGED <<reviewers, status, torn>>
        /\ \A i \in Id, r \in Member :
              decision'[i][r] = IF i = id /\ r = m THEN d ELSE decision[i][r]
        /\ unseeded \subseteq unseeded'
        /\ changed' = changed \cup {i \in {id} : decision[i][m] \notin {"pending", d}}
    BY <1>4 DEF Decide, Begin, Moved, Typed, RowsTyped
  <2>2. op'[h] = At("count", id, {}) /\ \A g \in Handler : g # h => op'[g] = op[g]
    BY <2>1, OthersKept
  <2>3. \A i \in Id : i # id => Rejected(i)' = Rejected(i) /\ AllApproved(i)' = AllApproved(i)
    BY <2>1 DEF Rejected, AllApproved, Typed, RowsTyped
  <2>4. id \notin changed' => (Rejected(id) => Rejected(id)') /\ (AllApproved(id) => AllApproved(id)')
    BY <1>4, <2>1
    DEF Decide, Rejected, AllApproved, Typed, RowsTyped, RowsMade, Verdict
  <2>5. SomebodyCloses'
    BY <2>1, <2>2, <2>3 DEF VerdictInv, SomebodyCloses, At
  <2>6. VerdictsHold'
    <3> SUFFICES ASSUME NEW i \in Id \ (changed' \cup unseeded')
                 PROVE  /\ Says(i, status[i])'
                        /\ \A g \in Handler : op'[g].pc \in Closing /\ op'[g].id = i
                                => Says(i, op[g].verdict)' /\ op'[g] = op[g]
      BY <2>1 DEF VerdictsHold, Says
    <3>1. i \in Id \ (changed \cup unseeded)
      BY <2>1
    <3>2. (Rejected(i) => Rejected(i)') /\ (AllApproved(i) => AllApproved(i)')
      BY <2>3, <2>4
    <3>3. Says(i, status[i])'
      BY <2>1, <3>1, <3>2 DEF VerdictInv, VerdictsHold, Says
    <3>4. ASSUME NEW g \in Handler, op'[g].pc \in Closing, op'[g].id = i
          PROVE  Says(i, op[g].verdict)' /\ op'[g] = op[g]
      <4>1. op'[g] = op[g]
        BY <2>2, <3>4 DEF At, Closing
      <4>2. Says(i, op[g].verdict)
        BY <3>1, <3>4, <4>1 DEF VerdictInv, VerdictsHold
      <4> QED
        BY <3>2, <4>1, <4>2 DEF Says
    <3> QED
      BY <3>3, <3>4
  <2>7. RequestFirst'
    BY <2>1, <2>2 DEF VerdictInv, RequestFirst, At
  <2> QED
    BY <2>5, <2>6, <2>7 DEF VerdictInv
<1>5. ASSUME NEW h \in Handler, Count(h) PROVE VerdictInv'
  <2> DEFINE v == Aggregate(op[h].id)
             o == [op[h] EXCEPT !.pc = "closeRequest", !.verdict = v]
  <2>1. /\ UNCHANGED <<reviewers, decision, status, changed, unseeded, torn>>
        /\ op[h].pc = "count" /\ op[h].id \in Id /\ op[h] \in Local
    BY <1>5, IdsMade DEF Count, rows, historyVars, boundVars, AtWork, Typed, OpsTyped, LocalOK
  <2>2. CASE v = "pending"
    <3>1. Moved(h, Idle)
      BY <1>5, <2>2 DEF Count, Finish, Moved
    <3> QED
      BY <2>1, <2>2, <3>1, VerdictQuiet DEF Idle, At, Closing
  <2>3. CASE v # "pending"
    <3>1. Moved(h, o)
      BY <1>5, <2>3 DEF Count, Moved
    <3> HIDE DEF v
    <3>2. o.pc = "closeRequest" /\ o.verdict = v /\ o.id = op[h].id
      BY <2>1 DEF Local
    <3> HIDE DEF o
    <3>3. op'[h] = o /\ \A g \in Handler : g # h => op'[g] = op[g]
      BY <3>1, OthersKept
    <3>4. \A i \in Id : Rejected(i)' = Rejected(i) /\ AllApproved(i)' = AllApproved(i)
      BY <2>1, RowsSame
    <3>5. op[h].id \notin unseeded => Says(op[h].id, v)
      <4>1. v = "rejected" => Rejected(op[h].id)
        BY DEF v, Aggregate, Decided, Rejected
      <4>2. ASSUME op[h].id \notin unseeded, v = "approved" PROVE AllApproved(op[h].id)
        <5>1. /\ \A m \in Member : decision[op[h].id][m] \notin {"rejected", "pending"}
              /\ \E m \in Member : decision[op[h].id][m] = "approved"
          BY <4>2 DEF v, Aggregate, Decided
        <5>2. ~Missing(op[h].id)
          BY <2>1, <4>2 DEF Quorum, CountersSaw
        <5> QED
          BY <2>1, <5>1, <5>2 DEF AllApproved, Missing, Typed, RowsTyped, RowsMade, ApprovalStatus, Verdict
      <4> QED
        BY <4>1, <4>2 DEF Says
    <3>6. SomebodyCloses'
      BY <2>1, <3>2, <3>3, <3>4 DEF VerdictInv, SomebodyCloses
    <3>7. VerdictsHold'
      <4>1. ASSUME NEW i \in Id \ (changed \cup unseeded), NEW g \in Handler,
                   op'[g].pc \in Closing, op'[g].id = i
            PROVE  Says(i, op'[g].verdict)
        BY <3>2, <3>3, <3>5, <4>1 DEF VerdictInv, VerdictsHold
      <4> QED
        BY <2>1, <3>4, <4>1 DEF VerdictInv, VerdictsHold, Says
    <3>8. RequestFirst'
      BY <2>1, <3>2, <3>3 DEF VerdictInv, RequestFirst
    <3> QED
      BY <3>6, <3>7, <3>8 DEF VerdictInv
  <2> QED
    BY <2>2, <2>3
<1>6. ASSUME NEW h \in Handler, CloseRequest(h) PROVE VerdictInv'
  <2> DEFINE o == [op[h] EXCEPT !.pc = "closePage"]
             id == op[h].id
  <2>1. /\ UNCHANGED <<reviewers, decision, changed, unseeded, torn>>
        /\ op[h].pc = "closeRequest" /\ op[h] \in Local /\ id \in Id /\ op[h].verdict \in Verdict
        /\ Moved(h, o)
    BY <1>6, IdsMade DEF CloseRequest, historyVars, boundVars, AtWork, Closing, Typed, OpsTyped,
                         LocalOK, Moved
  <2>2. o.pc = "closePage" /\ o.verdict = op[h].verdict /\ o.id = id
    BY <2>1 DEF Local
  <2>3. \A i \in Id : status'[i] = IF i = id THEN op[h].verdict ELSE status[i]
    BY <1>6, <2>1 DEF CloseRequest, Typed, RowsTyped
  <2> HIDE DEF o
  <2>4. op'[h] = o /\ \A g \in Handler : g # h => op'[g] = op[g]
    BY <2>1, OthersKept
  <2>5. \A i \in Id : Rejected(i)' = Rejected(i) /\ AllApproved(i)' = AllApproved(i)
    BY <2>1, RowsSame
  <2>6. SomebodyCloses'
    BY <2>1, <2>3, <2>4, <2>5 DEF VerdictInv, SomebodyCloses, Verdict
  <2>7. VerdictsHold'
    <3>1. id \notin changed \cup unseeded => Says(id, op[h].verdict)
      BY <2>1 DEF VerdictInv, VerdictsHold, Closing
    <3>2. ASSUME NEW i \in Id \ (changed \cup unseeded), NEW g \in Handler,
                 op'[g].pc \in Closing, op'[g].id = i
          PROVE  Says(i, op'[g].verdict)
      BY <2>2, <2>4, <3>1, <3>2 DEF VerdictInv, VerdictsHold
    <3>3. ASSUME NEW i \in Id \ (changed \cup unseeded) PROVE Says(i, status'[i])
      BY <2>3, <3>1 DEF VerdictInv, VerdictsHold
    <3> QED
      BY <2>1, <2>5, <3>2, <3>3 DEF VerdictsHold, Says
  <2>8. RequestFirst'
    <3>1. \A g \in Handler : op[g].pc = "closePage" => op[g].id \in Id
      BY IdsMade DEF AtWork, Closing
    <3> QED
      BY <2>1, <2>2, <2>3, <2>4, <3>1 DEF VerdictInv, RequestFirst, Verdict
  <2> QED
    BY <2>6, <2>7, <2>8 DEF VerdictInv
<1>7. ASSUME NEW h \in Handler, ClosePage(h) PROVE VerdictInv'
  <2>1. /\ UNCHANGED <<reviewers, decision, status, changed, unseeded>>
        /\ Moved(h, Idle) /\ op[h].pc = "closePage" /\ torn' = torn \ {op[h].id}
    BY <1>7 DEF ClosePage, Finish, Moved
  <2>2. status[op[h].id] # "pending"
    BY <2>1 DEF VerdictInv, RequestFirst
  <2> QED
    BY <2>1, <2>2, VerdictQuiet DEF Idle, At, Closing
<1>8. ASSUME NEW h \in Handler, PublishCheck(h) PROVE VerdictInv'
  <2>1. /\ UNCHANGED <<reviewers, decision, status, changed, unseeded, torn>>
        /\ Moved(h, At("publish", 0, {})) /\ op[h].pc = "idle"
    BY <1>8 DEF PublishCheck, Begin, Moved, rows
  <2> QED
    BY <2>1, VerdictQuiet DEF At, Closing
<1>9. ASSUME NEW h \in Handler, PublishWrite(h) PROVE VerdictInv'
  <2>1. /\ UNCHANGED <<reviewers, decision, status, changed, unseeded, torn>>
        /\ Moved(h, Idle) /\ op[h].pc = "publish"
    BY <1>9 DEF PublishWrite, Finish, Moved, historyVars, boundVars
  <2> QED
    BY <2>1, VerdictQuiet DEF Idle, At, Closing
<1>10. ASSUME NEW h \in Handler, OperationEnds(h) PROVE VerdictInv'
  <2>1. /\ UNCHANGED <<reviewers, decision, status, changed, unseeded>>
        /\ Moved(h, Idle) /\ torn' = torn \cup ({op[h].id} \cap Id)
    BY <1>10 DEF OperationEnds, Finish, Moved, rows
  <2>2. op[h].pc \in {"count", "closeRequest"} => op[h].id \in torn'
    BY <2>1, IdsMade DEF AtWork, Closing
  <2> QED
    BY <2>1, <2>2, VerdictQuiet DEF Idle, At, Closing
<1>11. CASE UNCHANGED vars
  BY <1>11 DEF vars, rows, historyVars, boundVars, VerdictInv, SomebodyCloses, RequestFirst, VerdictsHold,
               Says, Rejected, AllApproved
<1> QED
  BY <1>1, <1>2, <1>3, <1>4, <1>5, <1>6, <1>7, <1>8, <1>9, <1>10, <1>11 DEF Next

LEMMA VerdictAlways == Spec => [](Typed /\ VerdictInv)
<1>1. Init => Quorum
  BY DEF Init, Quorum, CountersSaw, QuorumRecorded, ApprovalsInHand, QuorumApproves, AllApproved,
         Idle, At, Closing
<1>2. Init => VerdictInv
  BY DEF Init, VerdictInv, SomebodyCloses, RequestFirst, VerdictsHold, Says, Rejected, AllApproved, Idle, At, Closing
<1> QED
  BY <1>1, <1>2, InitTyped, TypedStep, QuorumStep, VerdictStep, PTL DEF Spec

(* Once nothing is in flight on a request, and a decision was carried through  *)
(* since one ended half-way, a request that is decided is closed: of several   *)
(* reviewers who decide at the same moment one counts them all (Decide).       *)
THEOREM DecidedRequestsClose == Spec => []NothingLeftOpen
<1>1. Typed /\ VerdictInv => NothingLeftOpen
  BY DEF VerdictInv, SomebodyCloses, NothingLeftOpen, AtRest
<1> QED
  BY <1>1, VerdictAlways, PTL

(* And its status is what its rows say, in whatever order the flips arrived,   *)
(* unless a reviewer took a verdict back or decided before the rows were there *)
(* (approval aggregate).                                                       *)
THEOREM VerdictsStand == Spec => []VerdictStands
<1>1. Typed /\ VerdictInv => VerdictStands
  <2> SUFFICES ASSUME Typed, VerdictInv,
                      NEW id \in 1..asked \ (changed \cup unseeded), AtRest(id)
               PROVE  status[id] = IF Rejected(id) THEN "rejected"
                                   ELSE IF AllApproved(id) THEN "approved" ELSE "pending"
    BY DEF VerdictStands
  <2>1. id \in Id /\ status[id] \in {"approved", "rejected", "pending"}
    BY ApprovalAssumption DEF Typed, RowsTyped, Id, ApprovalStatus, Verdict
  <2>2. Says(id, status[id])
    BY <2>1 DEF VerdictInv, VerdictsHold
  <2>3. Rejected(id) \/ AllApproved(id) => status[id] # "pending"
    BY <2>1 DEF VerdictInv, SomebodyCloses, AtRest
  <2>4. ~(Rejected(id) /\ AllApproved(id))
    BY <2>1 DEF Rejected, AllApproved, Typed, RowsMade
  <2> QED
    BY <2>1, <2>2, <2>3, <2>4 DEF Says
<1> QED
  BY <1>1, VerdictAlways, PTL

-----------------------------------------------------------------------------
(* The page and its latest request, as long as nothing crossed.              *)

Sound == asked \notin changed \cup unflipped

OneAsk == \A h \in Handler : op[h].pc \in AtWork => op[h].id = asked

BeforeAnyAsk == asked = 0 => /\ docStatus = "draft"
                             /\ \A h \in Handler : op[h].pc # "publish"

NobodyOpens == \A h \in Handler : op[h].pc \notin Opening

(* Until the page is in review nothing else happens on its request.           *)
OpenedAlone ==
    \A h \in Handler : op[h].pc \in Opening =>
        /\ \A g \in Handler : g # h => op[g].pc = "idle"
        /\ status[asked] = "pending"
        /\ \A m \in Member : decision[asked][m] \in {"none", "pending"}

(* Whatever is about to be written is the verdict of the rows as they are.    *)
VerdictCurrent ==
    /\ status[asked] # "pending" => status[asked] = Aggregate(asked)
    /\ \A h \in Handler : /\ op[h].pc \in Closing => op[h].verdict = Aggregate(asked)
                          /\ op[h].pc = "publish" => Aggregate(asked) = "approved"

(* The page shows the review or its verdict; it is behind only while somebody  *)
(* is about to write it.                                                       *)
PageShows ==
    asked \notin torn =>
        /\ NobodyOpens => docStatus \in {"in_review", Aggregate(asked)}
        /\ status[asked] # "pending" =>
               \/ docStatus = status[asked]
               \/ \E h \in Handler : op[h].pc = "closePage"
        /\ Aggregate(asked) # "pending" /\ status[asked] = "pending" =>
               \E h \in Handler : op[h].pc \in {"count", "closeRequest"}

LatestInv == OpenedAlone /\ VerdictCurrent /\ PageShows

PageInv == ~crossed => OneAsk /\ BeforeAnyAsk /\ (asked > 0 /\ Sound => LatestInv)

LEMMA AggregateSame ==
    ASSUME UNCHANGED <<asked, decision>> PROVE Aggregate(asked)' = Aggregate(asked)
BY DEF Aggregate, Decided

LEMMA AggregateUntouched ==
    ASSUME NEW id, \A m \in Member : decision[id][m] \in {"none", "pending"}
    PROVE  Aggregate(id) = "pending"
BY DEF Aggregate, Decided

(* Steps on the latest request that leave its rows alone: the handler h moves  *)
(* on, and what it writes agrees with the rows.                                *)
LEMMA PageQuiet ==
    ASSUME Typed, UNCHANGED <<asked, decision, changed, unflipped, crossed>>,
           ~crossed, OneAsk, BeforeAnyAsk,
           NEW h \in Handler, NEW o, Moved(h, o), o.pc \in AtWork => o.id = asked,
           o.pc # "publish", asked = 0 => docStatus' = "draft",
           asked > 0 /\ Sound => OpenedAlone' /\ VerdictCurrent' /\ PageShows'
    PROVE  PageInv'
<1>1. op'[h] = o /\ \A g \in Handler : g # h => op'[g] = op[g]
  BY OthersKept
<1>2. OneAsk' /\ BeforeAnyAsk'
  BY <1>1 DEF OneAsk, BeforeAnyAsk
<1>3. Sound' = Sound
  BY DEF Sound
<1> QED
  BY <1>2, <1>3 DEF PageInv, LatestInv

LEMMA PageStep == Typed /\ VerdictInv /\ PageInv /\ [Next]_vars => PageInv'
<1> SUFFICES ASSUME Typed, VerdictInv, PageInv, [Next]_vars, ~crossed' PROVE PageInv'
  BY DEF PageInv
<1>0. /\ asked \in Nat
      /\ asked > 0 => asked \in Id
      /\ docStatus # "pending"
  BY ApprovalAssumption DEF Typed, RowsTyped, Id, DocStatus
<1>1. ASSUME NEW h \in Handler, NEW revs \in SUBSET Member, OpenRequest(h, revs) PROVE PageInv'
  <2>0. AllIdle
    BY <1>1, Zenon DEF OpenRequest
  <2>a. PICK id \in Id : id = asked + 1
    BY <1>1 DEF OpenRequest
  <2>1. /\ asked' = id /\ id > asked /\ Moved(h, At("seed", id, revs))
        /\ UNCHANGED <<status, decision>>
        /\ \A g \in Handler : op[g].pc = "idle"
    BY <1>0, <1>1, <2>0, <2>a DEF OpenRequest, Begin, Moved, AllIdle
  <2>2. op'[h] = At("seed", id, revs) /\ \A g \in Handler : g # h => op'[g] = op[g]
    BY <2>1, OthersKept
  <2>3. OneAsk' /\ BeforeAnyAsk'
    BY <1>0, <2>1, <2>2 DEF OneAsk, BeforeAnyAsk, AtWork, Opening, Closing, At
  <2>4. status'[id] = "pending" /\ \A m \in Member : decision'[id][m] = "none"
    BY <1>0, <2>1 DEF Typed, RowsTyped, RowsMade
  <2>5. Aggregate(asked)' = "pending"
    BY <2>1, <2>4 DEF Aggregate, Decided
  <2>6. OpenedAlone' /\ ~NobodyOpens'
    BY <2>1, <2>2, <2>4 DEF OpenedAlone, NobodyOpens, At, Opening
  <2>7. VerdictCurrent' /\ PageShows'
    BY <2>1, <2>2, <2>4, <2>5, <2>6 DEF VerdictCurrent, PageShows, At, Closing
  <2> QED
    BY <2>3, <2>6, <2>7 DEF PageInv, LatestInv
<1>2. ASSUME NEW h \in Handler, NEW m \in Member, SeedDecision(h, m) PROVE PageInv'
  <2> DEFINE rest == op[h].todo \ {m}
             o == At(IF rest = {} THEN "flip" ELSE "seed", op[h].id, rest)
  <2>1. /\ UNCHANGED <<docStatus, asked, status, changed, unflipped, crossed, torn>>
        /\ op[h].pc = "seed" /\ Moved(h, o) /\ o.pc \in Opening /\ o.id = op[h].id
    BY <1>2 DEF SeedDecision, Moved, historyVars, Opening, At
  <2>2. ~crossed /\ OneAsk /\ BeforeAnyAsk /\ op[h].id = asked /\ asked \in Id
    BY <2>1, IdsMade DEF PageInv, OneAsk, AtWork, Opening
  <2> HIDE DEF o
  <2>3. op'[h] = o /\ \A g \in Handler : g # h => op'[g] = op[g]
    BY <2>1, OthersKept
  <2>4. OneAsk' /\ BeforeAnyAsk'
    BY <2>1, <2>2, <2>3 DEF OneAsk, BeforeAnyAsk, Opening
  <2>5. ASSUME asked > 0, Sound' PROVE LatestInv'
    <3>1. OpenedAlone
      BY <2>1, <2>2, <2>5 DEF PageInv, LatestInv, Sound
    <3>2. \A r \in Member : decision'[asked][r] \in {"none", "pending"}
      BY <1>2, <2>1, <2>2, <3>1 DEF SeedDecision, OpenedAlone, Opening, Typed, RowsTyped
    <3>3. Aggregate(asked)' = "pending" /\ status'[asked] = "pending"
      BY <2>1, <3>1, <3>2 DEF Aggregate, Decided, OpenedAlone, Opening
    <3>4. \A g \in Handler : g # h => op'[g].pc = "idle"
      BY <2>1, <2>3, <3>1 DEF OpenedAlone, Opening
    <3>5. op'[h].pc \in Opening
      BY <2>1, <2>3
    <3>6. OpenedAlone'
      BY <2>1, <3>2, <3>3, <3>4 DEF OpenedAlone, Opening
    <3>7. ~NobodyOpens' /\ \A g \in Handler : op'[g].pc \in Opening \cup {"idle"}
      BY <3>4, <3>5 DEF NobodyOpens
    <3>8. VerdictCurrent' /\ PageShows'
      BY <2>1, <3>3, <3>7 DEF VerdictCurrent, PageShows, Opening, Closing
    <3> QED
      BY <3>6, <3>8 DEF LatestInv
  <2> QED
    BY <2>1, <2>4, <2>5 DEF PageInv
<1>3. ASSUME NEW h \in Handler, FlipInReview(h) PROVE PageInv'
  <2>1. /\ UNCHANGED <<asked, reviewers, status, decision, changed, unflipped, crossed, torn>>
        /\ op[h].pc = "flip" /\ Moved(h, Idle) /\ docStatus' = "in_review"
    BY <1>3 DEF FlipInReview, Finish, Moved, historyVars
  <2>2. ~crossed /\ OneAsk /\ BeforeAnyAsk /\ op[h].id = asked /\ asked \in Id
    BY <2>1, IdsMade DEF PageInv, OneAsk, AtWork, Opening
  <2>3. op'[h] = Idle /\ \A g \in Handler : g # h => op'[g] = op[g]
    BY <2>1, OthersKept
  <2>4. ASSUME asked > 0, Sound PROVE OpenedAlone' /\ VerdictCurrent' /\ PageShows'
    <3>1. OpenedAlone
      BY <2>2, <2>4 DEF PageInv, LatestInv
    <3>2. status[asked] = "pending" /\ Aggregate(asked) = "pending"
      BY <2>1, <3>1, AggregateUntouched DEF OpenedAlone, Opening
    <3>3. \A g \in Handler : op'[g].pc = "idle"
      BY <2>1, <2>3, <3>1 DEF OpenedAlone, Opening, Idle, At
    <3>4. Aggregate(asked)' = Aggregate(asked)
      BY <2>1, AggregateSame
    <3> QED
      BY <2>1, <3>2, <3>3, <3>4 DEF OpenedAlone, VerdictCurrent, PageShows, Opening, Closing
  <2>5. asked # 0
    BY <1>0, <2>2, ApprovalAssumption DEF Id
  <2> QED
    BY <2>1, <2>2, <2>4, <2>5, PageQuiet DEF Idle, At, AtWork, Opening, Closing
<1>4. ASSUME NEW h \in Handler, NEW id \in Id, NEW m \in Member, NEW d \in Verdict,
             Decide(h, id, m, d)
      PROVE  PageInv'
  <2>1. /\ UNCHANGED <<docStatus, asked, status, torn>>
        /\ crossed' = (crossed \/ id # asked) /\ Moved(h, At("count", id, {})) /\ op[h].pc = "idle"
        /\ unflipped' = unflipped \cup {i \in {id} : BeingOpened(i)}
        /\ changed' = changed \cup {i \in {id} : decision[i][m] \notin {"pending", d}}
    BY <1>4 DEF Decide, Begin, Moved
  <2>2. ~crossed /\ id = asked /\ OneAsk /\ BeforeAnyAsk
    BY <2>1 DEF PageInv
  <2>3. op'[h] = At("count", id, {}) /\ \A g \in Handler : g # h => op'[g] = op[g]
    BY <2>1, OthersKept
  <2>4. OneAsk' /\ BeforeAnyAsk'
    BY <2>1, <2>2, <2>3 DEF OneAsk, BeforeAnyAsk, At
  <2>5. ASSUME asked > 0, Sound' PROVE LatestInv'
    <3>1. LatestInv
      BY <2>1, <2>2, <2>5 DEF PageInv, Sound
    <3>2. ~BeingOpened(asked) /\ decision[asked][m] \in {"pending", d}
      BY <2>1, <2>2, <2>5 DEF Sound
    <3>3. NobodyOpens
      BY <2>2, <3>2 DEF NobodyOpens, BeingOpened, OneAsk, AtWork
    <3>4. \A r \in Member : decision'[asked][r] = IF r = m THEN d ELSE decision[asked][r]
      BY <1>4, <2>2 DEF Decide, Typed, RowsTyped
    <3>5. Aggregate(asked) # "pending" => Aggregate(asked)' = Aggregate(asked)
      BY <2>1, <3>2, <3>4 DEF Aggregate, Decided, Verdict
    <3>6. NobodyOpens' /\ OpenedAlone'
      BY <2>3, <3>3 DEF NobodyOpens, OpenedAlone, At, Opening
    <3>7. VerdictCurrent'
      <4>1. ASSUME NEW g \in Handler
            PROVE  /\ op'[g].pc \in Closing => op'[g].verdict = Aggregate(asked)'
                   /\ op'[g].pc = "publish" => Aggregate(asked)' = "approved"
        <5>1. op'[g].pc \in Closing \cup {"publish"} => op'[g] = op[g]
          BY <2>3 DEF At, Closing
        <5>2. op[g].pc \in Closing => op[g].verdict # "pending"
          BY DEF Typed, OpsTyped, LocalOK, Verdict
        <5> QED
          BY <3>1, <3>5, <5>1, <5>2 DEF LatestInv, VerdictCurrent
      <4>2. status'[asked] # "pending" => status'[asked] = Aggregate(asked)'
        BY <2>1, <3>1, <3>5 DEF LatestInv, VerdictCurrent
      <4> QED
        BY <2>1, <4>1, <4>2 DEF VerdictCurrent
    <3>8. PageShows'
      <4> SUFFICES ASSUME asked \notin torn PROVE PageShows'
        BY <2>1 DEF PageShows
      <4>1. docStatus \in {"in_review", Aggregate(asked)'}
        BY <1>0, <3>1, <3>3, <3>5 DEF LatestInv, PageShows
      <4>2. status[asked] # "pending" => docStatus = status[asked]
                                         \/ \E g \in Handler : op'[g].pc = "closePage"
        BY <2>1, <2>3, <3>1 DEF LatestInv, PageShows
      <4>3. op'[h].pc = "count"
        BY <2>3 DEF At
      <4> QED
        BY <2>1, <4>1, <4>2, <4>3 DEF PageShows
    <3> QED
      BY <3>6, <3>7, <3>8 DEF LatestInv
  <2> QED
    BY <2>1, <2>4, <2>5 DEF PageInv
<1>5. ASSUME NEW h \in Handler, Count(h) PROVE PageInv'
  <2>1. /\ UNCHANGED <<docStatus, asked, status, decision, changed, unflipped, crossed, torn>>
        /\ op[h].pc = "count" /\ op[h] \in Local
    BY <1>5 DEF Count, rows, historyVars, Typed, OpsTyped, LocalOK
  <2>2. ~crossed /\ OneAsk /\ BeforeAnyAsk /\ op[h].id = asked /\ asked \in Id /\ asked # 0
    BY <1>0, <2>1, IdsMade, ApprovalAssumption DEF PageInv, OneAsk, AtWork, Id
  <2> DEFINE v == Aggregate(asked)
             o == IF v = "pending" THEN Idle ELSE [op[h] EXCEPT !.pc = "closeRequest", !.verdict = v]
  <2>3. Moved(h, o)
    BY <1>5, <2>2 DEF Count, Finish, Moved
  <2>4. IF v = "pending" THEN o.pc = "idle"
                         ELSE o.pc = "closeRequest" /\ o.verdict = v /\ o.id = asked
    BY <2>1, <2>2 DEF Local, Idle, At
  <2>5. v' = v
    BY <2>1, AggregateSame
  <2> HIDE DEF o, v
  <2>6. op'[h] = o /\ \A g \in Handler : g # h => op'[g] = op[g]
    BY <2>3, OthersKept
  <2>7. ASSUME asked > 0, Sound PROVE OpenedAlone' /\ VerdictCurrent' /\ PageShows'
    <3>1. LatestInv
      BY <2>2, <2>7 DEF PageInv
    <3>2. NobodyOpens
      BY <2>1, <3>1 DEF LatestInv, OpenedAlone, NobodyOpens, Opening
    <3>3. OpenedAlone' /\ NobodyOpens'
      BY <2>4, <2>6, <3>2 DEF OpenedAlone, NobodyOpens, Opening
    <3>4. VerdictCurrent'
      BY <2>1, <2>4, <2>5, <2>6, <3>1 DEF LatestInv, VerdictCurrent, Closing, v
    <3>5. PageShows'
      <4> SUFFICES ASSUME asked \notin torn PROVE PageShows'
        BY <2>1 DEF PageShows
      <4>1. docStatus \in {"in_review", v}
        BY <3>1, <3>2 DEF LatestInv, PageShows, v
      <4>2. status[asked] # "pending" => docStatus = status[asked]
                                         \/ \E g \in Handler : op'[g].pc = "closePage"
        BY <2>1, <2>6, <3>1 DEF LatestInv, PageShows
      <4>3. v # "pending" => op'[h].pc = "closeRequest"
        BY <2>4, <2>6
      <4> QED
        BY <2>1, <2>5, <4>1, <4>2, <4>3 DEF PageShows, v
    <3> QED
      BY <3>3, <3>4, <3>5
  <2>8. (o.pc \in AtWork => o.id = asked) /\ o.pc # "publish"
    BY <2>4 DEF AtWork, Opening, Closing
  <2> QED
    BY <2>1, <2>2, <2>3, <2>7, <2>8, PageQuiet
<1>6. ASSUME NEW h \in Handler, CloseRequest(h) PROVE PageInv'
  <2> DEFINE o == [op[h] EXCEPT !.pc = "closePage"]
  <2>1. /\ UNCHANGED <<docStatus, asked, decision, changed, unflipped, crossed, torn>>
        /\ op[h].pc = "closeRequest" /\ op[h] \in Local /\ op[h].verdict \in Verdict
        /\ Moved(h, o) /\ status' = [status EXCEPT ![op[h].id] = op[h].verdict]
    BY <1>6 DEF CloseRequest, historyVars, Typed, OpsTyped, LocalOK, Moved, Closing
  <2>2. ~crossed /\ OneAsk /\ BeforeAnyAsk /\ op[h].id = asked /\ asked \in Id /\ asked # 0
    BY <1>0, <2>1, IdsMade, ApprovalAssumption DEF PageInv, OneAsk, AtWork, Closing, Id
  <2>3. o.pc = "closePage" /\ o.id = asked /\ o.verdict = op[h].verdict
    BY <2>1, <2>2 DEF Local
  <2> HIDE DEF o
  <2>4. op'[h] = o /\ \A g \in Handler : g # h => op'[g] = op[g]
    BY <2>1, OthersKept
  <2>5. status'[asked] = op[h].verdict
    BY <2>1, <2>2 DEF Typed, RowsTyped
  <2>6. Aggregate(asked)' = Aggregate(asked)
    BY <2>1, AggregateSame
  <2>7. ASSUME asked > 0, Sound PROVE OpenedAlone' /\ VerdictCurrent' /\ PageShows'
    <3>1. LatestInv
      BY <2>2, <2>7 DEF PageInv
    <3>2. NobodyOpens /\ op[h].verdict = Aggregate(asked)
      BY <2>1, <3>1 DEF LatestInv, OpenedAlone, NobodyOpens, VerdictCurrent, Opening, Closing
    <3>3. OpenedAlone' /\ NobodyOpens'
      BY <2>3, <2>4, <3>2 DEF OpenedAlone, NobodyOpens, Opening
    <3>4. VerdictCurrent'
      BY <2>1, <2>3, <2>4, <2>5, <2>6, <3>1, <3>2 DEF LatestInv, VerdictCurrent, Closing
    <3>5. PageShows'
      BY <2>1, <2>3, <2>4, <2>5, <2>6, <3>1, <3>2 DEF LatestInv, PageShows, Verdict
    <3> QED
      BY <3>3, <3>4, <3>5
  <2> QED
    BY <2>1, <2>2, <2>3, <2>7, PageQuiet
<1>7. ASSUME NEW h \in Handler, ClosePage(h) PROVE PageInv'
  <2>1. /\ UNCHANGED <<asked, status, decision, changed, unflipped, crossed>>
        /\ op[h].pc = "closePage" /\ op[h].verdict \in Verdict
        /\ Moved(h, Idle) /\ docStatus' = op[h].verdict
    BY <1>7 DEF ClosePage, Finish, Typed, OpsTyped, LocalOK, Moved, Closing
  <2>2. ~crossed /\ OneAsk /\ BeforeAnyAsk /\ op[h].id = asked /\ asked \in Id /\ asked # 0
    BY <1>0, <2>1, IdsMade, ApprovalAssumption DEF PageInv, OneAsk, AtWork, Closing, Id
  <2>3. op'[h] = Idle /\ \A g \in Handler : g # h => op'[g] = op[g]
    BY <2>1, OthersKept
  <2>4. Aggregate(asked)' = Aggregate(asked)
    BY <2>1, AggregateSame
  <2>5. status[asked] # "pending"
    BY <2>1, <2>2 DEF VerdictInv, RequestFirst
  <2>6. ASSUME asked > 0, Sound PROVE OpenedAlone' /\ VerdictCurrent' /\ PageShows'
    <3>1. LatestInv
      BY <2>2, <2>6 DEF PageInv
    <3>2. NobodyOpens /\ docStatus' = Aggregate(asked) /\ status[asked] = Aggregate(asked)
      BY <2>1, <2>5, <3>1 DEF LatestInv, OpenedAlone, NobodyOpens, VerdictCurrent, Opening, Closing
    <3>3. OpenedAlone' /\ NobodyOpens'
      BY <2>3, <3>2 DEF OpenedAlone, NobodyOpens, Opening, Idle, At
    <3>4. VerdictCurrent'
      BY <2>1, <2>3, <2>4, <3>1, <3>2 DEF LatestInv, VerdictCurrent, Closing, Idle, At
    <3>5. PageShows'
      BY <2>1, <2>4, <2>5, <3>2 DEF PageShows
    <3> QED
      BY <3>3, <3>4, <3>5
  <2> QED
    BY <2>1, <2>2, <2>6, PageQuiet DEF Idle, At, AtWork, Opening, Closing
<1>8. ASSUME NEW h \in Handler, PublishCheck(h) PROVE PageInv'
  <2>1. /\ UNCHANGED <<docStatus, asked, status, decision, changed, unflipped, torn>>
        /\ docStatus = "approved" /\ Moved(h, At("publish", 0, {})) /\ op[h].pc = "idle"
    BY <1>8 DEF PublishCheck, Publishable, Begin, Moved, rows
  <2>a. ~crossed /\ \A id \in Id : ~BeingOpened(id) /\ id \notin torn
    BY <1>8, Zenon DEF PublishCheck
  <2>2. ~crossed /\ OneAsk /\ BeforeAnyAsk /\ asked > 0
    BY <1>0, <2>1, <2>a DEF PageInv, BeforeAnyAsk
  <2>3. op'[h] = At("publish", 0, {}) /\ \A g \in Handler : g # h => op'[g] = op[g]
    BY <2>1, OthersKept
  <2>4. asked \notin torn /\ NobodyOpens
    BY <1>0, <2>2, <2>a DEF BeingOpened, NobodyOpens, OneAsk, AtWork
  <2>5. OneAsk' /\ BeforeAnyAsk'
    BY <1>0, <2>1, <2>2, <2>3 DEF OneAsk, BeforeAnyAsk, At, AtWork, Opening, Closing
  <2>6. Aggregate(asked)' = Aggregate(asked)
    BY <2>1, AggregateSame
  <2>7. ASSUME Sound' PROVE LatestInv'
    <3>1. LatestInv
      BY <2>1, <2>2, <2>7 DEF PageInv, Sound
    <3>2. Aggregate(asked) = "approved"
      BY <2>1, <2>4, <3>1 DEF LatestInv, PageShows
    <3>3. OpenedAlone' /\ NobodyOpens'
      BY <2>3, <2>4 DEF OpenedAlone, NobodyOpens, Opening, At
    <3>4. VerdictCurrent'
      BY <2>1, <2>3, <2>6, <3>1, <3>2 DEF LatestInv, VerdictCurrent, At, Closing
    <3>5. PageShows'
      BY <2>1, <2>3, <2>4, <2>6, <3>1 DEF LatestInv, PageShows
    <3> QED
      BY <3>3, <3>4, <3>5 DEF LatestInv
  <2> QED
    BY <2>5, <2>7 DEF PageInv
<1>9. ASSUME NEW h \in Handler, PublishWrite(h) PROVE PageInv'
  <2>1. /\ UNCHANGED <<asked, status, decision, changed, unflipped, crossed, torn>>
        /\ op[h].pc = "publish" /\ Moved(h, Idle) /\ docStatus' = "approved"
    BY <1>9 DEF PublishWrite, Finish, Moved, historyVars
  <2>2. ~crossed /\ OneAsk /\ BeforeAnyAsk /\ asked # 0
    BY <2>1 DEF PageInv, BeforeAnyAsk
  <2>3. op'[h] = Idle /\ \A g \in Handler : g # h => op'[g] = op[g]
    BY <2>1, OthersKept
  <2>4. Aggregate(asked)' = Aggregate(asked)
    BY <2>1, AggregateSame
  <2>5. ASSUME asked > 0, Sound PROVE OpenedAlone' /\ VerdictCurrent' /\ PageShows'
    <3>1. LatestInv
      BY <2>2, <2>5 DEF PageInv
    <3>2. NobodyOpens /\ Aggregate(asked) = "approved"
      BY <2>1, <3>1 DEF LatestInv, OpenedAlone, NobodyOpens, VerdictCurrent, Opening
    <3>3. OpenedAlone' /\ NobodyOpens'
      BY <2>3, <3>2 DEF OpenedAlone, NobodyOpens, Opening, Idle, At
    <3>4. VerdictCurrent'
      BY <2>1, <2>3, <2>4, <3>1, <3>2 DEF LatestInv, VerdictCurrent, Closing, Idle, At
    <3>5. PageShows'
      BY <2>1, <2>3, <2>4, <3>1, <3>2 DEF LatestInv, VerdictCurrent, PageShows
    <3> QED
      BY <3>3, <3>4, <3>5
  <2> QED
    BY <2>1, <2>2, <2>5, PageQuiet DEF Idle, At, AtWork, Opening, Closing
<1>10. ASSUME NEW h \in Handler, OperationEnds(h) PROVE PageInv'
  <2>1. /\ UNCHANGED <<docStatus, asked, status, decision, changed, unflipped, crossed>>
        /\ Moved(h, Idle) /\ torn' = torn \cup ({op[h].id} \cap Id) /\ op[h].pc # "idle"
    BY <1>10 DEF OperationEnds, Finish, Moved, rows
  <2>2. ~crossed /\ OneAsk /\ BeforeAnyAsk
    BY <2>1 DEF PageInv
  <2>3. op'[h] = Idle /\ \A g \in Handler : g # h => op'[g] = op[g]
    BY <2>1, OthersKept
  <2>4. Aggregate(asked)' = Aggregate(asked)
    BY <2>1, AggregateSame
  <2>5. op[h].pc \in AtWork => asked \in torn'
    BY <2>1, <2>2, IdsMade DEF OneAsk
  <2>6. ASSUME asked > 0, Sound PROVE OpenedAlone' /\ VerdictCurrent' /\ PageShows'
    <3>1. LatestInv
      BY <2>2, <2>6 DEF PageInv
    <3>2. OpenedAlone'
      BY <2>1, <2>3, <3>1 DEF LatestInv, OpenedAlone, Opening, Idle, At
    <3>3. VerdictCurrent'
      BY <2>1, <2>3, <2>4, <3>1 DEF LatestInv, VerdictCurrent, Closing, Idle, At
    <3>4. PageShows'
      BY <2>1, <2>3, <2>4, <2>5, <3>1
      DEF LatestInv, PageShows, NobodyOpens, AtWork, Opening, Closing
    <3> QED
      BY <3>2, <3>3, <3>4
  <2> QED
    BY <2>1, <2>2, <2>6, PageQuiet DEF BeforeAnyAsk, Idle, At, AtWork, Opening, Closing
<1>11. CASE UNCHANGED vars
  <2>1. UNCHANGED <<docStatus, asked, status, decision, op, changed, unflipped, crossed, torn>>
    BY <1>11 DEF vars, rows, historyVars
  <2>2. Aggregate(asked)' = Aggregate(asked)
    BY <2>1, AggregateSame
  <2> QED
    BY <2>1, <2>2 DEF PageInv, OneAsk, BeforeAnyAsk, Sound, LatestInv, OpenedAlone, VerdictCurrent,
                      PageShows, NobodyOpens
<1> QED
  BY <1>1, <1>2, <1>3, <1>4, <1>5, <1>6, <1>7, <1>8, <1>9, <1>10, <1>11 DEF Next

(* At rest the page shows the state of its latest request, also after a        *)
(* decision that repaired a half-way one, as long as no operations on two       *)
(* requests met and nobody decided early or took a verdict back (approval       *)
(* Decide, PublishApproved).                                                   *)
THEOREM PageFollows == Spec => []PageFollowsLatest
<1>1. Init => PageInv
  BY DEF Init, PageInv, OneAsk, BeforeAnyAsk, Idle, At, AtWork, Opening, Closing
<1>2. Spec => [](Typed /\ PageInv)
  BY <1>1, VerdictAlways, PageStep, PTL DEF Spec
<1>3. Typed /\ PageInv => PageFollowsLatest
  <2> SUFFICES ASSUME Typed, PageInv, asked > 0, ~crossed, Sound, asked \notin torn, AllIdle
               PROVE  docStatus = IF status[asked] = "pending" THEN "in_review" ELSE status[asked]
    BY DEF PageFollowsLatest, Sound
  <2>1. PageShows
    BY DEF PageInv, LatestInv
  <2>2. NobodyOpens /\ \A h \in Handler : op[h].pc \notin {"count", "closeRequest", "closePage"}
    BY DEF AllIdle, NobodyOpens, Opening
  <2>3. docStatus # "pending"
    BY DEF Typed, RowsTyped, DocStatus
  <2> QED
    BY <2>1, <2>2, <2>3 DEF PageShows
<1> QED
  BY <1>2, <1>3, PTL

-----------------------------------------------------------------------------
allVars == <<focus, vars, linkVars, seVars>>

(* A behaviour of Publishing is, in its links, one of theirs alone.         *)
LEMMA PartSteps == [PublishingNext]_allVars => L!LinksNext \/ UNCHANGED L!linkVars
BY DEF PublishingNext, allVars, linkVars, L!linkVars

LEMMA LinksStart == PublishingInit => L!LinksInit
BY DEF PublishingInit

-----------------------------------------------------------------------------
(* The links of a page.                                                     *)

SaverType == [pc : {"idle", "read", "apply"}, current : SUBSET Issue,
              existing : SUBSET Issue, alone : BOOLEAN]

SaversTyped == savers \in [Saver -> SaverType]

(* A reconciliation that has been alone since its save is the only one, and what it   *)
(* read, with what it has changed since, is what is there; a settled page has none.    *)
Alone == \A r \in Saver : savers[r].pc # "idle" /\ savers[r].alone =>
             /\ \A x \in Saver : x # r => savers[x].pc = "idle"
             /\ savers[r].pc = "apply" => savers[r].existing = L!Linked("embed")

Quiet == settled => \A r \in Saver : savers[r].pc = "idle"

LinksInv == SaversTyped /\ Alone /\ Quiet /\ L!LinksFollowContent

LEMMA LinksInitially == L!LinksInit => LinksInv
<1> SUFFICES ASSUME L!LinksInit PROVE LinksInv
  OBVIOUS
<1>1. SaversTyped /\ Alone /\ Quiet
  BY DEF L!LinksInit, L!NoSaver, SaversTyped, SaverType, Alone, Quiet
<1>2. L!LinksFollowContent
  BY DEF L!LinksInit, L!LinksFollowContent, L!Linked
<1> QED
  BY <1>1, <1>2 DEF LinksInv

LEMMA OneSaves ==
    ASSUME SaversTyped, NEW r \in Saver, NEW o \in SaverType, savers' = [savers EXCEPT ![r] = o]
    PROVE  SaversTyped' /\ savers'[r] = o /\ \A x \in Saver : x # r => savers'[x] = savers[x]
BY DEF SaversTyped

LEMMA NoSaverTyped == L!NoSaver \in SaverType /\ L!NoSaver.pc = "idle"
BY DEF L!NoSaver, SaverType

(* A reconciliation goes on, as o: the embed links are E now. *)
LEMMA SaverGoes ==
    ASSUME LinksInv, NEW r \in Saver, NEW o \in SaverType, savers' = [savers EXCEPT ![r] = o],
           savers[r].pc # "idle", o.pc # "idle" => o.alone = savers[r].alone,
           L!Linked("mention")' = L!Linked("mention"),
           UNCHANGED <<embeds, wished, settled>>,
           savers[r].alone /\ o.pc = "apply" => o.existing = L!Linked("embed")'
    PROVE  LinksInv'
<1>1. SaversTyped' /\ savers'[r] = o /\ \A x \in Saver : x # r => savers'[x] = savers[x]
  BY OneSaves DEF LinksInv
<1>2. ~ settled
  BY DEF LinksInv, Quiet
<1>3. \A x \in Saver : x # r => ~ (savers[x].pc # "idle" /\ savers[x].alone)
  BY DEF LinksInv, Alone
<1>4. Alone'
  <2> SUFFICES ASSUME NEW y \in Saver, savers'[y].pc # "idle", savers'[y].alone
               PROVE  /\ \A x \in Saver : x # y => savers'[x].pc = "idle"
                      /\ savers'[y].pc = "apply" => savers'[y].existing = L!Linked("embed")'
    BY DEF Alone
  <2>1. y = r
    BY <1>1, <1>3
  <2> QED
    BY <1>1, <2>1 DEF LinksInv, Alone
<1>5. Quiet' /\ L!LinksFollowContent'
  BY <1>2 DEF LinksInv, Quiet, L!LinksFollowContent
<1> QED
  BY <1>1, <1>4, <1>5 DEF LinksInv

LEMMA SaveKeeps ==
    ASSUME LinksInv, NEW r \in Saver, NEW content \in SUBSET Issue, L!Save(r, content)
    PROVE  LinksInv'
<1> DEFINE alone == ~ L!Busy(Saver)
           o == [pc |-> "read", current |-> content, existing |-> {}, alone |-> alone]
<1>1. /\ savers' = [x \in Saver |-> IF x = r THEN o ELSE [savers[x] EXCEPT !.alone = FALSE]]
      /\ settled' = FALSE /\ UNCHANGED <<links, wished>>
  BY DEF L!Save
<1>2. alone \in BOOLEAN /\ (alone => \A x \in Saver : savers[x].pc = "idle")
  BY DEF L!Busy
<1> HIDE DEF alone
<1>3. o \in SaverType /\ o.pc = "read" /\ o.alone = alone
  BY <1>2 DEF SaverType
<1> HIDE DEF o
<1>4. \A x \in Saver : /\ [savers[x] EXCEPT !.alone = FALSE] \in SaverType
                       /\ [savers[x] EXCEPT !.alone = FALSE].alone = FALSE
                       /\ [savers[x] EXCEPT !.alone = FALSE].pc = savers[x].pc
  BY DEF LinksInv, SaversTyped, SaverType
<1>5. SaversTyped'
  BY <1>1, <1>3, <1>4 DEF SaversTyped
<1>6. Alone'
  BY <1>1, <1>2, <1>3, <1>4 DEF Alone
<1>7. Quiet' /\ L!LinksFollowContent'
  BY <1>1 DEF LinksInv, Quiet, L!LinksFollowContent, L!Linked
<1> QED
  BY <1>5, <1>6, <1>7 DEF LinksInv

LEMMA ReadLinksKeeps ==
    ASSUME LinksInv, NEW r \in Saver, L!ReadLinks(r)
    PROVE  LinksInv'
<1>1. savers[r].pc = "read" /\ UNCHANGED <<links, embeds, wished, settled>> /\ savers[r] \in SaverType
  BY DEF L!ReadLinks, LinksInv, SaversTyped
<1>2. L!Linked("mention")' = L!Linked("mention") /\ L!Linked("embed")' = L!Linked("embed")
  BY <1>1 DEF L!Linked
<1>3. CASE savers' = [savers EXCEPT ![r].pc = "apply", ![r].existing = L!Linked("embed")]
  <2> DEFINE o == [savers[r] EXCEPT !.pc = "apply", !.existing = L!Linked("embed")]
  <2>1. savers' = [savers EXCEPT ![r] = o]
    BY <1>3 DEF LinksInv, SaversTyped
  <2>2. o \in SaverType /\ o.pc = "apply" /\ o.alone = savers[r].alone /\ o.existing = L!Linked("embed")
    BY <1>1 DEF SaverType, L!Linked
  <2> HIDE DEF o
  <2> QED
    BY <1>1, <1>2, <2>1, <2>2, SaverGoes
<1>4. CASE savers' = [savers EXCEPT ![r] = L!NoSaver]
  BY <1>1, <1>2, <1>4, NoSaverTyped, SaverGoes
<1> QED
  BY <1>3, <1>4 DEF L!ReadLinks

LEMMA ApplyKeeps ==
    ASSUME LinksInv, NEW r \in Saver, L!Apply(r)
    PROVE  LinksInv'
<1> DEFINE me == savers[r]
           With(E) == [me EXCEPT !.current = me.current, !.existing = E]
<1>1. /\ me.pc = "apply" /\ UNCHANGED <<embeds, wished>> /\ me \in SaverType
      /\ me.alone => me.existing = L!Linked("embed")
  BY DEF L!Apply, LinksInv, SaversTyped, Alone
<1>2. ASSUME NEW E \in SUBSET Issue
      PROVE  /\ With(E) \in SaverType /\ With(E).pc = "apply" /\ With(E).alone = me.alone
             /\ With(E).existing = E
             /\ [savers EXCEPT ![r].current = me.current, ![r].existing = E]
                    = [savers EXCEPT ![r] = With(E)]
  BY <1>1 DEF SaverType, LinksInv, SaversTyped
<1> HIDE DEF With
<1>3. ASSUME NEW i \in L!Added(r), links' = links \cup {<<i, "embed">>}, UNCHANGED settled,
             savers' = [savers EXCEPT ![r].current = me.current, ![r].existing = me.existing \cup {i}]
      PROVE  LinksInv'
  <2>1. i \in Issue /\ me.existing \cup {i} \in SUBSET Issue
    BY <1>1 DEF L!Added, SaverType
  <2>2. L!Linked("mention")' = L!Linked("mention") /\ L!Linked("embed")' = L!Linked("embed") \cup {i}
    BY <1>3, <2>1 DEF L!Linked
  <2> DEFINE o == With(me.existing \cup {i})
  <2>3. /\ o \in SaverType /\ o.pc = "apply" /\ o.alone = me.alone
        /\ savers' = [savers EXCEPT ![r] = o]
        /\ o.existing = me.existing \cup {i}
    BY <1>2, <1>3, <2>1
  <2>4. me.alone => o.existing = L!Linked("embed")'
    BY <1>1, <2>2, <2>3
  <2> HIDE DEF o
  <2> QED
    BY <1>1, <1>3, <2>2, <2>3, <2>4, SaverGoes
<1>4. ASSUME NEW i \in L!Removed(r), links' = links \ L!TypedPair(i), UNCHANGED settled,
             savers' = [savers EXCEPT ![r].current = me.current, ![r].existing = me.existing \ {i}]
      PROVE  LinksInv'
  <2>1. i \in Issue /\ me.existing \ {i} \in SUBSET Issue
    BY <1>1 DEF L!Removed, SaverType
  <2>2. L!Linked("mention")' = L!Linked("mention") /\ L!Linked("embed")' = L!Linked("embed") \ {i}
    BY <1>4, <2>1 DEF L!Linked, L!TypedPair
  <2> DEFINE o == With(me.existing \ {i})
  <2>3. /\ o \in SaverType /\ o.pc = "apply" /\ o.alone = me.alone
        /\ savers' = [savers EXCEPT ![r] = o]
        /\ o.existing = me.existing \ {i}
    BY <1>2, <1>4, <2>1
  <2>4. me.alone => o.existing = L!Linked("embed")'
    BY <1>1, <2>2, <2>3
  <2> HIDE DEF o
  <2> QED
    BY <1>1, <1>4, <2>2, <2>3, <2>4, SaverGoes
<1>5. ASSUME L!Added(r) \cup L!Removed(r) = {}, savers' = [savers EXCEPT ![r] = L!NoSaver],
             settled' = (me.alone /\ me.current = embeds), UNCHANGED links
      PROVE  LinksInv'
  <2>1. SaversTyped' /\ savers'[r].pc = "idle" /\ \A x \in Saver : x # r => savers'[x] = savers[x]
    BY <1>5, OneSaves, NoSaverTyped DEF LinksInv
  <2>2. me.current = me.existing
    BY <1>1, <1>5 DEF L!Added, L!Removed, SaverType
  <2>3. settled' => \A x \in Saver : x # r => savers[x].pc = "idle"
    BY <1>1, <1>5 DEF LinksInv, Alone
  <2>4. Quiet'
    BY <2>1, <2>3 DEF Quiet
  <2>5. Alone'
    BY <1>1, <1>5, <2>1 DEF LinksInv, Alone, L!Linked
  <2>6. L!Linked("embed")' = L!Linked("embed") /\ L!Linked("mention")' = L!Linked("mention")
    BY <1>5 DEF L!Linked
  <2>7. L!LinksFollowContent'
    BY <1>1, <1>5, <2>2, <2>6 DEF LinksInv, L!LinksFollowContent
  <2> QED
    BY <2>1, <2>4, <2>5, <2>7 DEF LinksInv
<1>6. ASSUME savers' = [savers EXCEPT ![r] = L!NoSaver], UNCHANGED <<links, settled>>
      PROVE  LinksInv'
  <2>1. L!Linked("mention")' = L!Linked("mention")
    BY <1>6 DEF L!Linked
  <2> QED
    BY <1>1, <1>6, <2>1, NoSaverTyped, SaverGoes
<1> QED
  BY <1>3, <1>4, <1>5, <1>6 DEF L!Apply

LEMMA LinkKeeps ==
    ASSUME LinksInv, NEW i \in Issue, NEW type \in {"embed", "mention"}, L!Link(i, type)
    PROVE  LinksInv'
<1> DEFINE as(x) == [savers[x] EXCEPT !.alone = @ /\ type = "mention"]
<1>1. /\ links' = links \cup {<<i, type>>} /\ embeds' = embeds
      /\ wished' = IF type = "mention" THEN wished \cup {i} ELSE wished
      /\ settled' = (settled /\ type = "mention")
      /\ savers' = [x \in Saver |-> as(x)]
  BY DEF L!Link
<1>2. \A x \in Saver : /\ as(x) \in SaverType /\ as(x).pc = savers[x].pc
                       /\ as(x).existing = savers[x].existing
                       /\ as(x).alone = (savers[x].alone /\ type = "mention")
  BY DEF LinksInv, SaversTyped, SaverType
<1> HIDE DEF as
<1>3. /\ type = "mention" => /\ L!Linked("embed")' = L!Linked("embed")
                             /\ L!Linked("mention")' = L!Linked("mention") \cup {i}
      /\ type = "embed" => L!Linked("mention")' = L!Linked("mention")
  BY <1>1 DEF L!Linked
<1>4. SaversTyped'
  BY <1>1, <1>2 DEF SaversTyped
<1>5. Alone'
  BY <1>1, <1>2, <1>3 DEF LinksInv, Alone
<1>6. Quiet'
  BY <1>1, <1>2 DEF LinksInv, Quiet
<1>7. L!LinksFollowContent'
  BY <1>1, <1>3 DEF LinksInv, L!LinksFollowContent
<1> QED
  BY <1>4, <1>5, <1>6, <1>7 DEF LinksInv

LEMMA UnlinkKeeps ==
    ASSUME LinksInv, NEW i \in Issue, L!Unlink(i)
    PROVE  LinksInv'
<1> DEFINE as(x) == [savers[x] EXCEPT !.alone = FALSE]
<1>1. /\ links' = links \ ({i} \X {"embed", "mention"})
      /\ wished' = wished \ {i} /\ settled' = FALSE
      /\ savers' = [x \in Saver |-> as(x)]
  BY DEF L!Unlink
<1>2. \A x \in Saver : as(x) \in SaverType /\ as(x).alone = FALSE
  BY DEF LinksInv, SaversTyped, SaverType
<1> HIDE DEF as
<1>3. L!Linked("mention")' = L!Linked("mention") \ {i}
  BY <1>1 DEF L!Linked
<1>4. SaversTyped' /\ Alone' /\ Quiet'
  BY <1>1, <1>2 DEF SaversTyped, Alone, Quiet
<1>5. L!LinksFollowContent'
  BY <1>1, <1>3 DEF LinksInv, L!LinksFollowContent
<1> QED
  BY <1>4, <1>5 DEF LinksInv

LEMMA LinksStay ==
    ASSUME LinksInv, UNCHANGED <<embeds, links, savers, settled, wished>>
    PROVE  LinksInv'
BY DEF LinksInv, SaversTyped, Alone, Quiet, L!LinksFollowContent, L!Linked

LEMMA LinksStep == LinksInv /\ [PublishingNext]_allVars => LinksInv'
<1> SUFFICES ASSUME LinksInv, [PublishingNext]_allVars PROVE LinksInv'
  OBVIOUS
<1>1. CASE UNCHANGED L!linkVars
  BY <1>1, LinksStay DEF L!linkVars
<1>2. ASSUME NEW r \in Saver, NEW content \in SUBSET Issue, L!Save(r, content) PROVE LinksInv'
  BY <1>2, SaveKeeps
<1>3. ASSUME NEW r \in Saver, L!ReadLinks(r) PROVE LinksInv'
  BY <1>3, ReadLinksKeeps
<1>4. ASSUME NEW r \in Saver, L!Apply(r) PROVE LinksInv'
  BY <1>4, ApplyKeeps
<1>5. ASSUME NEW i \in Issue, L!Unlink(i) PROVE LinksInv'
  BY <1>5, UnlinkKeeps
<1>6. ASSUME NEW i \in Issue, L!SpendOn(i) PROVE LinksInv'
  BY <1>6, LinksStay DEF L!SpendOn
<1>7. ASSUME NEW i \in Issue, L!Link(i, "embed") \/ L!Link(i, "mention") PROVE LinksInv'
  BY <1>7, LinkKeeps
<1>8. ASSUME NEW s \in Syncer, NEW i \in Issue, L!Expire(s, i) \/ L!GetIssue(s, i) PROVE LinksInv'
  BY <1>8, LinksStay DEF L!Expire, L!GetIssue
<1>9. ASSUME NEW s \in Syncer, L!BeginSum(s) \/ L!AddIssue(s) \/ L!WriteTotal(s) PROVE LinksInv'
  BY <1>9, LinksStay DEF L!BeginSum, L!AddIssue, L!WriteTotal
<1> QED
  BY PartSteps, <1>1, <1>2, <1>3, <1>4, <1>5, <1>6, <1>7, <1>8, <1>9 DEF L!LinksNext

(* A reconciliation that was alone and got to its end leaves the content's embeds, and  *)
(* none ever touches a link made by hand (pagelink/store.go SyncLinks, deleteTyped).   *)
THEOREM LinksFollow == PublishingSpec => []LinksFollowContent
<1>1. PublishingInit => LinksInv
  BY LinksStart, LinksInitially
<1>2. LinksInv /\ [PublishingNext]_allVars => LinksInv'
  BY LinksStep
<1>3. LinksInv => LinksFollowContent
  BY DEF LinksInv, LinksFollowContent
<1> QED
  BY <1>1, <1>2, <1>3, PTL DEF PublishingSpec, allVars

-----------------------------------------------------------------------------
(* What the issues of a page cost.                                          *)

(* The sum of f over Q, as a set: f[i] pairs for each i. *)
Stack(f, Q) == UNION {{i} \X (1..f[i]) : i \in Q}

SumsTyped ==
    /\ spent \in [Issue -> Nat]
    /\ cache \in [Syncer -> [Issue -> Nat]]
    /\ syncs \in [Syncer -> [pc : {"idle", "sum"}, issues : SUBSET Issue, left : SUBSET Issue,
                             sum : Nat]]
    /\ last \in [Syncer -> [issues : SUBSET Issue, sum : Nat]]

CacheStands == \A s \in Syncer, i \in Issue : cache[s][i] = 99 \/ cache[s][i] <= spent[i]

Counted(s) == syncs[s].issues \ syncs[s].left

(* The last total written was f of its issues, the one being made is g of the issues    *)
(* counted so far, and neither is above what the process knows of an issue now; where   *)
(* both count an issue, the later has not counted less.                               *)
Adds(s, f, g) ==
    /\ syncs[s].left \subseteq syncs[s].issues
    /\ last[s].sum = Cardinality(Stack(f, last[s].issues))
    /\ IsFiniteSet(Stack(g, Counted(s)))
    /\ syncs[s].sum = Cardinality(Stack(g, Counted(s)))
    /\ \A i \in last[s].issues : f[i] <= L!Known(s, i)
    /\ \A i \in Counted(s) : /\ g[i] <= L!Known(s, i)
                             /\ i \in last[s].issues => f[i] <= g[i]

SumStands(s) == \E f, g \in [Issue -> Nat] : Adds(s, f, g)

SumInv == SumsTyped /\ CacheStands /\ \A s \in Syncer : SumStands(s)

LEMMA EmptyStack == \A f : /\ Stack(f, {}) = {} /\ IsFiniteSet(Stack(f, {}))
                           /\ Cardinality(Stack(f, {})) = 0
<1>1. \A f : Stack(f, {}) = {}
  BY DEF Stack
<1> QED
  BY <1>1, FS_EmptySet

(* One more issue adds what it is counted for. *)
CountsOneMore(g, h, Q, i, n) ==
    /\ Q \in SUBSET Issue /\ i \in Issue \ Q /\ n \in Nat
    /\ g \in [Issue -> Nat] /\ IsFiniteSet(Stack(g, Q))
    /\ h \in [Issue -> Nat] /\ h[i] = n /\ \A j \in Q : h[j] = g[j]

StackIsTaller(g, h, Q, i, n) ==
    /\ IsFiniteSet(Stack(h, Q \cup {i}))
    /\ Cardinality(Stack(h, Q \cup {i})) = Cardinality(Stack(g, Q)) + n

LEMMA StackGrows ==
    ASSUME NEW g, NEW h, NEW Q, NEW i, NEW n, CountsOneMore(g, h, Q, i, n)
    PROVE  StackIsTaller(g, h, Q, i, n)
<1>0. /\ Q \in SUBSET Issue /\ i \in Issue /\ i \notin Q /\ n \in Nat
      /\ g \in [Issue -> Nat] /\ IsFiniteSet(Stack(g, Q))
      /\ h \in [Issue -> Nat] /\ h[i] = n /\ \A j \in Q : h[j] = g[j]
  BY DEF CountsOneMore
<1> USE <1>0
<1> DEFINE more == {i} \X (1..n)
<1>2. Stack(h, Q \cup {i}) = Stack(g, Q) \cup more
  BY DEF Stack
<1>3. Stack(g, Q) \cap more = {}
  BY DEF Stack
<1>4. IsFiniteSet(more) /\ Cardinality(more) = n
  <2>1. 1 \in Int /\ n \in Int
    OBVIOUS
  <2>2. IsFiniteSet(1..n) /\ Cardinality(1..n) = IF 1 > n THEN 0 ELSE n - 1 + 1
    BY <2>1, FS_Interval
  <2>3. IsFiniteSet({i}) /\ Cardinality({i}) = 1
    BY FS_Singleton
  <2>4. IsFiniteSet(more) /\ Cardinality(more) = Cardinality({i}) * Cardinality(1..n)
    BY <2>2, <2>3, FS_Product
  <2>5. Cardinality(1..n) = n
    BY <2>2
  <2>6. \A m \in Nat : 1 * m = m
    OBVIOUS
  <2> QED
    BY <2>3, <2>4, <2>5, <2>6, Zenon
<1> HIDE DEF more
<1>5. Cardinality(Stack(g, Q) \cap more) = 0
  BY <1>3, FS_EmptySet
<1>6. IsFiniteSet(Stack(g, Q) \cup more)
      /\ Cardinality(Stack(g, Q) \cup more) = Cardinality(Stack(g, Q)) + Cardinality(more) - 0
  BY <1>4, <1>5, FS_Union
<1>7. Cardinality(Stack(g, Q)) \in Nat
  BY FS_CardinalityType
<1>8. \A m, k \in Nat : m + k - 0 = m + k
  OBVIOUS
<1> QED
  BY <1>2, <1>4, <1>6, <1>7, <1>8, Zenon DEF StackIsTaller

LEMMA SumInitially == L!LinksInit => SumInv
<1> SUFFICES ASSUME L!LinksInit PROVE SumInv
  OBVIOUS
<1>1. SumsTyped
  BY DEF L!LinksInit, L!NoSync, L!Unread, SumsTyped
<1>2. CacheStands
  BY DEF L!LinksInit, L!Unread, CacheStands
<1>3. ASSUME NEW s \in Syncer PROVE SumStands(s)
  <2> DEFINE f == [i \in Issue |-> 0]
  <2>1. f \in [Issue -> Nat]
    OBVIOUS
  <2>2. /\ last[s].issues = {} /\ last[s].sum = 0 /\ Counted(s) = {} /\ syncs[s].sum = 0
        /\ syncs[s].left \subseteq syncs[s].issues
    BY DEF L!LinksInit, L!NoSync, Counted
  <2> HIDE DEF f
  <2>3. Adds(s, f, f)
    BY <2>2, EmptyStack DEF Adds
  <2> QED
    BY <2>1, <2>3 DEF SumStands
<1> QED
  BY <1>1, <1>2, <1>3 DEF SumInv

(* What a process knows of an issue never goes down. *)
KnowsMore(s) == \A i \in Issue : /\ L!Known(s, i) \in Nat /\ L!Known(s, i)' \in Nat
                                 /\ L!Known(s, i) <= L!Known(s, i)'

LEMMA KnownIsNat ==
    ASSUME SumsTyped, NEW s \in Syncer, NEW i \in Issue
    PROVE  L!Known(s, i) \in Nat
BY DEF SumsTyped, L!Known

LEMMA SumWaits ==
    ASSUME SumInv, NEW s \in Syncer, KnowsMore(s), last'[s] = last[s], syncs'[s] = syncs[s]
    PROVE  SumStands(s)'
<1>1. PICK f \in [Issue -> Nat], g \in [Issue -> Nat] : Adds(s, f, g)
  BY DEF SumInv, SumStands
<1>2. Counted(s)' = Counted(s) /\ Counted(s) \subseteq Issue /\ last[s].issues \subseteq Issue
  BY DEF Counted, SumInv, SumsTyped
<1>3. \A i \in Issue : \A n \in Nat : n <= L!Known(s, i) => n <= L!Known(s, i)'
  BY DEF KnowsMore
<1>4. Adds(s, f, g)'
  BY <1>1, <1>2, <1>3 DEF Adds
<1> QED
  BY <1>4 DEF SumStands

(* What a process knows stays, or was forgotten, or Track has more. *)
LEMMA KnowingStays ==
    ASSUME SumInv, SumsTyped', NEW s \in Syncer,
           \A i \in Issue : /\ spent[i] <= spent'[i]
                            /\ \/ cache'[s][i] = cache[s][i]
                               \/ cache'[s][i] = 99
                               \/ cache'[s][i] = L!Known(s, i) /\ spent'[i] = spent[i]
    PROVE  KnowsMore(s)
<1> SUFFICES ASSUME NEW i \in Issue
             PROVE  /\ L!Known(s, i) \in Nat /\ L!Known(s, i)' \in Nat
                    /\ L!Known(s, i) <= L!Known(s, i)'
  BY DEF KnowsMore
<1>1. /\ spent[i] \in Nat /\ spent'[i] \in Nat /\ cache[s][i] \in Nat /\ cache'[s][i] \in Nat
      /\ cache[s][i] = 99 \/ cache[s][i] <= spent[i]
  BY DEF SumInv, SumsTyped, CacheStands
<1> QED
  BY <1>1 DEF L!Known, L!Unread

LEMMA ProcessesWait ==
    ASSUME SumInv, SumsTyped', CacheStands', \A s \in Syncer : KnowsMore(s), UNCHANGED <<last, syncs>>
    PROVE  SumInv'
BY SumWaits DEF SumInv

(* A step of the sweep of s, which is then at o: the others wait. *)
LEMMA SweepGoes ==
    ASSUME SumInv, SumsTyped', CacheStands', NEW s \in Syncer, \A x \in Syncer : KnowsMore(x),
           \A x \in Syncer : x # s => last'[x] = last[x] /\ syncs'[x] = syncs[x],
           SumStands(s)'
    PROVE  SumInv'
BY SumWaits DEF SumInv

SyncType == [pc : {"idle", "sum"}, issues : SUBSET Issue, left : SUBSET Issue, sum : Nat]

LEMMA OneSyncs ==
    ASSUME SumsTyped, NEW s \in Syncer, NEW o \in SyncType, syncs' = [syncs EXCEPT ![s] = o]
    PROVE  /\ syncs' \in [Syncer -> SyncType]
           /\ syncs'[s] = o /\ \A x \in Syncer : x # s => syncs'[x] = syncs[x]
BY DEF SumsTyped, SyncType

(* A sweep that begins, or gives up, has counted nothing. *)
LEMMA SweepAnew ==
    ASSUME SumInv, NEW s \in Syncer, NEW o \in SyncType, syncs' = [syncs EXCEPT ![s] = o],
           o.issues = o.left, o.sum = 0, UNCHANGED <<spent, cache, last>>
    PROVE  SumInv'
<1>1. syncs' \in [Syncer -> SyncType] /\ syncs'[s] = o /\ \A x \in Syncer : x # s => syncs'[x] = syncs[x]
  BY OneSyncs DEF SumInv
<1>2. SumsTyped' /\ CacheStands'
  BY <1>1 DEF SumInv, SumsTyped, SyncType, CacheStands
<1>3. \A x \in Syncer : KnowsMore(x)
  BY <1>2, KnowingStays DEF SumInv, SumsTyped
<1>4. PICK f \in [Issue -> Nat], g \in [Issue -> Nat] : Adds(s, f, g)
  BY DEF SumInv, SumStands
<1>5. Counted(s)' = {} /\ syncs'[s].sum = 0 /\ syncs'[s].left \subseteq syncs'[s].issues
  BY <1>1 DEF Counted
<1>6. \A i \in Issue : L!Known(s, i)' = L!Known(s, i)
  BY DEF L!Known
<1>7. last[s].issues \subseteq Issue
  BY DEF SumInv, SumsTyped
<1>8. Adds(s, f, g)'
  BY <1>4, <1>5, <1>6, <1>7, EmptyStack DEF Adds
<1>9. SumStands(s)'
  BY <1>8 DEF SumStands
<1> QED
  BY <1>1, <1>2, <1>3, <1>9, SweepGoes

LEMMA NoSyncTyped == L!NoSync \in SyncType /\ L!NoSync.issues = L!NoSync.left /\ L!NoSync.sum = 0
BY DEF L!NoSync, SyncType

LEMMA AddIssueKeeps ==
    ASSUME SumInv, NEW s \in Syncer, L!AddIssue(s)
    PROVE  SumInv'
<1>1. UNCHANGED <<spent, last>> /\ syncs[s] \in SyncType /\ SumsTyped /\ CacheStands
  BY DEF L!AddIssue, SumInv, SumsTyped, SyncType
<1>2. ASSUME NEW i \in syncs[s].left,
             syncs' = [syncs EXCEPT ![s].left = @ \ {i}, ![s].sum = @ + L!Known(s, i)],
             cache' = [cache EXCEPT ![s][i] = L!Known(s, i)]
      PROVE  SumInv'
  <2>1. i \in Issue
    BY <1>1 DEF SyncType
  <2> DEFINE n == L!Known(s, i)
             o == [syncs[s] EXCEPT !.left = @ \ {i}, !.sum = @ + n]
  <2>2. n \in Nat /\ (n = 99 \/ n <= spent[i])
    <3>1. spent[i] \in Nat /\ cache[s][i] \in Nat /\ (cache[s][i] = 99 \/ cache[s][i] <= spent[i])
      BY <1>1, <2>1 DEF SumsTyped, CacheStands
    <3> QED
      BY <3>1 DEF L!Known, L!Unread
  <2>3. syncs' = [syncs EXCEPT ![s] = o]
    BY <1>1, <1>2 DEF SumsTyped
  <2>4. /\ o \in SyncType /\ o.issues = syncs[s].issues /\ o.left = syncs[s].left \ {i}
        /\ o.sum = syncs[s].sum + n
    <3>1. syncs[s].sum + n \in Nat /\ syncs[s].left \ {i} \in SUBSET Issue
      BY <1>1, <2>2 DEF SyncType
    <3> HIDE DEF n
    <3> QED
      BY <1>1, <3>1 DEF SyncType
  <2>5. /\ cache'[s][i] = n /\ \A j \in Issue : j # i => cache'[s][j] = cache[s][j]
        /\ \A x \in Syncer : x # s => cache'[x] = cache[x]
        /\ cache' \in [Syncer -> [Issue -> Nat]]
    BY <1>1, <1>2, <2>1, <2>2 DEF SumsTyped
  <2>6. L!Known(s, i)' = n
    BY <1>1, <2>5 DEF L!Known
  <2> HIDE DEF o, n
  <2>7. syncs' \in [Syncer -> SyncType] /\ syncs'[s] = o /\ \A x \in Syncer : x # s => syncs'[x] = syncs[x]
    BY <1>1, <2>3, <2>4, OneSyncs
  <2>8. SumsTyped'
    BY <1>1, <2>5, <2>7 DEF SumsTyped, SyncType
  <2>9. CacheStands'
    <3> SUFFICES ASSUME NEW x \in Syncer, NEW j \in Issue
                 PROVE  cache'[x][j] = 99 \/ cache'[x][j] <= spent'[j]
      BY DEF CacheStands
    <3>1. CASE x = s /\ j = i
      BY <1>1, <2>2, <2>5, <3>1
    <3>2. CASE ~ (x = s /\ j = i)
      BY <1>1, <2>5, <3>2 DEF CacheStands
    <3> QED
      BY <3>1, <3>2
  <2>10. \A x \in Syncer : KnowsMore(x)
    <3> SUFFICES ASSUME NEW x \in Syncer PROVE KnowsMore(x)
      OBVIOUS
    <3>1. \A j \in Issue : spent[j] <= spent'[j] /\ spent'[j] = spent[j]
      BY <1>1 DEF SumsTyped
    <3>2. \A j \in Issue : cache'[x][j] = cache[x][j] \/ cache'[x][j] = L!Known(x, j)
      BY <2>5 DEF n
    <3> QED
      BY <2>8, <3>1, <3>2, KnowingStays
  <2>11. PICK f \in [Issue -> Nat], g \in [Issue -> Nat] : Adds(s, f, g)
    BY DEF SumInv, SumStands
  <2>0. PICK h \in [Issue -> Nat] : h = [g EXCEPT ![i] = n]
    BY <2>1, <2>2
  <2>12. h[i] = n /\ \A j \in Issue : j # i => h[j] = g[j]
    BY <2>0, <2>1
  <2>13. i \in syncs[s].issues /\ o.left \subseteq o.issues
    BY <1>2, <2>4, <2>11 DEF Adds
  <2>14. Counted(s)' = Counted(s) \cup {i} /\ i \notin Counted(s) /\ Counted(s) \in SUBSET Issue
    BY <1>1, <1>2, <2>4, <2>7, <2>13 DEF Counted, SyncType
  <2>15. /\ IsFiniteSet(Stack(h, Counted(s) \cup {i}))
        /\ Cardinality(Stack(h, Counted(s) \cup {i})) = Cardinality(Stack(g, Counted(s))) + n
    <3>1. IsFiniteSet(Stack(g, Counted(s)))
      BY <2>11 DEF Adds
    <3>2. Counted(s) \in SUBSET Issue /\ i \notin Counted(s)
      BY <2>14
    <3>3. \A j \in Counted(s) : h[j] = g[j]
      BY <2>12, <3>2
    <3>4. CountsOneMore(g, h, Counted(s), i, n)
      BY <2>1, <2>2, <2>11, <2>12, <3>1, <3>2, <3>3 DEF CountsOneMore
    <3>5. StackIsTaller(g, h, Counted(s), i, n)
      BY <3>4, StackGrows
    <3> QED
      BY <3>5 DEF StackIsTaller
  <2>16. /\ IsFiniteSet(Stack(h, Counted(s)))'
        /\ syncs'[s].sum = Cardinality(Stack(h, Counted(s)))'
    BY <2>4, <2>7, <2>11, <2>14, <2>15 DEF Adds
  <2>17. \A j \in Issue : \A m \in Nat : m <= L!Known(s, j) => m <= L!Known(s, j)'
    BY <2>10 DEF KnowsMore
  <2>18. last[s].issues \subseteq Issue
    BY <1>1 DEF SumsTyped
  <2>19. \A j \in last[s].issues : f[j] <= L!Known(s, j)'
    BY <2>11, <2>17, <2>18 DEF Adds
  <2>20. h[i] <= L!Known(s, i)' /\ (i \in last[s].issues => f[i] <= h[i])
    BY <2>2, <2>6, <2>11, <2>12 DEF Adds, n
  <2>21. \A j \in Counted(s) : /\ h[j] <= L!Known(s, j)'
                               /\ j \in last[s].issues => f[j] <= h[j]
    BY <2>11, <2>12, <2>14, <2>17 DEF Adds
  <2>22. Adds(s, f, h)'
    <3>1. last'[s].sum = Cardinality(Stack(f, last'[s].issues))
      BY <1>1, <2>11 DEF Adds
    <3>2. \A j \in Counted(s)' : /\ h[j] <= L!Known(s, j)'
                                 /\ j \in last'[s].issues => f[j] <= h[j]
      <4> SUFFICES ASSUME NEW j \in Counted(s)'
                   PROVE  /\ h[j] <= L!Known(s, j)'
                          /\ j \in last'[s].issues => f[j] <= h[j]
        OBVIOUS
      <4>1. CASE j = i
        BY <1>1, <2>20, <4>1
      <4>2. CASE j \in Counted(s)
        BY <1>1, <2>21, <4>2
      <4> QED
        BY <2>14, <4>1, <4>2
    <3>3. \A j \in last'[s].issues : f[j] <= L!Known(s, j)'
      BY <1>1, <2>19
    <3>4. syncs'[s].left \subseteq syncs'[s].issues
      BY <2>7, <2>13
    <3> QED
      BY <2>16, <3>1, <3>2, <3>3, <3>4 DEF Adds
  <2>23. SumStands(s)'
    BY <2>0, <2>22 DEF SumStands
  <2> QED
    BY <1>1, <2>7, <2>8, <2>9, <2>10, <2>23, SweepGoes
<1>3. ASSUME syncs' = [syncs EXCEPT ![s] = L!NoSync], UNCHANGED cache
      PROVE  SumInv'
  BY <1>1, <1>3, NoSyncTyped, SweepAnew
<1> QED
  BY <1>2, <1>3 DEF L!AddIssue, L!Unreadable

LEMMA WriteTotalKeeps ==
    ASSUME SumInv, NEW s \in Syncer, L!WriteTotal(s)
    PROVE  SumInv'
<1>1. /\ syncs[s].left = {} /\ syncs' = [syncs EXCEPT ![s] = L!NoSync] /\ UNCHANGED <<spent, cache>>
      /\ SumsTyped /\ CacheStands /\ syncs[s] \in SyncType
  BY DEF L!WriteTotal, SumInv, SumsTyped, SyncType
<1>2. CASE last' = [last EXCEPT ![s] = [issues |-> syncs[s].issues, sum |-> syncs[s].sum]]
  <2>1. /\ syncs' \in [Syncer -> SyncType] /\ syncs'[s] = L!NoSync
        /\ \A x \in Syncer : x # s => syncs'[x] = syncs[x]
    BY <1>1, OneSyncs, NoSyncTyped
  <2>2. /\ last'[s].issues = syncs[s].issues /\ last'[s].sum = syncs[s].sum
        /\ \A x \in Syncer : x # s => last'[x] = last[x]
        /\ last' \in [Syncer -> [issues : SUBSET Issue, sum : Nat]]
    BY <1>1, <1>2 DEF SumsTyped, SyncType
  <2>3. SumsTyped' /\ CacheStands'
    BY <1>1, <2>1, <2>2 DEF SumsTyped, SyncType, CacheStands
  <2>4. \A x \in Syncer : KnowsMore(x)
    BY <1>1, <2>3, KnowingStays DEF SumsTyped
  <2>5. PICK f \in [Issue -> Nat], g \in [Issue -> Nat] : Adds(s, f, g)
    BY DEF SumInv, SumStands
  <2>6. Counted(s) = syncs[s].issues /\ syncs[s].issues \subseteq Issue
    BY <1>1 DEF Counted, SyncType
  <2>7. Counted(s)' = {} /\ syncs'[s].sum = 0 /\ syncs'[s].left \subseteq syncs'[s].issues
    BY <2>1, NoSyncTyped DEF Counted
  <2>8. \A i \in Issue : L!Known(s, i)' = L!Known(s, i)
    BY <1>1 DEF L!Known
  <2>9. last'[s].sum = Cardinality(Stack(g, last'[s].issues))
    BY <2>2, <2>5, <2>6 DEF Adds
  <2>10. \A i \in last'[s].issues : g[i] <= L!Known(s, i)'
    BY <2>2, <2>5, <2>6, <2>8 DEF Adds
  <2>11. Adds(s, g, g)'
    BY <2>7, <2>9, <2>10, EmptyStack DEF Adds
  <2>12. SumStands(s)'
    BY <2>11 DEF SumStands
  <2> QED
    BY <2>1, <2>2, <2>3, <2>4, <2>12, SweepGoes
<1>3. CASE UNCHANGED last
  BY <1>1, <1>3, NoSyncTyped, SweepAnew
<1> QED
  BY <1>2, <1>3 DEF L!WriteTotal

LEMMA SumStep == SumInv /\ [PublishingNext]_allVars => SumInv'
<1> SUFFICES ASSUME SumInv, [PublishingNext]_allVars PROVE SumInv'
  OBVIOUS
<1>1. ASSUME UNCHANGED <<spent, cache, syncs, last>> PROVE SumInv'
  <2>1. SumsTyped' /\ CacheStands'
    BY <1>1 DEF SumInv, SumsTyped, CacheStands
  <2>2. \A s \in Syncer : KnowsMore(s)
    BY <1>1, <2>1, KnowingStays DEF SumInv, SumsTyped
  <2> QED
    BY <1>1, <2>1, <2>2, ProcessesWait
<1>2. CASE UNCHANGED L!linkVars
  BY <1>1, <1>2 DEF L!linkVars
<1>3. ASSUME NEW r \in Saver, \/ \E content \in SUBSET Issue : L!Save(r, content)
                              \/ L!ReadLinks(r) \/ L!Apply(r)
      PROVE  SumInv'
  BY <1>1, <1>3 DEF L!Save, L!ReadLinks, L!Apply
<1>4. ASSUME NEW i \in Issue, L!Unlink(i) \/ L!Link(i, "embed") \/ L!Link(i, "mention")
      PROVE  SumInv'
  BY <1>1, <1>4 DEF L!Unlink, L!Link
<1>5. ASSUME NEW i \in Issue, L!SpendOn(i) PROVE SumInv'
  <2>1. spent' = [spent EXCEPT ![i] = @ + 1] /\ UNCHANGED <<cache, syncs, last>> /\ SumsTyped /\ CacheStands
    BY <1>5 DEF L!SpendOn, SumInv
  <2>2. spent' \in [Issue -> Nat] /\ \A j \in Issue : spent[j] \in Nat /\ spent[j] <= spent'[j]
    BY <2>1 DEF SumsTyped
  <2>3. SumsTyped'
    BY <2>1, <2>2 DEF SumsTyped
  <2>4. CacheStands'
    <3> SUFFICES ASSUME NEW s \in Syncer, NEW j \in Issue
                 PROVE  cache[s][j] = 99 \/ cache[s][j] <= spent'[j]
      BY <2>1 DEF CacheStands
    <3>1. cache[s][j] \in Nat /\ (cache[s][j] = 99 \/ cache[s][j] <= spent[j]) /\ spent'[j] \in Nat
      BY <2>1, <2>2 DEF SumsTyped, CacheStands
    <3> QED
      BY <2>2, <3>1
  <2>5. \A s \in Syncer : KnowsMore(s)
    BY <2>1, <2>2, <2>3, KnowingStays
  <2> QED
    BY <2>1, <2>3, <2>4, <2>5, ProcessesWait
<1>6. ASSUME NEW s \in Syncer, NEW i \in Issue, L!Expire(s, i) \/ L!GetIssue(s, i) PROVE SumInv'
  <2>1. PICK n : /\ cache' = [cache EXCEPT ![s][i] = n]
                 /\ n = 99 \/ (n = spent[i] /\ cache[s][i] = 99)
    BY <1>6 DEF L!Expire, L!GetIssue, L!Unread
  <2>2. UNCHANGED <<spent, syncs, last>> /\ SumsTyped /\ CacheStands
    BY <1>6 DEF L!Expire, L!GetIssue, SumInv
  <2>3. n \in Nat /\ (n = 99 \/ n <= spent[i])
    BY <2>1, <2>2 DEF SumsTyped
  <2>4. /\ cache'[s][i] = n /\ \A j \in Issue : j # i => cache'[s][j] = cache[s][j]
        /\ \A x \in Syncer : x # s => cache'[x] = cache[x]
        /\ cache' \in [Syncer -> [Issue -> Nat]]
    BY <2>1, <2>2, <2>3 DEF SumsTyped
  <2>5. SumsTyped'
    BY <2>2, <2>4 DEF SumsTyped
  <2>6. CacheStands'
    <3> SUFFICES ASSUME NEW x \in Syncer, NEW j \in Issue
                 PROVE  cache'[x][j] = 99 \/ cache'[x][j] <= spent[j]
      BY <2>2 DEF CacheStands
    <3>1. CASE x = s /\ j = i
      BY <2>3, <2>4, <3>1
    <3>2. CASE ~ (x = s /\ j = i)
      BY <2>2, <2>4, <3>2 DEF CacheStands
    <3> QED
      BY <3>1, <3>2
  <2>7. ASSUME NEW x \in Syncer PROVE KnowsMore(x)
    <3>1. \A j \in Issue : spent[j] <= spent'[j] /\ spent'[j] = spent[j]
      BY <2>2 DEF SumsTyped
    <3>2. \A j \in Issue : \/ cache'[x][j] = cache[x][j] \/ cache'[x][j] = 99
                           \/ cache'[x][j] = L!Known(x, j)
      BY <2>1, <2>4 DEF L!Known, L!Unread
    <3> QED
      BY <2>5, <3>1, <3>2, KnowingStays
  <2> QED
    BY <2>2, <2>5, <2>6, <2>7, ProcessesWait
<1>7. ASSUME NEW s \in Syncer, L!BeginSum(s) PROVE SumInv'
  <2> DEFINE o == [pc |-> "sum", issues |-> L!Linked("embed"), left |-> L!Linked("embed"), sum |-> 0]
  <2>1. o \in SyncType /\ o.issues = o.left /\ o.sum = 0
    BY DEF SyncType, L!Linked
  <2>2. syncs' = [syncs EXCEPT ![s] = o] /\ UNCHANGED <<spent, cache, last>>
    BY <1>7 DEF L!BeginSum
  <2> HIDE DEF o
  <2> QED
    BY <2>1, <2>2, SweepAnew
<1>8. ASSUME NEW s \in Syncer, L!AddIssue(s) PROVE SumInv'
  BY <1>8, AddIssueKeeps
<1>9. ASSUME NEW s \in Syncer, L!WriteTotal(s) PROVE SumInv'
  BY <1>9, WriteTotalKeeps
<1> QED
  BY PartSteps, <1>2, <1>3, <1>4, <1>5, <1>6, <1>7, <1>8, <1>9 DEF L!LinksNext

WritesUp == \A s \in Syncer :
                last[s].issues \subseteq last'[s].issues => last'[s].sum >= last[s].sum

LEMMA SumShows == SumInv /\ [PublishingNext]_allVars => [WritesUp]_(L!linkVars)
<1> SUFFICES ASSUME SumInv, [PublishingNext]_allVars, NEW s \in Syncer,
                    last[s].issues \subseteq last'[s].issues
             PROVE  last'[s].sum >= last[s].sum
  BY DEF WritesUp
<1>1. last[s].sum \in Nat /\ SumsTyped
  BY DEF SumInv, SumsTyped
<1>2. CASE last'[s] = last[s]
  BY <1>1, <1>2
<1>3. CASE last'[s] # last[s]
  <2>1. \E x \in Syncer : L!WriteTotal(x)
    BY <1>3, PartSteps DEF L!LinksNext, L!linkVars, L!Save, L!ReadLinks, L!Apply, L!Unlink, L!SpendOn,
       L!Link, L!Expire, L!GetIssue, L!BeginSum, L!AddIssue
  <2>2. PICK x \in Syncer : L!WriteTotal(x)
    BY <2>1
  <2>3. /\ x = s /\ syncs[s].left = {}
        /\ last'[s].issues = syncs[s].issues /\ last'[s].sum = syncs[s].sum
    BY <1>1, <1>3, <2>2 DEF L!WriteTotal, SumsTyped
  <2>4. PICK f \in [Issue -> Nat], g \in [Issue -> Nat] : Adds(s, f, g)
    BY DEF SumInv, SumStands
  <2>5. Counted(s) = last'[s].issues /\ last'[s].issues \subseteq Issue
    BY <1>1, <2>3 DEF Counted, SumsTyped
  <2>6. ASSUME NEW i \in last[s].issues PROVE i \in Issue /\ f[i] \in Nat /\ g[i] \in Nat /\ f[i] <= g[i]
    BY <2>4, <2>5 DEF Adds
  <2>7. Stack(f, last[s].issues) \subseteq Stack(g, Counted(s))
    BY <2>5, <2>6 DEF Stack
  <2>8. IsFiniteSet(Stack(g, Counted(s)))
    BY <2>4 DEF Adds
  <2>9. Cardinality(Stack(f, last[s].issues)) <= Cardinality(Stack(g, Counted(s)))
    BY <2>7, <2>8, FS_Subset
  <2>10. Cardinality(Stack(g, Counted(s))) \in Nat
    BY <2>8, FS_CardinalityType
  <2>11. last[s].sum <= last'[s].sum /\ last'[s].sum \in Nat
    BY <2>3, <2>4, <2>9, <2>10 DEF Adds
  <2> QED
    BY <1>1, <2>11
<1> QED
  BY <1>2, <1>3

(* A process never writes less for a page than it did while no issue is unlinked from it:  *)
(* what it knows of an issue's cost never goes down, and what it cannot read ends the sum   *)
(* (syncer.go pageTotal, client.go IssueCost).                                           *)
THEOREM NeverWrittenDown == PublishingSpec => NoWriteDown
<1>1. PublishingInit => SumInv
  BY LinksStart, SumInitially
<1>2. SumInv /\ [PublishingNext]_allVars => SumInv'
  BY SumStep
<1>3. PublishingSpec => [][WritesUp]_(L!linkVars)
  BY <1>1, <1>2, SumShows, PTL DEF PublishingSpec, allVars
<1> QED
  BY <1>3, PTL DEF NoWriteDown, L!NoWriteDown, WritesUp

-----------------------------------------------------------------------------
(* Search. Every answer is cut out of one order of the readable matches.      *)

LEMMA SearchOrder == \A A, R : S!Ordered(A, R) = Ordered(A, R)
BY DEF S!Ordered, Ordered, S!Cardinality, Cardinality, S!IsFiniteSet, IsFiniteSet

LEMMA LeastOfTwo ==
    ASSUME NEW a \in Nat, NEW b \in Nat
    PROVE  S!Min({a, b}) = IF a <= b THEN a ELSE b
BY DEF S!Min

LEMMA MostOfTwo ==
    ASSUME NEW a \in Nat, NEW b \in Nat
    PROVE  S!Max({a, b}) = IF a >= b THEN a ELSE b
BY DEF S!Max

LEMMA RowsAre == IsFiniteSet(S!Row) /\ S!Row \subseteq Nat /\ Cardinality(S!Row) \in Nat
<1>1. 1 \in Int /\ Rows \in Int
  BY PublishingAssumption DEF S!SearchSizes
<1>2. IsFiniteSet(1..Rows)
  BY <1>1, FS_Interval
<1> QED
  BY <1>2, FS_CardinalityType DEF S!Row

(* LIMIT and OFFSET: the places from from + 1 on, n of them or what is left. *)
Remaining(len, from, n) == IF len <= from THEN 0 ELSE IF len <= from + n THEN len - from ELSE n

LEMMA CutIs ==
    ASSUME NEW Of, NEW s \in Seq(Of), NEW from \in Nat, NEW n \in Nat
    PROVE  /\ S!Cut(s, from, n) \in Seq(Of)
           /\ Len(S!Cut(s, from, n)) = Remaining(Len(s), from, n)
           /\ \A k \in 1..Remaining(Len(s), from, n) :
                 from + k \in 1..Len(s) /\ S!Cut(s, from, n)[k] = s[from + k]
<1>1. PICK len : len = Len(s) /\ len \in Nat
  OBVIOUS
<1>2. PICK to : to = (IF from + n <= len THEN from + n ELSE len) /\ to \in Nat
  BY <1>1
<1>3. S!Cut(s, from, n) = SubSeq(s, from + 1, to)
  BY <1>1, <1>2, LeastOfTwo DEF S!Cut
<1>4. PICK t : t = SubSeq(s, from + 1, to)
  OBVIOUS
<1>5. t = [k \in 1..(to - from) |-> s[from + k]]
  BY <1>1, <1>2, <1>4
<1>6. \A k \in 1..(to - from) : from + k \in 1..len
  BY <1>1, <1>2
<1>7. \A k \in 1..(to - from) : t[k] = s[from + k] /\ t[k] \in Of
  BY <1>1, <1>5, <1>6
<1>8. PICK m : m = Remaining(len, from, n) /\ m \in Nat /\ 1..m = 1..(to - from)
  BY <1>1, <1>2 DEF Remaining
<1>9. t \in Seq(Of) /\ Len(t) = m
  <2>1. t \in [1..m -> Of]
    BY <1>5, <1>7, <1>8
  <2> QED
    BY <1>8, <2>1
<1> QED
  BY <1>1, <1>3, <1>4, <1>6, <1>7, <1>8, <1>9

(* Cuts of two sequences that start alike are one. *)
LEMMA CutsAgree ==
    ASSUME NEW Of, NEW s \in Seq(Of), NEW t \in Seq(Of), NEW c \in Nat, c <= Len(s), c <= Len(t),
           \A k \in 1..c : s[k] = t[k], NEW from \in Nat, NEW n \in Nat,
           from + n <= c \/ (c = Len(s) /\ c = Len(t))
    PROVE  S!Cut(s, from, n) = S!Cut(t, from, n)
<1>1. PICK a, b : a = S!Cut(s, from, n) /\ b = S!Cut(t, from, n)
  OBVIOUS
<1>2. PICK m : m = Remaining(Len(s), from, n) /\ m = Remaining(Len(t), from, n)
               /\ m \in Nat /\ \A k \in 1..m : from + k \in 1..c
  <2>1. Len(s) \in Nat /\ Len(t) \in Nat
    OBVIOUS
  <2> QED
    BY <2>1 DEF Remaining
<1>3. a \in Seq(Of) /\ Len(a) = m /\ \A k \in 1..m : a[k] = s[from + k]
  <2>1. /\ S!Cut(s, from, n) \in Seq(Of)
        /\ Len(S!Cut(s, from, n)) = Remaining(Len(s), from, n)
        /\ \A k \in 1..Remaining(Len(s), from, n) :
              from + k \in 1..Len(s) /\ S!Cut(s, from, n)[k] = s[from + k]
    BY CutIs
  <2> QED
    BY <1>1, <1>2, <2>1
<1>7. b \in Seq(Of) /\ Len(b) = m /\ \A k \in 1..m : b[k] = t[from + k]
  <2>1. /\ S!Cut(t, from, n) \in Seq(Of)
        /\ Len(S!Cut(t, from, n)) = Remaining(Len(t), from, n)
        /\ \A k \in 1..Remaining(Len(t), from, n) :
              from + k \in 1..Len(t) /\ S!Cut(t, from, n)[k] = t[from + k]
    BY CutIs
  <2> QED
    BY <1>1, <1>2, <2>1
<1>4. \A k \in 1..m : a[k] = b[k]
  BY <1>2, <1>3, <1>7
<1>5. a = [k \in 1..m |-> a[k]] /\ b = [k \in 1..m |-> b[k]]
  BY <1>3, <1>7
<1>6. [k \in 1..m |-> a[k]] = [k \in 1..m |-> b[k]]
  BY <1>4
<1> QED
  BY <1>1, <1>5, <1>6

(* Rows that differ, as a sequence of them: its members are in its order. *)
LEMMA Listed ==
    ASSUME NEW s \in Seq(S!Row), NEW R,
           \A i, j \in 1..Len(s) : i < j => <<s[i], s[j]>> \in R,
           TotalOn(S!ToSet(s), R)
    PROVE  /\ S!ToSet(s) \subseteq S!Row /\ IsFiniteSet(S!ToSet(s))
           /\ Cardinality(S!ToSet(s)) = Len(s)
           /\ InOrder(s, S!ToSet(s), R)
           /\ \A i \in 1..Len(s) : S!Place(s, s[i]) = i
<1>1. PICK n : n = Len(s) /\ n \in Nat
  OBVIOUS
<1>10. PICK A : A = S!ToSet(s)
  OBVIOUS
<1>11. DOMAIN s = 1..n
  BY <1>1
<1>2. A = S!ToSet(s) /\ A = {s[i] : i \in 1..n}
  BY <1>10, <1>11 DEF S!ToSet
<1>3. \A i \in 1..n : s[i] \in S!Row /\ s[i] \in A
  BY <1>1, <1>2
<1>4. A \subseteq S!Row /\ IsFiniteSet(A)
  BY <1>2, <1>3, RowsAre, FS_Subset
<1>5. ASSUME NEW i \in 1..n, NEW j \in 1..n, s[i] = s[j] PROVE i = j
  <2>1. ~(i < j) /\ ~(j < i)
    BY <1>1, <1>2, <1>3, <1>5 DEF TotalOn
  <2> QED
    BY <2>1
<1>6. Cardinality(A) = n
  <2>1. PICK g : g = [i \in 1..n |-> s[i]]
    OBVIOUS
  <2>2. g \in [1..n -> A] /\ \A i, j \in 1..n : g[i] = g[j] => i = j
    BY <1>3, <1>5, <2>1
  <2>3. \A x \in A : \E i \in 1..n : g[i] = x
    BY <1>2, <2>1
  <2>4. g \in Bijection(1..n, A)
    BY <2>2, <2>3 DEF Bijection, Injection, IsInjective, Surjection
  <2>5. IsFiniteSet(1..n) /\ Cardinality(1..n) = n
    <3>1. 1 \in Int /\ n \in Int
      BY <1>1
    <3>2. IsFiniteSet(1..n) /\ Cardinality(1..n) = IF 1 > n THEN 0 ELSE n - 1 + 1
      BY <3>1, FS_Interval
    <3> QED
      BY <1>1, <3>2
  <2> QED
    BY <2>4, <2>5, FS_Bijection DEF ExistsBijection
<1>7. s \in [1..n -> A]
  BY <1>1, <1>3
<1>8. InOrder(s, A, R)
  BY <1>1, <1>2, <1>4, <1>6, <1>7, InOrderIs
<1>9. \A i \in 1..n : S!Place(s, s[i]) = i
  BY <1>1, <1>5 DEF S!Place
<1> QED
  BY <1>1, <1>2, <1>4, <1>6, <1>8, <1>9

(* An order of rows is a sequence of them. *)
LEMMA OrderOfRows ==
    ASSUME NEW A \in SUBSET S!Row, NEW R, TotalOn(A, R)
    PROVE  /\ IsFiniteSet(A) /\ Cardinality(A) \in Nat
           /\ Ordered(A, R) \in Seq(S!Row) /\ Len(Ordered(A, R)) = Cardinality(A)
           /\ InOrder(Ordered(A, R), A, R) /\ S!ToSet(Ordered(A, R)) = A
<1>1. IsFiniteSet(A)
  BY RowsAre, FS_Subset
<1>2. PICK s : s = Ordered(A, R)
  OBVIOUS
<1>3. InOrder(s, A, R)
  BY <1>1, <1>2, OrderedIs
<1>4. PICK n : n = Cardinality(A) /\ n \in Nat /\ s \in [1..n -> A]
  BY <1>3 DEF InOrder
<1>5. s \in Seq(S!Row) /\ Len(s) = n /\ DOMAIN s = 1..n
  BY <1>4
<1>6. S!ToSet(s) = A
  BY <1>3, <1>4, <1>5 DEF S!ToSet, InOrder
<1> QED
  BY <1>1, <1>2, <1>3, <1>4, <1>5, <1>6

(* The answer without the hidden rows is what is left, in its order. *)
LEMMA VisibleIs ==
    ASSUME NEW s \in Seq(S!Row), NEW R,
           \A i, j \in 1..Len(s) : i < j => <<s[i], s[j]>> \in R,
           TotalOn(S!ToSet(s), R)
    PROVE  S!VisibleTo(s) = Ordered(S!ToSet(s) \ hidden, R)
<1>1. PICK A : A = S!ToSet(s)
  OBVIOUS
<1>2. PICK n : n = Len(s) /\ n \in Nat
  OBVIOUS
<1>3. /\ A \subseteq S!Row /\ IsFiniteSet(A) /\ \A i \in 1..n : S!Place(s, s[i]) = i
      /\ InOrder(s, A, R) /\ Cardinality(A) = n
  BY <1>1, <1>2, Listed
<1>4. PICK Q : Q = {p \in A \X A : S!Place(s, p[1]) < S!Place(s, p[2])}
  OBVIOUS
<1>5. ASSUME NEW x \in A, NEW y \in A PROVE <<x, y>> \in Q <=> <<x, y>> \in R
  <2>1. PICK i \in 1..n : s[i] = x
    BY <1>3 DEF InOrder
  <2>2. PICK j \in 1..n : s[j] = y
    BY <1>3 DEF InOrder
  <2>3. <<x, y>> \in Q <=> i < j
    BY <1>3, <1>4, <2>1, <2>2
  <2>4. i < j => <<x, y>> \in R
    BY <1>2, <2>1, <2>2
  <2>5. j < i => <<y, x>> \in R
    BY <1>2, <2>1, <2>2
  <2>6. <<x, y>> \in R => ~(<<y, x>> \in R) /\ x # y
    BY <1>1 DEF TotalOn
  <2> QED
    BY <1>2, <2>1, <2>2, <2>3, <2>4, <2>5, <2>6
<1>6. TotalOn(A, Q)
  BY <1>1, <1>5 DEF TotalOn
<1>7. PICK left : left = A \ hidden /\ left \subseteq A
  OBVIOUS
<1>8. TotalOn(left, Q) /\ TotalOn(left, R)
  BY <1>1, <1>6, <1>7, TotalOnPart
<1>9. IsFiniteSet(left) /\ InOrder(Ordered(left, R), left, R)
  BY <1>3, <1>7, <1>8, FS_Subset, OrderedIs
<1>10. Ordered(left, Q) = Ordered(left, R)
  <2>1. \A x, y \in left : <<x, y>> \in R => <<x, y>> \in Q
    BY <1>5, <1>7
  <2> QED
    BY <1>8, <1>9, <2>1, Reordered
<1>11. S!VisibleTo(s) = Ordered(left, Q)
  BY <1>1, <1>4, <1>7, SearchOrder DEF S!VisibleTo
<1> QED
  BY <1>1, <1>7, <1>10, <1>11

Matching(w) == {r \in S!Row : w[r] > 0}

LEMMA DescendingIs ==
    ASSUME NEW w \in [S!Row -> Nat]
    PROVE  /\ TotalOn(S!Row, S!Descending(w)) /\ Matching(w) \subseteq S!Row
           /\ \A x, y \in S!Row : <<x, y>> \in S!Descending(w) <=>
                 \/ w[x] > w[y]
                 \/ (w[x] = w[y] /\ x < y)
<1>1. \A x, y \in S!Row : <<x, y>> \in S!Descending(w) <=>
          \/ w[x] > w[y]
          \/ (w[x] = w[y] /\ x < y)
  BY DEF S!Descending
<1>2. \A x \in S!Row : w[x] \in Nat /\ x \in Nat
  BY RowsAre
<1>3. \A x \in S!Row : <<x, x>> \notin S!Descending(w)
  BY <1>1, <1>2
<1>4. ASSUME NEW x \in S!Row, NEW y \in S!Row, NEW z \in S!Row,
             <<x, y>> \in S!Descending(w), <<y, z>> \in S!Descending(w)
      PROVE  <<x, z>> \in S!Descending(w)
  BY <1>1, <1>2, <1>4
<1>5. ASSUME NEW x \in S!Row, NEW y \in S!Row, x # y
      PROVE  <<x, y>> \in S!Descending(w) \/ <<y, x>> \in S!Descending(w)
  BY <1>1, <1>2, <1>5
<1>6. TotalOn(S!Row, S!Descending(w))
  BY <1>3, <1>4, <1>5 DEF TotalOn
<1> QED
  BY <1>1, <1>6 DEF Matching

(* Sequence s is the rows A in the order R. *)
Lines(s, A, R) == s \in Seq(S!Row) /\ Len(s) = Cardinality(A) /\ InOrder(s, A, R)

CutLines(c, A, R, from, n) ==
    /\ c \in Seq(S!Row) /\ Len(c) = Remaining(Cardinality(A), from, n)
    /\ S!ToSet(c) \subseteq A /\ TotalOn(S!ToSet(c), R)
    /\ \A i, j \in 1..Len(c) : i < j => <<c[i], c[j]>> \in R
    /\ from = 0 => S!ToSet(c) = First(A, R, n)

(* What is cut out of an order of rows is in that order, and differs. *)
LEMMA CutInOrder ==
    ASSUME NEW A \in SUBSET S!Row, NEW R, TotalOn(A, R), NEW from \in Nat, NEW n \in Nat,
           NEW s, Lines(s, A, R)
    PROVE  CutLines(S!Cut(s, from, n), A, R, from, n)
<1>1. PICK len : len = Cardinality(A)
  OBVIOUS
<1>2. s \in Seq(S!Row) /\ Len(s) = len /\ len \in Nat /\ InOrder(s, A, R)
  BY <1>1 DEF Lines, InOrder
<1>11. PICK c : c = S!Cut(s, from, n)
  OBVIOUS
<1>3. PICK m : m = Remaining(len, from, n) /\ m \in Nat
  BY <1>2 DEF Remaining
<1>4. /\ c \in Seq(S!Row) /\ Len(c) = m
      /\ \A k \in 1..m : from + k \in 1..len /\ c[k] = s[from + k]
  <2>2. s \in Seq(S!Row)
    BY <1>2
  <2>1. /\ S!Cut(s, from, n) \in Seq(S!Row)
        /\ Len(S!Cut(s, from, n)) = Remaining(Len(s), from, n)
        /\ \A k \in 1..Remaining(Len(s), from, n) :
              from + k \in 1..Len(s) /\ S!Cut(s, from, n)[k] = s[from + k]
    BY <2>2, CutIs
  <2> QED
    BY <1>2, <1>3, <1>11, <2>1
<1>5. S!ToSet(c) = {c[k] : k \in 1..m}
  <2>1. DOMAIN c = 1..m
    BY <1>3, <1>4
  <2> QED
    BY <2>1 DEF S!ToSet
<1>6. \A k \in 1..len : s[k] \in A
  BY <1>1, <1>2 DEF InOrder
<1>7. S!ToSet(c) \subseteq A
  BY <1>4, <1>5, <1>6
<1>8. TotalOn(S!ToSet(c), R)
  BY <1>7, TotalOnPart
<1>9. ASSUME NEW i \in 1..m, NEW j \in 1..m, i < j PROVE <<c[i], c[j]>> \in R
  <2>1. from + i \in 1..len /\ from + j \in 1..len /\ from + i < from + j
    BY <1>3, <1>4, <1>9
  <2>2. <<s[from + i], s[from + j]>> \in R
    BY <1>1, <1>2, <2>1 DEF InOrder
  <2> QED
    BY <1>4, <2>2
<1>10. ASSUME from = 0 PROVE S!ToSet(c) = First(A, R, n)
  <2>1. \A k \in 1..m : k \in 1..len /\ c[k] = s[k] /\ k - 1 < n
    <3>1. m <= n /\ \A k \in 1..m : from + k = k
      BY <1>2, <1>3, <1>10 DEF Remaining
    <3>2. \A k \in 1..m : k - 1 < n
      BY <1>3, <3>1
    <3> QED
      BY <1>4, <3>1, <3>2
  <2>2. \A k \in 1..m : c[k] \in First(A, R, n)
    BY <1>1, <1>2, <1>6, <2>1 DEF InOrder, First
  <2>3. ASSUME NEW x \in First(A, R, n) PROVE \E k \in 1..m : c[k] = x
    <3>1. PICK k \in 1..len : s[k] = x
      BY <1>1, <1>2 DEF InOrder, First
    <3>2. k - 1 < n
      BY <1>1, <1>2, <3>1 DEF InOrder, First
    <3>3. k \in 1..m
      BY <1>2, <1>3, <1>10, <3>2 DEF Remaining
    <3> QED
      BY <2>1, <3>1, <3>3
  <2> QED
    BY <1>5, <2>2, <2>3
<1> QED
  BY <1>1, <1>3, <1>4, <1>7, <1>8, <1>9, <1>10, <1>11 DEF CutLines

(* The first n of B are in A, in one order and in front of the rest. *)
Leads(A, R, B, D, n) ==
    /\ First(B, D, n) \subseteq A
    /\ \A x, y \in First(B, D, n) : <<x, y>> \in R <=> <<x, y>> \in D
    /\ \A x \in First(B, D, n), y \in A \ First(B, D, n) : <<x, y>> \in R

(* n rows of B hold the k behind from, even if those of H are among them. *)
Reaches(B, H, n, from, k) ==
    /\ n \in Nat /\ from \in Nat /\ k \in Nat
    /\ Cardinality(B) <= n \/ from + k + Cardinality(H) <= n

(* Two answers agree if the first n of all matches lead both, and those that are hidden *)
(* leave enough of them.                                                               *)
LEMMA CutVisible ==
    ASSUME NEW A, NEW R, NEW B, NEW D, NEW n, NEW from, NEW k, NEW H, NEW s, NEW t,
           B \in SUBSET S!Row, TotalOn(B, D), A \in SUBSET B, TotalOn(A, R), H \in SUBSET S!Row,
           Leads(A, R, B, D, n), Reaches(B, H, n, from, k), Lines(s, A \ H, R), Lines(t, B \ H, D)
    PROVE  S!Cut(s, from, k) = S!Cut(t, from, k)
<1> n \in Nat /\ from \in Nat /\ k \in Nat /\ (Cardinality(B) <= n \/ from + k + Cardinality(H) <= n)
  BY DEF Reaches
<1>1. PICK X, Y, P : X = A \ H /\ Y = B \ H /\ P = First(B, D, n) \ H
  OBVIOUS
<1>2. /\ X \in SUBSET S!Row /\ Y \in SUBSET S!Row /\ X \subseteq A /\ Y \subseteq B
      /\ First(B, D, n) \subseteq B
  BY <1>1 DEF First
<1>3. TotalOn(X, R) /\ TotalOn(Y, D)
  BY <1>2, TotalOnPart
<1>4. /\ IsFiniteSet(X) /\ IsFiniteSet(Y) /\ IsFiniteSet(B) /\ IsFiniteSet(H)
      /\ IsFiniteSet(First(B, D, n))
  BY <1>2, RowsAre, FS_Subset
<1>5. /\ \A x \in First(B, D, n), y \in B \ First(B, D, n) : <<x, y>> \in D
      /\ n <= Cardinality(B) => Cardinality(First(B, D, n)) = n
      /\ Cardinality(B) <= n => First(B, D, n) = B
  BY <1>4, FirstIs
<1>6. /\ P \subseteq X /\ P \subseteq Y
      /\ \A x, y \in P : <<x, y>> \in R <=> <<x, y>> \in D
      /\ \A x \in P, y \in X \ P : <<x, y>> \in R
      /\ \A x \in P, y \in Y \ P : <<x, y>> \in D
  BY <1>1, <1>2, <1>5 DEF Leads
<1>7. /\ Cardinality(P) \in Nat
      /\ Cardinality(P) <= Cardinality(X) /\ Cardinality(P) <= Cardinality(Y)
      /\ \A i \in 1..Cardinality(P) : Ordered(X, R)[i] = Ordered(Y, D)[i]
  BY <1>3, <1>4, <1>6, StartAlike
<1>8. Ordered(X, R) = s /\ Ordered(Y, D) = t
  <2>1. /\ InOrder(s, X, R) /\ \A x, y \in X : <<x, y>> \in R => <<x, y>> \in R
        /\ InOrder(t, Y, D) /\ \A x, y \in Y : <<x, y>> \in D => <<x, y>> \in D
    BY <1>1 DEF Lines
  <2> QED
    BY <1>3, <1>4, <2>1, Reordered
<1>9. from + k <= Cardinality(P) \/ (Cardinality(P) = Cardinality(X) /\ Cardinality(P) = Cardinality(Y))
  <2>1. CASE Cardinality(B) <= n
    <3>1. X = P /\ Y = P
      BY <1>1, <1>5, <2>1 DEF Leads
    <3> QED
      BY <3>1
  <2>2. CASE ~(Cardinality(B) <= n)
    <3>1. Cardinality(B) \in Nat /\ Cardinality(H) \in Nat
      BY <1>4, FS_CardinalityType
    <3>2. Cardinality(First(B, D, n)) = n
      BY <1>5, <2>2, <3>1
    <3>3. PICK F : F = First(B, D, n) /\ IsFiniteSet(F) /\ Cardinality(F) = n
      BY <1>4, <3>2
    <3>4. Cardinality(F \ H) = Cardinality(F) - Cardinality(F \cap H)
      BY <3>3, FS_Difference
    <3>5. Cardinality(F \cap H) <= Cardinality(H) /\ Cardinality(F \cap H) \in Nat
      <4>1. F \cap H \subseteq H
        OBVIOUS
      <4> QED
        BY <1>4, <4>1, FS_Subset, FS_CardinalityType
    <3>6. Cardinality(P) = n - Cardinality(F \cap H)
      BY <1>1, <3>3, <3>4
    <3>7. from + k + Cardinality(H) <= n
      BY <2>2
    <3> QED
      BY <3>1, <3>5, <3>6, <3>7
  <2> QED
    BY <2>1, <2>2
<1>10. PICK c : c = Cardinality(P)
  OBVIOUS
<1>11. /\ s \in Seq(S!Row) /\ t \in Seq(S!Row) /\ c \in Nat /\ c <= Len(s) /\ c <= Len(t)
       /\ \A i \in 1..c : s[i] = t[i]
       /\ from + k <= c \/ (c = Len(s) /\ c = Len(t))
  BY <1>1, <1>7, <1>8, <1>9, <1>10 DEF Lines
<1> QED
  BY <1>11, CutsAgree

-----------------------------------------------------------------------------
(* What a walk answers: a start of the readable matches, the worthiest first. *)

Worth == [r \in S!Row |-> IF kind = "all" THEN S!Score(r, S!Row, S!Row)
                          ELSE IF kind = "semantic" THEN sim[r]
                          ELSE IF kind = "ask" THEN IF rank[r] > 0 THEN 1 ELSE 0
                          ELSE rank[r]]

Best == Ordered(Matching(Worth) \ hidden, S!Descending(Worth))

SeTyped ==
    /\ rank \in [S!Row -> Nat] /\ sim \in [S!Row -> Nat] /\ hidden \in SUBSET S!Row
    /\ kind \in S!Kind /\ limit \in Nat \ {0} /\ offset \in Nat /\ ended \in BOOLEAN

SeFits ==
    /\ Cardinality(S!Matched) <= MaxFetchRows
    /\ kind = "all" => ~S!Tied
    /\ hidden # {} => /\ kind \notin {"fulltext", "semantic"}
                      /\ Cardinality(hidden) <= (MaxFetchFactor - 1) * limit

SeAnswers ==
    IF kind \in S!OneAnswer THEN shown = IF ended THEN S!Cut(Best, 0, limit) ELSE <<>>
    ELSE /\ shown = S!Cut(Best, 0, offset)
         /\ ended => Cardinality(S!Matched \ hidden) <= offset

SeInv == SeTyped /\ (SeFits => SeAnswers)

LEMMA SearchCounts == \A A : S!Cardinality(A) = Cardinality(A)
BY DEF S!Cardinality, Cardinality, S!IsFiniteSet, IsFiniteSet

LEMMA SearchBounds ==
    /\ MaxFetchFactor \in Nat \ {0} /\ MaxFetchRows \in Nat \ {0} /\ MaxLimit \in Nat \ {0}
    /\ Rows \in Nat \ {0} /\ MaxScore \in Nat \ {0}
BY PublishingAssumption DEF S!SearchSizes

LEMMA ScoreIs ==
    ASSUME SeTyped, NEW r \in S!Row, NEW A, NEW B
    PROVE  LET a == IF r \in A THEN 3 * rank[r] ELSE 0
               b == IF r \in B THEN 2 * sim[r] ELSE 0
           IN  S!Score(r, A, B) = IF a >= b THEN a ELSE b
<1>1. rank[r] \in Nat /\ sim[r] \in Nat
  BY DEF SeTyped
<1>2. PICK a, b : a = (IF r \in A THEN 3 * rank[r] ELSE 0) /\ b = (IF r \in B THEN 2 * sim[r] ELSE 0)
  OBVIOUS
<1>3. a \in Nat /\ b \in Nat
  BY <1>1, <1>2
<1>4. S!Score(r, A, B) = S!Max({a, b})
  BY <1>2 DEF S!Score
<1>5. S!Max({a, b}) = IF a >= b THEN a ELSE b
  BY <1>3, MostOfTwo
<1> QED
  BY <1>2, <1>4, <1>5

LEMMA WorthIs ==
    ASSUME SeTyped
    PROVE  /\ Worth \in [S!Row -> Nat] /\ Matching(Worth) = S!Matched
           /\ kind = "all" => \A r \in S!Row :
                Worth[r] = IF 3 * rank[r] >= 2 * sim[r] THEN 3 * rank[r] ELSE 2 * sim[r]
           /\ kind = "semantic" => Worth = sim
           /\ kind \in {"fulltext", "search_docs", "ask_docs"} => Worth = rank
<1>1. \A r \in S!Row : rank[r] \in Nat /\ sim[r] \in Nat
  BY DEF SeTyped
<1>2. CASE kind = "all"
  <2>1. \A r \in S!Row :
            S!Score(r, S!Row, S!Row) = IF 3 * rank[r] >= 2 * sim[r] THEN 3 * rank[r] ELSE 2 * sim[r]
    BY ScoreIs
  <2>2. \A r \in S!Row :
            Worth[r] = IF 3 * rank[r] >= 2 * sim[r] THEN 3 * rank[r] ELSE 2 * sim[r]
    BY <1>2, <2>1 DEF Worth
  <2>3. \A r \in S!Row : Worth[r] \in Nat /\ (Worth[r] > 0 <=> rank[r] > 0 \/ sim[r] > 0)
    BY <1>1, <2>2
  <2>4. Worth \in [S!Row -> Nat]
    BY <2>3 DEF Worth
  <2> QED
    BY <1>2, <2>2, <2>3, <2>4 DEF Matching, S!Matched
<1>3. CASE kind = "semantic"
  <2>1. Worth = [r \in S!Row |-> sim[r]] /\ sim = [r \in S!Row |-> sim[r]]
    BY <1>3 DEF Worth, SeTyped
  <2>2. Worth = sim /\ sim \in [S!Row -> Nat]
    BY <2>1 DEF SeTyped
  <2> QED
    BY <1>3, <2>2 DEF Matching, S!Matched
<1>4. CASE kind = "ask"
  <2>1. Worth = [r \in S!Row |-> IF rank[r] > 0 THEN 1 ELSE 0]
    BY <1>4 DEF Worth
  <2>2. Worth \in [S!Row -> Nat] /\ \A r \in S!Row : Worth[r] > 0 <=> rank[r] > 0
    BY <1>1, <2>1
  <2> QED
    BY <1>4, <2>2 DEF Matching, S!Matched
<1>5. CASE kind \in {"fulltext", "search_docs", "ask_docs"}
  <2>1. Worth = [r \in S!Row |-> rank[r]] /\ rank = [r \in S!Row |-> rank[r]]
    BY <1>5 DEF Worth, SeTyped
  <2>2. Worth = rank /\ rank \in [S!Row -> Nat]
    BY <2>1 DEF SeTyped
  <2> QED
    BY <1>5, <2>2 DEF Matching, S!Matched
<1> QED
  BY <1>2, <1>3, <1>4, <1>5 DEF SeTyped, S!Kind, S!OneAnswer

LEMMA Multiplied ==
    ASSUME NEW a \in Nat, NEW b \in Nat \ {0}
    PROVE  a * b \in Nat /\ a * b >= a /\ a * b = a + (b - 1) * a
<1>1. PICK d : d = b - 1 /\ d \in Nat
  OBVIOUS
<1>2. d * a \in Nat
  BY <1>1
<1>3. b = d + 1
  BY <1>1
<1>4. a * b = a * d + a
  BY <1>1, <1>3
<1>5. a * d = d * a
  BY <1>1
<1> QED
  BY <1>1, <1>2, <1>4, <1>5

LEMMA AtMostIs ==
    ASSUME NEW n \in Nat
    PROVE  S!AtMost(n) = (IF n <= MaxFetchRows THEN n ELSE MaxFetchRows) /\ S!AtMost(n) \in Nat
<1>1. S!AtMost(n) = IF n <= MaxFetchRows THEN n ELSE MaxFetchRows
  BY SearchBounds, LeastOfTwo DEF S!AtMost
<1> QED
  BY <1>1, SearchBounds

(* The window holds every match, or as many more rows as may be hidden. *)
LEMMA FetchIs ==
    ASSUME NEW from \in Nat, NEW k \in Nat \ {0}, NEW hid \in Nat, NEW n,
           n = S!AtMost((from + k) * MaxFetchFactor) \/ n = S!AtMost(S!AtMost(from + k) * MaxFetchFactor)
           \/ n = (from + k) * MaxFetchFactor,
           hid <= (MaxFetchFactor - 1) * k
    PROVE  n \in Nat /\ (MaxFetchRows <= n \/ from + k + hid <= n)
<1>1. PICK f, most : f = MaxFetchFactor /\ most = MaxFetchRows /\ f \in Nat \ {0} /\ most \in Nat \ {0}
  BY SearchBounds
<1>2. PICK a : a = from + k /\ a \in Nat /\ a - from = k
  OBVIOUS
<1>3. a * f \in Nat /\ a * f >= a + hid
  <2>1. a * f \in Nat /\ a * f = a + (f - 1) * a
    BY <1>1, <1>2, Multiplied
  <2>2. PICK d : d = f - 1 /\ d \in Nat
    BY <1>1
  <2>3. d * a = d * from + d * k
    BY <1>2, <2>2
  <2>4. d * from \in Nat /\ d * k \in Nat /\ hid <= d * k
    BY <1>1, <2>2
  <2> QED
    BY <1>2, <2>1, <2>2, <2>3, <2>4
<1>4. most * f \in Nat /\ most * f >= most
  BY <1>1, Multiplied
<1>5. S!AtMost(a) = IF a <= most THEN a ELSE most
  BY <1>1, <1>2, AtMostIs
<1>6. S!AtMost(a * f) = IF a * f <= most THEN a * f ELSE most
  BY <1>1, <1>3, AtMostIs
<1>7. S!AtMost(most * f) = most
  <2>1. S!AtMost(most * f) = IF most * f <= most THEN most * f ELSE most
    BY <1>1, <1>4, AtMostIs
  <2> QED
    BY <1>1, <1>4, <2>1
<1>8. n \in {a * f, most} \/ n = S!AtMost(a * f) \/ n = S!AtMost(most * f)
  BY <1>1, <1>2, <1>5
<1>9. n = most \/ n = a * f
  BY <1>6, <1>7, <1>8
<1> QED
  BY <1>1, <1>2, <1>3, <1>9

(* A half puts a row among its first n if all rows have another worth and it owes its own *)
(* to that half.                                                                           *)
LEMMA TopIsFetched ==
    ASSUME NEW w \in [S!Row -> Nat], NEW v \in [S!Row -> Nat], NEW u \in [S!Row -> Nat],
           \A x, y \in S!Row : u[x] > u[y] <=> v[x] > v[y],
           \A x \in S!Row : u[x] <= w[x] /\ (u[x] > 0 <=> v[x] > 0),
           \A x, y \in Matching(w) : x # y => w[x] # w[y],
           NEW n \in Nat,
           NEW x \in First(Matching(w), S!Descending(w), n), w[x] = u[x]
    PROVE  x \in First(Matching(v), S!Descending(v), n)
<1>1. PICK B, D, Q, R : /\ B = Matching(w) /\ D = S!Descending(w)
                        /\ Q = Matching(v) /\ R = S!Descending(v)
  OBVIOUS
<1>2. B \subseteq S!Row /\ Q \subseteq S!Row
  BY <1>1, DescendingIs
<1>3. x \in B /\ Cardinality(Preceding(B, D, x)) < n
  BY <1>1 DEF First
<1>4. x \in S!Row /\ w[x] > 0 /\ u[x] > 0 /\ x \in Q
  BY <1>1, <1>2, <1>3 DEF Matching
<1>5. ASSUME NEW y \in Preceding(Q, R, x) PROVE y \in Preceding(B, D, x)
  <2>1. y \in Q /\ y \in S!Row /\ <<y, x>> \in R
    BY <1>2 DEF Preceding
  <2>2. v[y] > v[x] \/ (v[y] = v[x] /\ y < x)
    BY <1>1, <1>4, <2>1, DescendingIs
  <2>3. v[y] \in Nat /\ v[x] \in Nat /\ u[x] \in Nat /\ u[y] \in Nat /\ w[y] \in Nat /\ x \in Nat /\ y \in Nat
    BY <1>4, <2>1, RowsAre
  <2>4. (u[y] >= u[x] /\ y # x) \/ u[y] > u[x]
    <3>1. ~(v[x] > v[y])
      BY <2>2, <2>3
    <3>2. ~(u[x] > u[y])
      BY <1>4, <2>1, <3>1
    <3> QED
      BY <1>4, <2>1, <2>2, <2>3, <3>2
  <2>5. u[y] <= w[y]
    BY <2>1
  <2>6. w[y] >= w[x] /\ y # x /\ w[y] > 0
    BY <1>4, <2>3, <2>4, <2>5
  <2>7. y \in B /\ w[y] # w[x]
    BY <1>1, <1>3, <2>1, <2>6 DEF Matching
  <2>8. w[y] > w[x]
    BY <1>4, <2>3, <2>6, <2>7
  <2>9. <<y, x>> \in D
    BY <1>1, <1>4, <2>1, <2>8, DescendingIs
  <2> QED
    BY <2>7, <2>9 DEF Preceding
<1>6. IsFiniteSet(Preceding(B, D, x)) /\ Preceding(Q, R, x) \subseteq Preceding(B, D, x)
  <2>1. Preceding(B, D, x) \subseteq S!Row
    BY <1>2 DEF Preceding
  <2> QED
    BY <1>5, <2>1, RowsAre, FS_Subset
<1>7. /\ Cardinality(Preceding(Q, R, x)) <= Cardinality(Preceding(B, D, x))
      /\ Cardinality(Preceding(Q, R, x)) \in Nat /\ Cardinality(Preceding(B, D, x)) \in Nat
  BY <1>6, FS_Subset, FS_CardinalityType
<1> QED
  BY <1>1, <1>3, <1>4, <1>7 DEF First

MergeOrder(ft, sem) ==
    LET both == S!ToSet(ft) \cup S!ToSet(sem)
        Comes(r) == IF r \in S!ToSet(ft) THEN S!Place(ft, r) ELSE Len(ft) + S!Place(sem, r)
        Is(r) == S!Score(r, S!ToSet(ft), S!ToSet(sem))
    IN {p \in both \X both : \/ Is(p[1]) > Is(p[2])
                             \/ (Is(p[1]) = Is(p[2]) /\ Comes(p[1]) < Comes(p[2]))}

(* The merge is the order of the higher score, and of the halves. *)
LEMMA MergeIs ==
    ASSUME SeTyped, NEW ft \in Seq(S!Row), NEW sem \in Seq(S!Row),
           \A i \in 1..Len(ft) : S!Place(ft, ft[i]) = i,
           \A i \in 1..Len(sem) : S!Place(sem, sem[i]) = i,
           NEW A, A = S!ToSet(ft) \cup S!ToSet(sem)
    PROVE  /\ A \subseteq S!Row /\ TotalOn(A, MergeOrder(ft, sem))
           /\ S!Merge(ft, sem) = Ordered(A, MergeOrder(ft, sem))
           /\ \A x, y \in A :
                S!Score(x, S!ToSet(ft), S!ToSet(sem)) > S!Score(y, S!ToSet(ft), S!ToSet(sem)) =>
                    <<x, y>> \in MergeOrder(ft, sem) /\ <<y, x>> \notin MergeOrder(ft, sem)
<1>1. PICK F, G : F = S!ToSet(ft) /\ G = S!ToSet(sem)
  OBVIOUS
<1>2. PICK at : at = [r \in A |-> IF r \in F THEN S!Place(ft, r) ELSE Len(ft) + S!Place(sem, r)]
  OBVIOUS
<1>3. PICK is : is = [r \in A |-> S!Score(r, F, G)]
  OBVIOUS
<1>4. PICK R : R = {p \in A \X A : is[p[1]] > is[p[2]] \/ (is[p[1]] = is[p[2]] /\ at[p[1]] < at[p[2]])}
  OBVIOUS
<1>5. R = MergeOrder(ft, sem)
  BY <1>1, <1>2, <1>3, <1>4 DEF MergeOrder
<1>6. S!Merge(ft, sem) = Ordered(A, R)
  BY <1>1, <1>2, <1>3, <1>4, SearchOrder DEF S!Merge
<1>7. PICK m, k : m = Len(ft) /\ k = Len(sem) /\ m \in Nat /\ k \in Nat
  <2>1. Len(ft) \in Nat /\ Len(sem) \in Nat
    OBVIOUS
  <2> QED
    BY <2>1
<1>8. F = {ft[i] : i \in 1..m} /\ G = {sem[i] : i \in 1..k}
  <2>1. DOMAIN ft = 1..m /\ DOMAIN sem = 1..k
    BY <1>7
  <2> QED
    BY <1>1, <2>1 DEF S!ToSet
<1>9. A \subseteq S!Row
  BY <1>1, <1>7, <1>8
<1>10. \A r \in F : S!Place(ft, r) \in 1..m /\ ft[S!Place(ft, r)] = r
  BY <1>7, <1>8
<1>11. \A r \in G : S!Place(sem, r) \in 1..k /\ sem[S!Place(sem, r)] = r
  BY <1>7, <1>8
<1>12. /\ \A r \in F : r \in A /\ at[r] = S!Place(ft, r)
       /\ \A r \in A \ F : r \in G /\ at[r] = m + S!Place(sem, r)
  BY <1>1, <1>2, <1>7
<1>13. ASSUME NEW x \in A, NEW y \in A PROVE at[x] \in Nat /\ (at[x] = at[y] => x = y)
  <2>1. CASE x \in F /\ y \in F
    BY <1>7, <1>10, <1>12, <2>1
  <2>2. CASE x \notin F /\ y \notin F
    <3>1. /\ S!Place(sem, x) \in 1..k /\ sem[S!Place(sem, x)] = x
          /\ S!Place(sem, y) \in 1..k /\ sem[S!Place(sem, y)] = y
      BY <1>11, <1>12, <2>2
    <3>2. at[x] = m + S!Place(sem, x) /\ at[y] = m + S!Place(sem, y)
      BY <1>12, <2>2
    <3>3. at[x] = at[y] => S!Place(sem, x) = S!Place(sem, y)
      BY <1>7, <3>1, <3>2
    <3> QED
      BY <1>7, <3>1, <3>2, <3>3
  <2>3. CASE x \in F /\ y \notin F
    <3>1. S!Place(ft, x) \in 1..m /\ S!Place(sem, y) \in 1..k
      BY <1>10, <1>11, <1>12, <2>3
    <3>2. at[x] = S!Place(ft, x) /\ at[y] = m + S!Place(sem, y)
      BY <1>12, <2>3
    <3> QED
      BY <1>7, <3>1, <3>2
  <2>4. CASE x \notin F /\ y \in F
    <3>1. S!Place(ft, y) \in 1..m /\ S!Place(sem, x) \in 1..k
      BY <1>10, <1>11, <1>12, <2>4
    <3>2. at[y] = S!Place(ft, y) /\ at[x] = m + S!Place(sem, x)
      BY <1>12, <2>4
    <3> QED
      BY <1>7, <3>1, <3>2
  <2> QED
    BY <2>1, <2>2, <2>3, <2>4
<1>14. \A r \in A : is[r] \in Nat
  <2> SUFFICES ASSUME NEW r \in A PROVE is[r] \in Nat
    OBVIOUS
  <2>1. rank[r] \in Nat /\ sim[r] \in Nat /\ r \in S!Row
    BY <1>9 DEF SeTyped
  <2>2. PICK a, b : /\ a = (IF r \in F THEN 3 * rank[r] ELSE 0) /\ b = (IF r \in G THEN 2 * sim[r] ELSE 0)
                    /\ a \in Nat /\ b \in Nat
    BY <2>1
  <2>3. S!Score(r, F, G) = IF a >= b THEN a ELSE b
    BY <2>1, <2>2, ScoreIs
  <2> QED
    BY <1>3, <2>2, <2>3
<1>15. \A x, y \in A : <<x, y>> \in R <=> is[x] > is[y] \/ (is[x] = is[y] /\ at[x] < at[y])
  BY <1>4
<1>16. TotalOn(A, R)
  <2>1. \A x \in A : <<x, x>> \notin R
    BY <1>13, <1>14, <1>15
  <2>2. ASSUME NEW x \in A, NEW y \in A, NEW z \in A, <<x, y>> \in R, <<y, z>> \in R
        PROVE  <<x, z>> \in R
    <3>1. at[x] \in Nat /\ at[y] \in Nat /\ at[z] \in Nat /\ is[x] \in Nat /\ is[y] \in Nat /\ is[z] \in Nat
      BY <1>13, <1>14
    <3>2. /\ is[x] > is[y] \/ (is[x] = is[y] /\ at[x] < at[y])
          /\ is[y] > is[z] \/ (is[y] = is[z] /\ at[y] < at[z])
      BY <1>15, <2>2
    <3>3. is[x] > is[z] \/ (is[x] = is[z] /\ at[x] < at[z])
      BY <3>1, <3>2
    <3> QED
      BY <1>15, <3>3
  <2>3. ASSUME NEW x \in A, NEW y \in A, x # y PROVE <<x, y>> \in R \/ <<y, x>> \in R
    <3>1. at[x] \in Nat /\ at[y] \in Nat /\ is[x] \in Nat /\ is[y] \in Nat /\ at[x] # at[y]
      BY <1>13, <1>14, <2>3
    <3> QED
      BY <1>15, <3>1
  <2> QED
    BY <2>1, <2>2, <2>3 DEF TotalOn
<1>17. ASSUME NEW x \in A, NEW y \in A, is[x] > is[y] PROVE <<x, y>> \in R /\ <<y, x>> \notin R
  BY <1>14, <1>15, <1>17
<1> QED
  BY <1>1, <1>3, <1>5, <1>6, <1>9, <1>16, <1>17

LEMMA AllAnswer ==
    ASSUME SeTyped, SeFits, kind = "all", NEW from \in Nat
    PROVE  S!Answer(from) = S!Cut(Best, from, limit)
<1>1. PICK n, k : n = S!FetchLimit(from) /\ k = limit
  OBVIOUS
<1>2. PICK w, B, D : w = Worth /\ B = Matching(w) /\ D = S!Descending(w)
  OBVIOUS
<1>3. /\ w \in [S!Row -> Nat] /\ B = S!Matched /\ B \subseteq S!Row
      /\ \A r \in S!Row : w[r] = IF 3 * rank[r] >= 2 * sim[r] THEN 3 * rank[r] ELSE 2 * sim[r]
  BY <1>2, WorthIs DEF Matching
<1>4. /\ TotalOn(B, D)
      /\ \A x, y \in S!Row : <<x, y>> \in D <=> w[x] > w[y] \/ (w[x] = w[y] /\ x < y)
  BY <1>2, <1>3, DescendingIs, TotalOnPart
<1>5. /\ k \in Nat \ {0} /\ IsFiniteSet(hidden) /\ Cardinality(hidden) \in Nat
      /\ rank \in [S!Row -> Nat] /\ sim \in [S!Row -> Nat]
  BY <1>1, RowsAre, FS_Subset, FS_CardinalityType DEF SeTyped
<1>6. n \in Nat /\ (Cardinality(B) <= n \/ from + k + Cardinality(hidden) <= n)
  <2>1. n = S!AtMost(S!AtMost(from + k) * MaxFetchFactor)
    BY <1>1 DEF S!FetchLimit, S!Window
  <2>2. Cardinality(hidden) <= (MaxFetchFactor - 1) * k
    <3>1. CASE hidden = {}
      <4>1. MaxFetchFactor - 1 \in Nat
        BY SearchBounds
      <4>2. (MaxFetchFactor - 1) * k \in Nat
        BY <1>5, <4>1
      <4> QED
        BY <3>1, <4>2, FS_EmptySet
    <3>2. CASE hidden # {}
      BY <1>1, <3>2 DEF SeFits
    <3> QED
      BY <3>1, <3>2
  <2>3. n \in Nat /\ (MaxFetchRows <= n \/ from + k + Cardinality(hidden) <= n)
    BY <1>5, <2>1, <2>2, FetchIs
  <2>4. Cardinality(B) <= MaxFetchRows
    BY <1>3 DEF SeFits
  <2>5. Cardinality(B) \in Nat /\ MaxFetchRows \in Nat
    BY <1>3, RowsAre, FS_Subset, FS_CardinalityType, SearchBounds
  <2> QED
    BY <2>3, <2>4, <2>5
<1>28. PICK o : o = 0 /\ o \in Nat
  OBVIOUS
<1>7. PICK ft : ft = S!Cut(Ordered(Matching(rank), S!Descending(rank)), o, n)
  OBVIOUS
<1>8. PICK sem : sem = S!Cut(Ordered(Matching(sim), S!Descending(sim)), o, n)
  OBVIOUS
<1>9. S!SearchWithRank(n, 0) = ft /\ S!SemanticSearch(n, 0) = sem
  BY <1>7, <1>8, <1>28, SearchOrder DEF S!SearchWithRank, S!SemanticSearch, S!Ranked, Matching
<1>10. PICK F, G, A : F = S!ToSet(ft) /\ G = S!ToSet(sem) /\ A = F \cup G
  OBVIOUS
<1>11. /\ ft \in Seq(S!Row) /\ F = First(Matching(rank), S!Descending(rank), n)
       /\ F \subseteq Matching(rank) /\ \A i \in 1..Len(ft) : S!Place(ft, ft[i]) = i
  <2>1. PICK Q, T : Q = Matching(rank) /\ T = S!Descending(rank)
    OBVIOUS
  <2>2. TotalOn(Q, T) /\ Q \in SUBSET S!Row /\ ft = S!Cut(Ordered(Q, T), o, n)
    BY <1>5, <1>7, <2>1, DescendingIs, TotalOnPart
  <2>5. PICK q : q = Ordered(Q, T)
    OBVIOUS
  <2>6. Lines(q, Q, T)
    BY <2>2, <2>5, OrderOfRows DEF Lines
  <2>7. CutLines(S!Cut(q, o, n), Q, T, o, n)
    BY <1>6, <1>28, <2>2, <2>6, CutInOrder
  <2>4. /\ ft \in Seq(S!Row) /\ S!ToSet(ft) \subseteq Q /\ TotalOn(S!ToSet(ft), T)
        /\ \A i, j \in 1..Len(ft) : i < j => <<ft[i], ft[j]>> \in T
        /\ S!ToSet(ft) = First(Q, T, n)
    BY <1>28, <2>2, <2>5, <2>7 DEF CutLines
  <2>3. \A i \in 1..Len(ft) : S!Place(ft, ft[i]) = i
    BY <2>4, Listed
  <2> QED
    BY <1>10, <2>1, <2>3, <2>4
<1>12. /\ sem \in Seq(S!Row) /\ G = First(Matching(sim), S!Descending(sim), n)
       /\ G \subseteq Matching(sim) /\ \A i \in 1..Len(sem) : S!Place(sem, sem[i]) = i
  <2>1. PICK Q, T : Q = Matching(sim) /\ T = S!Descending(sim)
    OBVIOUS
  <2>2. TotalOn(Q, T) /\ Q \in SUBSET S!Row /\ sem = S!Cut(Ordered(Q, T), o, n)
    BY <1>5, <1>8, <2>1, DescendingIs, TotalOnPart
  <2>5. PICK q : q = Ordered(Q, T)
    OBVIOUS
  <2>6. Lines(q, Q, T)
    BY <2>2, <2>5, OrderOfRows DEF Lines
  <2>7. CutLines(S!Cut(q, o, n), Q, T, o, n)
    BY <1>6, <1>28, <2>2, <2>6, CutInOrder
  <2>4. /\ sem \in Seq(S!Row) /\ S!ToSet(sem) \subseteq Q /\ TotalOn(S!ToSet(sem), T)
        /\ \A i, j \in 1..Len(sem) : i < j => <<sem[i], sem[j]>> \in T
        /\ S!ToSet(sem) = First(Q, T, n)
    BY <1>28, <2>2, <2>5, <2>7 DEF CutLines
  <2>3. \A i \in 1..Len(sem) : S!Place(sem, sem[i]) = i
    BY <2>4, Listed
  <2> QED
    BY <1>10, <2>1, <2>3, <2>4
<1>13. PICK R : R = MergeOrder(ft, sem)
  OBVIOUS
<1>14. /\ A \subseteq S!Row /\ TotalOn(A, R) /\ S!Merge(ft, sem) = Ordered(A, R)
       /\ \A x, y \in A : S!Score(x, F, G) > S!Score(y, F, G) => <<x, y>> \in R /\ <<y, x>> \notin R
  BY <1>10, <1>11, <1>12, <1>13, MergeIs
<1>15. \A r \in S!Row : rank[r] \in Nat /\ sim[r] \in Nat /\ w[r] \in Nat
  BY <1>3, <1>5
<1>16. A \subseteq B
  <2> SUFFICES ASSUME NEW r \in A PROVE r \in B
    OBVIOUS
  <2>1. r \in S!Row /\ (rank[r] > 0 \/ sim[r] > 0)
    BY <1>10, <1>11, <1>12, <1>14 DEF Matching
  <2>2. w[r] > 0
    BY <1>3, <1>15, <2>1
  <2> QED
    BY <1>2, <2>1, <2>2 DEF Matching
<1>17. ASSUME NEW x \in B, NEW y \in B, x # y PROVE w[x] # w[y]
  <2>1. w[x] = S!Score(x, S!Row, S!Row) /\ w[y] = S!Score(y, S!Row, S!Row)
    BY <1>2, <1>3 DEF Worth
  <2>2. S!Score(x, S!Row, S!Row) > 0
    BY <1>2, <2>1 DEF Matching
  <2>3. ~S!Tied
    BY DEF SeFits
  <2> QED
    BY <1>3, <1>17, <2>1, <2>2, <2>3 DEF S!Tied
<1>18. ASSUME NEW r \in S!Row
       PROVE  /\ S!Score(r, F, G) \in Nat /\ S!Score(r, F, G) <= w[r]
              /\ (r \in F /\ w[r] = 3 * rank[r]) \/ (r \in G /\ w[r] = 2 * sim[r]) =>
                    S!Score(r, F, G) = w[r]
  <2>1. PICK a, b : /\ a = (IF r \in F THEN 3 * rank[r] ELSE 0) /\ b = (IF r \in G THEN 2 * sim[r] ELSE 0)
    OBVIOUS
  <2>2. S!Score(r, F, G) = IF a >= b THEN a ELSE b
    BY <2>1, ScoreIs
  <2>3. /\ rank[r] \in Nat /\ sim[r] \in Nat
        /\ w[r] = IF 3 * rank[r] >= 2 * sim[r] THEN 3 * rank[r] ELSE 2 * sim[r]
    BY <1>3, <1>15
  <2> QED
    BY <2>1, <2>2, <2>3
<1>19. ASSUME NEW x \in First(B, D, n) PROVE x \in A /\ S!Score(x, F, G) = w[x]
  <2>1. x \in B /\ x \in S!Row
    BY <1>3 DEF First
  <2>2. CASE w[x] = 3 * rank[x]
    <3>1. PICK u : u = [r \in S!Row |-> 3 * rank[r]]
      OBVIOUS
    <3>2. /\ u \in [S!Row -> Nat] /\ \A r \in S!Row : u[r] <= w[r] /\ (u[r] > 0 <=> rank[r] > 0)
          /\ \A r, y \in S!Row : u[r] > u[y] <=> rank[r] > rank[y]
      BY <1>3, <1>15, <3>1
    <3>3. PICK v : v = rank /\ v \in [S!Row -> Nat]
      BY <1>5
    <3>4. /\ \A r, y \in S!Row : u[r] > u[y] <=> v[r] > v[y]
          /\ \A r \in S!Row : u[r] <= w[r] /\ (u[r] > 0 <=> v[r] > 0)
          /\ u[x] = w[x] /\ x \in First(Matching(w), S!Descending(w), n)
          /\ \A r, y \in Matching(w) : r # y => w[r] # w[y]
      BY <1>2, <1>17, <2>1, <2>2, <3>1, <3>2, <3>3
    <3>5. x \in First(Matching(v), S!Descending(v), n)
      BY <1>3, <1>6, <3>2, <3>3, <3>4, TopIsFetched
    <3> QED
      BY <1>10, <1>11, <1>18, <2>1, <2>2, <3>3, <3>5
  <2>3. CASE w[x] = 2 * sim[x]
    <3>1. PICK u : u = [r \in S!Row |-> 2 * sim[r]]
      OBVIOUS
    <3>2. /\ u \in [S!Row -> Nat] /\ \A r \in S!Row : u[r] <= w[r] /\ (u[r] > 0 <=> sim[r] > 0)
          /\ \A r, y \in S!Row : u[r] > u[y] <=> sim[r] > sim[y]
      BY <1>3, <1>15, <3>1
    <3>3. PICK v : v = sim /\ v \in [S!Row -> Nat]
      BY <1>5
    <3>4. /\ \A r, y \in S!Row : u[r] > u[y] <=> v[r] > v[y]
          /\ \A r \in S!Row : u[r] <= w[r] /\ (u[r] > 0 <=> v[r] > 0)
          /\ u[x] = w[x] /\ x \in First(Matching(w), S!Descending(w), n)
          /\ \A r, y \in Matching(w) : r # y => w[r] # w[y]
      BY <1>2, <1>17, <2>1, <2>3, <3>1, <3>2, <3>3
    <3>5. x \in First(Matching(v), S!Descending(v), n)
      BY <1>3, <1>6, <3>2, <3>3, <3>4, TopIsFetched
    <3> QED
      BY <1>10, <1>12, <1>18, <2>1, <2>3, <3>3, <3>5
  <2> QED
    BY <1>3, <2>1, <2>2, <2>3
<1>20. First(B, D, n) \subseteq A
  BY <1>19
<1>21. ASSUME NEW x \in First(B, D, n), NEW y \in A, <<x, y>> \in D
       PROVE  <<x, y>> \in R /\ <<y, x>> \notin R
  <2>1. x \in B /\ y \in B /\ x \in A /\ x \in S!Row /\ y \in S!Row
    BY <1>3, <1>16, <1>20 DEF First
  <2>2. x # y
    BY <1>4, <1>21, <2>1 DEF TotalOn
  <2>3. w[x] > w[y]
    BY <1>4, <1>15, <1>17, <1>21, <2>1, <2>2
  <2>4. S!Score(x, F, G) > S!Score(y, F, G)
    BY <1>15, <1>18, <1>19, <2>1, <2>3
  <2> QED
    BY <1>14, <2>1, <2>4
<1>22. \A x, y \in First(B, D, n) : <<x, y>> \in R <=> <<x, y>> \in D
  <2> SUFFICES ASSUME NEW x \in First(B, D, n), NEW y \in First(B, D, n)
               PROVE  <<x, y>> \in R <=> <<x, y>> \in D
    OBVIOUS
  <2>1. x \in B /\ y \in B /\ x \in A /\ y \in A
    BY <1>20 DEF First
  <2>2. x = y => <<x, y>> \notin R /\ <<x, y>> \notin D
    BY <1>4, <1>14, <2>1 DEF TotalOn
  <2>3. x # y => <<x, y>> \in D \/ <<y, x>> \in D
    BY <1>4, <2>1 DEF TotalOn
  <2>4. ~(<<x, y>> \in D /\ <<y, x>> \in D)
    BY <1>4, <2>1 DEF TotalOn
  <2> QED
    BY <1>21, <2>1, <2>2, <2>3, <2>4
<1>23. \A x \in First(B, D, n), y \in A \ First(B, D, n) : <<x, y>> \in R
  <2>1. \A x \in First(B, D, n), y \in B \ First(B, D, n) : <<x, y>> \in D
    BY <1>3, <1>4, <1>6, RowsAre, FS_Subset, FirstIs
  <2> QED
    BY <1>16, <1>21, <2>1
<1>24. PICK s : s = Ordered(A, R)
  OBVIOUS
<1>25. S!VisibleTo(s) = Ordered(A \ hidden, R)
  <2>1. s \in Seq(S!Row) /\ Len(s) = Cardinality(A) /\ InOrder(s, A, R) /\ S!ToSet(s) = A
    BY <1>14, <1>24, OrderOfRows
  <2>2. \A i, j \in 1..Len(s) : i < j => <<s[i], s[j]>> \in R
    BY <2>1 DEF InOrder
  <2>3. S!VisibleTo(s) = Ordered(S!ToSet(s) \ hidden, R)
    BY <1>14, <2>1, <2>2, VisibleIs
  <2> QED
    BY <2>1, <2>3
<1>26. S!Cut(Ordered(A \ hidden, R), from, k) = S!Cut(Ordered(B \ hidden, D), from, k)
  <2>1. PICK H : H = hidden /\ H \in SUBSET S!Row
    BY DEF SeTyped
  <2>2. k \in Nat /\ B \in SUBSET S!Row /\ A \in SUBSET B
    BY <1>3, <1>5, <1>16
  <2>3. Cardinality(B) <= n \/ from + k + Cardinality(H) <= n
    BY <1>6, <2>1
  <2>4. S!Cut(Ordered(A \ H, R), from, k) = S!Cut(Ordered(B \ H, D), from, k)
    <3>1. Leads(A, R, B, D, n)
      BY <1>20, <1>22, <1>23 DEF Leads
    <3>2. PICK t, q : t = Ordered(A \ H, R) /\ q = Ordered(B \ H, D)
      OBVIOUS
    <3>3. A \ H \in SUBSET S!Row /\ TotalOn(A \ H, R) /\ B \ H \in SUBSET S!Row /\ TotalOn(B \ H, D)
      BY <1>4, <1>14, <2>2, TotalOnPart
    <3>4. Lines(t, A \ H, R)
      BY <3>2, <3>3, OrderOfRows DEF Lines
    <3>5. Lines(q, B \ H, D)
      BY <3>2, <3>3, OrderOfRows DEF Lines
    <3>7. Reaches(B, H, n, from, k)
      BY <1>6, <2>2, <2>3 DEF Reaches
    <3>6. S!Cut(t, from, k) = S!Cut(q, from, k)
      BY <1>4, <1>6, <1>14, <2>2, <2>3, <2>1, <3>1, <3>4, <3>5, <3>7, CutVisible
    <3> QED
      BY <3>2, <3>6
  <2> QED
    BY <2>1, <2>4
<1>27. S!Answer(from) = S!Cut(S!VisibleTo(s), from, k)
  BY <1>1, <1>9, <1>14, <1>24 DEF S!Answer, S!SqlOffset
<1> QED
  BY <1>1, <1>2, <1>25, <1>26, <1>27 DEF Best

(* One half alone is merged into itself. *)
LEMMA OneHalf ==
    ASSUME SeTyped, NEW v \in [S!Row -> Nat], NEW D, D = S!Descending(v),
           NEW s \in Seq(S!Row), \A i, j \in 1..Len(s) : i < j => <<s[i], s[j]>> \in D,
           TotalOn(S!ToSet(s), D), NEW ft, NEW sem,
           \/ ft = s /\ sem = <<>> /\ v = rank
           \/ ft = <<>> /\ sem = s /\ v = sim
    PROVE  S!Merge(ft, sem) = s
<1>1. PICK A, n : A = S!ToSet(s) /\ n = Len(s)
  OBVIOUS
<1>2. /\ A \subseteq S!Row /\ IsFiniteSet(A) /\ InOrder(s, A, D) /\ Cardinality(A) = n /\ n \in Nat
      /\ \A i \in 1..n : S!Place(s, s[i]) = i
  BY <1>1, Listed
<1>3. /\ ft \in Seq(S!Row) /\ sem \in Seq(S!Row) /\ A = S!ToSet(ft) \cup S!ToSet(sem)
      /\ \A i \in 1..Len(ft) : S!Place(ft, ft[i]) = i
      /\ \A i \in 1..Len(sem) : S!Place(sem, sem[i]) = i
  <2>1. S!ToSet(<<>>) = {} /\ Len(<<>>) = 0 /\ <<>> \in Seq(S!Row)
    BY DEF S!ToSet
  <2>2. CASE ft = s /\ sem = <<>>
    BY <1>1, <1>2, <2>1, <2>2
  <2>3. CASE ft = <<>> /\ sem = s
    BY <1>1, <1>2, <2>1, <2>3
  <2> QED
    BY <2>2, <2>3
<1>4. PICK R : R = MergeOrder(ft, sem)
  OBVIOUS
<1>5. /\ TotalOn(A, R) /\ S!Merge(ft, sem) = Ordered(A, R)
  BY <1>3, <1>4, MergeIs
<1>6. PICK at : at = [r \in A |-> S!Place(s, r)]
  OBVIOUS
<1>7. PICK is : is = [r \in A |-> S!Score(r, S!ToSet(ft), S!ToSet(sem))]
  OBVIOUS
<1>8. \A x, y \in A : is[x] > is[y] \/ (is[x] = is[y] /\ at[x] < at[y]) => <<x, y>> \in R
  <2>1. CASE ft = s /\ sem = <<>>
    <3>1. \A r \in A : r \in S!ToSet(ft) /\ at[r] = S!Place(ft, r)
      BY <1>1, <1>6, <2>1
    <3> QED
      BY <1>3, <1>4, <1>7, <3>1 DEF MergeOrder
  <2>2. CASE ft = <<>> /\ sem = s
    <3>1. \A r \in A : r \notin S!ToSet(ft) /\ r \in S!ToSet(sem)
      BY <1>1, <2>2 DEF S!ToSet
    <3>2. \A r \in A : S!Place(s, r) \in 1..n
      BY <1>2 DEF InOrder
    <3>3. \A r \in A : at[r] = Len(ft) + S!Place(sem, r)
      BY <1>2, <1>6, <2>2, <3>2
    <3> QED
      BY <1>3, <1>4, <1>7, <3>1, <3>3 DEF MergeOrder
  <2> QED
    BY <2>1, <2>2
<1>9. \A x \in A : is[x] = (IF ft = s /\ sem = <<>> /\ v = rank THEN 3 ELSE 2) * v[x]
  <2> SUFFICES ASSUME NEW x \in A
               PROVE  is[x] = (IF ft = s /\ sem = <<>> /\ v = rank THEN 3 ELSE 2) * v[x]
    OBVIOUS
  <2>1. x \in S!Row /\ rank[x] \in Nat /\ sim[x] \in Nat
    BY <1>2 DEF SeTyped
  <2>2. PICK a, b : /\ a = (IF x \in S!ToSet(ft) THEN 3 * rank[x] ELSE 0)
                    /\ b = (IF x \in S!ToSet(sem) THEN 2 * sim[x] ELSE 0)
    OBVIOUS
  <2>3. is[x] = IF a >= b THEN a ELSE b
    BY <1>7, <2>1, <2>2, ScoreIs
  <2>4. CASE ft = s /\ sem = <<>> /\ v = rank
    <3>1. x \in S!ToSet(ft) /\ x \notin S!ToSet(sem)
      BY <1>1, <2>4 DEF S!ToSet
    <3>2. is[x] = 3 * v[x]
      BY <2>1, <2>2, <2>3, <2>4, <3>1
    <3> QED
      BY <2>4, <3>2
  <2>5. CASE ~(ft = s /\ sem = <<>> /\ v = rank)
    <3>1. ft = <<>> /\ sem = s /\ v = sim
      BY <2>5
    <3>2. x \notin S!ToSet(ft) /\ x \in S!ToSet(sem)
      BY <1>1, <3>1 DEF S!ToSet
    <3>3. is[x] = 2 * v[x]
      BY <2>1, <2>2, <2>3, <3>1, <3>2
    <3> QED
      BY <2>5, <3>3
  <2> QED
    BY <2>4, <2>5
<1>12. PICK m \in {2, 3} : \A x \in A : is[x] = m * v[x]
  <2>1. CASE ft = s /\ sem = <<>> /\ v = rank
    BY <1>9, <2>1
  <2>2. CASE ~(ft = s /\ sem = <<>> /\ v = rank)
    BY <1>9, <2>2
  <2> QED
    BY <2>1, <2>2
<1>10. ASSUME NEW x \in A, NEW y \in A, <<x, y>> \in D PROVE <<x, y>> \in R
  <2>1. x \in S!Row /\ y \in S!Row /\ v[x] \in Nat /\ v[y] \in Nat
    BY <1>2
  <2>2. v[x] > v[y] \/ (v[x] = v[y] /\ x < y)
    BY <1>10, <2>1, DescendingIs
  <2>3. CASE v[x] > v[y]
    <3>1. is[x] > is[y]
      BY <1>12, <2>1, <2>3
    <3> QED
      BY <1>8, <3>1
  <2>4. CASE v[x] = v[y]
    <3>1. PICK i \in 1..n : s[i] = x
      BY <1>2 DEF InOrder
    <3>2. PICK j \in 1..n : s[j] = y
      BY <1>2 DEF InOrder
    <3>3. ~(j < i)
      <4>1. j < i => <<y, x>> \in D
        BY <1>1, <3>1, <3>2
      <4>2. ~(<<y, x>> \in D)
        BY <1>1, <1>10 DEF TotalOn
      <4> QED
        BY <4>1, <4>2
    <3>4. i # j
      BY <1>1, <1>10, <3>1, <3>2 DEF TotalOn
    <3>5. at[x] < at[y]
      BY <1>2, <1>6, <3>1, <3>2, <3>3, <3>4
    <3>6. is[x] = is[y]
      BY <1>12, <2>1, <2>4
    <3> QED
      BY <1>8, <3>5, <3>6
  <2> QED
    BY <2>2, <2>3, <2>4
<1>11. Ordered(A, R) = s
  BY <1>2, <1>5, <1>10, Reordered
<1> QED
  BY <1>5, <1>11

LEMMA CutOfCut ==
    ASSUME NEW Of, NEW q \in Seq(Of), NEW from \in Nat, NEW n \in Nat, NEW k \in Nat,
           k <= n \/ Len(q) <= n
    PROVE  S!Cut(S!Cut(q, from, n), 0, k) = S!Cut(q, from, k)
<1>1. PICK o, len : o = 0 /\ o \in Nat /\ len = Len(q) /\ len \in Nat
  OBVIOUS
<1>2. PICK a : a = S!Cut(q, from, n)
  OBVIOUS
<1>3. PICK b : b = S!Cut(q, from, k)
  OBVIOUS
<1>4. PICK m : m = Remaining(len, from, n) /\ m \in Nat
  BY <1>1 DEF Remaining
<1>5. a \in Seq(Of) /\ Len(a) = m /\ \A i \in 1..m : a[i] = q[from + i]
  <2>1. /\ S!Cut(q, from, n) \in Seq(Of)
        /\ Len(S!Cut(q, from, n)) = Remaining(Len(q), from, n)
        /\ \A i \in 1..Remaining(Len(q), from, n) : S!Cut(q, from, n)[i] = q[from + i]
    BY CutIs
  <2> QED
    BY <1>1, <1>2, <1>4, <2>1
<1>6. PICK l : l = Remaining(len, from, k) /\ l \in Nat
  BY <1>1 DEF Remaining
<1>7. b \in Seq(Of) /\ Len(b) = l /\ \A i \in 1..l : b[i] = q[from + i]
  <2>1. /\ S!Cut(q, from, k) \in Seq(Of)
        /\ Len(S!Cut(q, from, k)) = Remaining(Len(q), from, k)
        /\ \A i \in 1..Remaining(Len(q), from, k) : S!Cut(q, from, k)[i] = q[from + i]
    BY CutIs
  <2> QED
    BY <1>1, <1>3, <1>6, <2>1
<1>8. Remaining(m, o, k) = l /\ l <= m
  BY <1>1, <1>4, <1>6 DEF Remaining
<1>9. PICK c : c = S!Cut(a, o, k)
  OBVIOUS
<1>10. c \in Seq(Of) /\ Len(c) = l /\ \A i \in 1..l : c[i] = q[from + i]
  <2>1. /\ S!Cut(a, o, k) \in Seq(Of)
        /\ Len(S!Cut(a, o, k)) = Remaining(Len(a), o, k)
        /\ \A i \in 1..Remaining(Len(a), o, k) : S!Cut(a, o, k)[i] = a[o + i]
    <3>1. a \in Seq(Of) /\ o \in Nat
      BY <1>1, <1>5
    <3>3. S!Cut(a, o, k) \in Seq(Of)
      BY <3>1, CutIs
    <3>4. Len(S!Cut(a, o, k)) = Remaining(Len(a), o, k)
      BY <3>1, CutIs
    <3>5. \A i \in 1..Remaining(Len(a), o, k) : S!Cut(a, o, k)[i] = a[o + i]
      BY <3>1, CutIs
    <3> QED
      BY <3>3, <3>4, <3>5
  <2>2. \A i \in 1..l : o + i = i /\ i \in 1..m
    BY <1>1, <1>4, <1>6, <1>8
  <2> QED
    BY <1>5, <1>8, <1>9, <2>1, <2>2
<1>11. b = [i \in 1..l |-> b[i]] /\ c = [i \in 1..l |-> c[i]]
  BY <1>7, <1>10
<1>12. [i \in 1..l |-> b[i]] = [i \in 1..l |-> c[i]]
  BY <1>7, <1>10
<1> QED
  BY <1>1, <1>2, <1>3, <1>9, <1>11, <1>12

(* The readable matches, the worthiest first. *)
LEMMA BestIs ==
    ASSUME SeTyped, NEW B, B = Matching(Worth), NEW D, D = S!Descending(Worth)
    PROVE  /\ B \in SUBSET S!Row /\ B = S!Matched /\ TotalOn(B, D)
           /\ Lines(Best, B \ hidden, D) /\ Cardinality(B) \in Nat
           /\ hidden \in SUBSET S!Row /\ Cardinality(hidden) \in Nat /\ limit \in Nat \ {0}
<1>1. Worth \in [S!Row -> Nat] /\ B = S!Matched
  BY WorthIs
<1>2. B \in SUBSET S!Row /\ TotalOn(B, D)
  BY <1>1, DescendingIs, TotalOnPart
<1>3. PICK left : left = B \ hidden
  OBVIOUS
<1>4. left \in SUBSET S!Row /\ TotalOn(left, D)
  BY <1>2, <1>3, TotalOnPart
<1>5. Best = Ordered(left, D)
  BY <1>3 DEF Best
<1>6. Lines(Best, left, D)
  BY <1>4, <1>5, OrderOfRows DEF Lines
<1>7. hidden \in SUBSET S!Row /\ limit \in Nat \ {0}
  BY DEF SeTyped
<1>8. Cardinality(B) \in Nat /\ Cardinality(hidden) \in Nat
  BY <1>2, <1>7, RowsAre, FS_Subset, FS_CardinalityType
<1> QED
  BY <1>1, <1>2, <1>3, <1>6, <1>7, <1>8

(* As many rows as are fetched are all matches, or enough of them. *)
LEMMA FetchFits ==
    ASSUME SeTyped, SeFits, kind \notin {"fulltext", "semantic"} \/ hidden = {}, NEW from \in Nat, NEW n,
           n = S!AtMost((from + limit) * MaxFetchFactor) \/ n = (from + limit) * MaxFetchFactor
    PROVE  n \in Nat /\ (Cardinality(Matching(Worth)) <= n \/ from + limit + Cardinality(hidden) <= n)
<1>1. PICK k, hid : k = limit /\ hid = Cardinality(hidden)
  OBVIOUS
<1>2. PICK B : B = Matching(Worth)
  OBVIOUS
<1>3. k \in Nat \ {0} /\ hid \in Nat /\ Cardinality(B) \in Nat /\ B = S!Matched
  BY <1>1, <1>2, BestIs
<1>4. hid <= (MaxFetchFactor - 1) * k
  <2>1. CASE hidden = {}
    <3>1. MaxFetchFactor - 1 \in Nat
      BY SearchBounds
    <3>2. (MaxFetchFactor - 1) * k \in Nat
      BY <1>3, <3>1
    <3> QED
      BY <1>1, <2>1, <3>2, FS_EmptySet
  <2>2. CASE hidden # {}
    BY <1>1, <2>2 DEF SeFits
  <2> QED
    BY <2>1, <2>2
<1>5. n \in Nat /\ (MaxFetchRows <= n \/ from + k + hid <= n)
  <2>1. n = S!AtMost((from + k) * MaxFetchFactor) \/ n = (from + k) * MaxFetchFactor
    BY <1>1
  <2> QED
    BY <1>3, <1>4, <2>1, FetchIs
<1>6. Cardinality(B) <= MaxFetchRows /\ MaxFetchRows \in Nat
  BY <1>3, SearchBounds DEF SeFits
<1> QED
  BY <1>1, <1>2, <1>3, <1>5, <1>6

LEMMA HalfAnswer ==
    ASSUME SeTyped, SeFits, kind \in {"fulltext", "semantic"}, NEW from \in Nat
    PROVE  S!Answer(from) = S!Cut(Best, from, limit)
<1>1. PICK n, k : n = S!FetchLimit(from) /\ k = limit
  OBVIOUS
<1>2. PICK w, B, D : w = Worth /\ B = Matching(Worth) /\ D = S!Descending(Worth)
  OBVIOUS
<1>3. /\ B \in SUBSET S!Row /\ TotalOn(B, D) /\ Cardinality(B) \in Nat /\ k \in Nat \ {0}
      /\ Lines(Best, B \ hidden, D)
  BY <1>1, <1>2, BestIs
<1>4. hidden = {}
  BY DEF SeFits
<1>5. PICK q : q = Best /\ Lines(q, B, D)
  <2>1. B \ hidden = B
    BY <1>4
  <2> QED
    BY <1>3, <2>1
<1>6. n \in Nat /\ (Cardinality(B) <= n \/ k <= n)
  <2>1. PICK o : o = 0 /\ o \in Nat
    OBVIOUS
  <2>2. n = S!AtMost((o + limit) * MaxFetchFactor)
    <3>1. n = S!AtMost(limit * MaxFetchFactor)
      BY <1>1 DEF S!FetchLimit, S!Window
    <3>2. o + limit = limit
      BY <1>1, <1>3, <2>1
    <3> QED
      BY <3>1, <3>2
  <2>3. n \in Nat /\ (Cardinality(Matching(Worth)) <= n \/ o + limit + Cardinality(hidden) <= n)
    BY <1>4, <2>1, <2>2, FetchFits
  <2>4. Cardinality(hidden) = 0
    BY <1>4, FS_EmptySet
  <2> QED
    BY <1>1, <1>2, <1>3, <2>1, <2>3, <2>4
<1>7. PICK h : h = S!Cut(q, from, n)
  OBVIOUS
<1>8. CutLines(h, B, D, from, n)
  BY <1>3, <1>5, <1>6, <1>7, CutInOrder
<1>9. /\ h \in Seq(S!Row) /\ TotalOn(S!ToSet(h), D)
      /\ \A i, j \in 1..Len(h) : i < j => <<h[i], h[j]>> \in D
  BY <1>8 DEF CutLines
<1>10. w \in [S!Row -> Nat] /\ (kind = "fulltext" => w = rank) /\ (kind = "semantic" => w = sim)
  BY <1>2, WorthIs
<1>11. q = S!Ranked(w)
  <2>1. IsFiniteSet(B) /\ InOrder(q, B, D)
    BY <1>3, <1>5, RowsAre, FS_Subset DEF Lines
  <2>2. Ordered(B, D) = q
    BY <1>3, <2>1, Reordered
  <2> QED
    BY <1>2, <2>2, SearchOrder DEF S!Ranked, Matching
<1>12. S!Answer(from) = S!Cut(S!VisibleTo(h), 0, k)
  <2>1. CASE kind = "fulltext"
    <3>1. S!SearchWithRank(n, from) = h
      BY <1>7, <1>10, <1>11, <2>1 DEF S!SearchWithRank
    <3>2. S!Merge(h, <<>>) = h
      BY <1>2, <1>9, <1>10, <2>1, OneHalf
    <3> QED
      BY <1>1, <2>1, <3>1, <3>2 DEF S!Answer, S!SqlOffset
  <2>2. CASE kind = "semantic"
    <3>1. S!SemanticSearch(n, from) = h
      BY <1>7, <1>10, <1>11, <2>2 DEF S!SemanticSearch
    <3>2. S!Merge(<<>>, h) = h
      BY <1>2, <1>9, <1>10, <2>2, OneHalf
    <3> QED
      BY <1>1, <2>2, <3>1, <3>2 DEF S!Answer, S!SqlOffset
  <2> QED
    BY <2>1, <2>2
<1>13. S!VisibleTo(h) = h
  <2>1. S!VisibleTo(h) = Ordered(S!ToSet(h) \ hidden, D)
    BY <1>9, VisibleIs
  <2>2. PICK A : A = S!ToSet(h) /\ S!ToSet(h) \ hidden = A
    BY <1>4
  <2>3. IsFiniteSet(A) /\ InOrder(h, A, D) /\ TotalOn(A, D)
    BY <1>9, <2>2, Listed
  <2>4. Ordered(A, D) = h
    BY <2>3, Reordered
  <2> QED
    BY <2>1, <2>2, <2>4
<1>14. S!Cut(h, 0, k) = S!Cut(q, from, k)
  <2>1. q \in Seq(S!Row) /\ (k <= n \/ Len(q) <= n)
    BY <1>3, <1>5, <1>6 DEF Lines
  <2>2. S!Cut(S!Cut(q, from, n), 0, k) = S!Cut(q, from, k)
    BY <1>3, <1>6, <2>1, CutOfCut
  <2> QED
    BY <1>7, <2>2
<1> QED
  BY <1>1, <1>5, <1>12, <1>13, <1>14

Starts(A, B, D, n) == A = First(B, D, n)

(* The first n rows of an order, less the hidden ones, start as all of them do. *)
LEMMA FirstRows ==
    ASSUME NEW A, NEW B, NEW D, NEW n, NEW o, NEW k, NEW H, NEW t, NEW z,
           B \in SUBSET S!Row, TotalOn(B, D), Reaches(B, H, n, o, k), H \in SUBSET S!Row,
           Starts(A, B, D, n), Lines(t, A \ H, D), Lines(z, B \ H, D)
    PROVE  S!Cut(t, o, k) = S!Cut(z, o, k)
<1>1. IsFiniteSet(B) /\ n \in Nat
  BY RowsAre, FS_Subset DEF Reaches
<1>2. A \in SUBSET B /\ TotalOn(A, D)
  <2>1. A \in SUBSET B
    BY DEF Starts, First
  <2> QED
    BY <2>1, TotalOnPart
<1>3. \A x \in First(B, D, n), y \in B \ First(B, D, n) : <<x, y>> \in D
  BY <1>1, FirstIs
<1>4. Leads(A, D, B, D, n)
  BY <1>2, <1>3 DEF Leads, Starts
<1>5. PICK R : TotalOn(A, R) /\ Leads(A, R, B, D, n) /\ Lines(t, A \ H, R)
  BY <1>2, <1>4
<1> QED
  BY <1>2, <1>5, CutVisible

ToolFetch(n) == n = S!AtMost(limit * MaxFetchFactor) \/ n = limit * MaxFetchFactor

(* What a tool or a prompt is given. *)
LEMMA FirstAnswer ==
    ASSUME SeTyped, SeFits, kind \in S!OneAnswer, NEW n, ToolFetch(n),
           NEW q, Lines(q, Matching(Worth), S!Descending(Worth))
    PROVE  S!FirstVisible(S!Cut(q, 0, n)) = S!Cut(Best, 0, limit)
<1>1. PICK o, k : o = 0 /\ o \in Nat /\ k = limit
  OBVIOUS
<1>2. PICK B, D, H : B = Matching(Worth) /\ D = S!Descending(Worth) /\ H = hidden
  OBVIOUS
<1>3. /\ B \in SUBSET S!Row /\ TotalOn(B, D) /\ Cardinality(B) \in Nat /\ k \in Nat \ {0}
      /\ Lines(Best, B \ H, D) /\ H \in SUBSET S!Row /\ Cardinality(H) \in Nat
  BY <1>1, <1>2, BestIs
<1>4. n \in Nat /\ (Cardinality(B) <= n \/ o + k + Cardinality(H) <= n)
  <2>1. o + limit = limit
    BY <1>1, <1>3
  <2>2. n = S!AtMost((o + limit) * MaxFetchFactor) \/ n = (o + limit) * MaxFetchFactor
    BY <2>1 DEF ToolFetch
  <2>3. kind \notin {"fulltext", "semantic"}
    BY DEF S!OneAnswer
  <2>4. n \in Nat /\ (Cardinality(Matching(Worth)) <= n \/ o + limit + Cardinality(hidden) <= n)
    BY <1>1, <2>2, <2>3, FetchFits
  <2> QED
    BY <1>1, <1>2, <2>4
<1>5. Lines(q, B, D)
  BY <1>2
<1>6. PICK h : h = S!Cut(q, o, n)
  OBVIOUS
<1>7. CutLines(h, B, D, o, n)
  BY <1>1, <1>3, <1>4, <1>5, <1>6, CutInOrder
<1>8. /\ h \in Seq(S!Row) /\ TotalOn(S!ToSet(h), D) /\ S!ToSet(h) \subseteq B
      /\ \A i, j \in 1..Len(h) : i < j => <<h[i], h[j]>> \in D
      /\ S!ToSet(h) = First(B, D, n)
  BY <1>1, <1>7 DEF CutLines
<1>9. PICK A : A = S!ToSet(h) /\ A \in SUBSET B /\ TotalOn(A, D) /\ A = First(B, D, n)
  BY <1>8
<1>10. S!VisibleTo(h) = Ordered(A \ H, D)
  BY <1>2, <1>8, <1>9, VisibleIs
<1>11. PICK t : t = Ordered(A \ H, D)
  OBVIOUS
<1>12. Lines(t, A \ H, D)
  <2>1. A \ H \in SUBSET S!Row /\ TotalOn(A \ H, D)
    BY <1>3, <1>9, TotalOnPart
  <2> QED
    BY <1>11, <2>1, OrderOfRows DEF Lines
<1>14. PICK z : z = Best /\ Lines(z, B \ H, D)
  BY <1>3
<1>15. S!Cut(t, o, k) = S!Cut(z, o, k)
  <2>1. B \in SUBSET S!Row /\ TotalOn(B, D) /\ Reaches(B, H, n, o, k)
    BY <1>1, <1>3, <1>4 DEF Reaches
  <2>2. H \in SUBSET S!Row /\ Lines(t, A \ H, D) /\ Lines(z, B \ H, D)
    BY <1>3, <1>12, <1>14
  <2>3. Starts(A, B, D, n)
    BY <1>9 DEF Starts
  <2> QED
    BY <2>1, <2>2, <2>3, FirstRows
<1>16. S!FirstVisible(h) = S!Cut(t, o, k)
  BY <1>1, <1>10, <1>11 DEF S!FirstVisible
<1> QED
  BY <1>1, <1>6, <1>14, <1>15, <1>16

LEMMA OnceAnswer ==
    ASSUME SeTyped, SeFits
    PROVE  /\ kind = "search_docs" => S!ToolSearchDocs = S!Cut(Best, 0, limit)
           /\ kind = "ask_docs" => S!ToolAskDocs = S!Cut(Best, 0, limit)
           /\ kind = "ask" => S!Ask = S!Cut(Best, 0, limit)
<1>1. PICK B, D : B = Matching(Worth) /\ D = S!Descending(Worth)
  OBVIOUS
<1>2. B \in SUBSET S!Row /\ TotalOn(B, D)
  BY <1>1, BestIs
<1>3. PICK q : q = Ordered(B, D)
  OBVIOUS
<1>4. Lines(q, B, D)
  BY <1>2, <1>3, OrderOfRows DEF Lines
<1>5. ASSUME kind \in S!OneAnswer, NEW n, ToolFetch(n)
      PROVE  S!FirstVisible(S!Cut(q, 0, n)) = S!Cut(Best, 0, limit)
  BY <1>1, <1>4, <1>5, FirstAnswer
<1>6. CASE kind \in {"search_docs", "ask_docs"}
  <2>1. Worth = rank
    BY <1>6, WorthIs
  <2>2. S!Ranked(rank) = q
    BY <1>1, <1>3, <2>1, SearchOrder DEF S!Ranked, Matching
  <2>3. PICK n : n = S!AtMost(limit * MaxFetchFactor)
    OBVIOUS
  <2>4. S!SearchWithRank(n, 0) = S!Cut(q, 0, n)
    BY <2>2 DEF S!SearchWithRank
  <2>5. S!FirstVisible(S!Cut(q, 0, n)) = S!Cut(Best, 0, limit)
    BY <1>5, <1>6, <2>3 DEF S!OneAnswer, ToolFetch
  <2> QED
    BY <1>6, <2>3, <2>4, <2>5 DEF S!ToolSearchDocs, S!ToolAskDocs
<1>7. CASE kind = "ask"
  <2>1. /\ \A r \in S!Row : Worth[r] = IF rank[r] > 0 THEN 1 ELSE 0
        /\ Worth \in [S!Row -> Nat]
    BY <1>7, WorthIs DEF Worth
  <2>2. B = {r \in S!Row : rank[r] > 0}
    <3>1. \A r \in S!Row : Worth[r] > 0 <=> rank[r] > 0
      BY <2>1
    <3> QED
      BY <1>1, <3>1 DEF Matching
  <2>3. PICK R : R = {p \in S!Row \X S!Row : p[1] < p[2]}
    OBVIOUS
  <2>4. \A x, y \in S!Row : <<x, y>> \in R <=> x < y
    BY <2>3
  <2>5. \A x, y \in B : <<x, y>> \in D <=> <<x, y>> \in R
    <3> SUFFICES ASSUME NEW x \in B, NEW y \in B PROVE <<x, y>> \in D <=> x < y
      BY <1>2, <2>4
    <3>1. x \in S!Row /\ y \in S!Row /\ Worth[x] = 1 /\ Worth[y] = 1
      BY <2>1, <2>2
    <3>2. <<x, y>> \in D <=> Worth[x] > Worth[y] \/ (Worth[x] = Worth[y] /\ x < y)
      BY <1>1, <2>1, <3>1, DescendingIs
    <3> QED
      BY <3>1, <3>2
  <2>6. TotalOn(B, R)
    BY <1>2, <2>5 DEF TotalOn
  <2>7. Ordered(B, R) = q
    <3>1. IsFiniteSet(B) /\ InOrder(q, B, D)
      BY <1>2, <1>4, RowsAre, FS_Subset DEF Lines
    <3>2. \A x, y \in B : <<x, y>> \in D => <<x, y>> \in R
      BY <2>5
    <3> QED
      BY <2>6, <3>1, <3>2, Reordered
  <2>8. S!Search(limit * MaxFetchFactor) = S!Cut(q, 0, limit * MaxFetchFactor)
    BY <2>2, <2>3, <2>7, SearchOrder DEF S!Search
  <2>9. S!FirstVisible(S!Cut(q, 0, limit * MaxFetchFactor)) = S!Cut(Best, 0, limit)
    BY <1>5, <1>7 DEF S!OneAnswer, ToolFetch
  <2> QED
    BY <1>7, <2>8, <2>9 DEF S!Ask
<1> QED
  BY <1>6, <1>7

LEMMA PageAnswer ==
    ASSUME SeTyped, SeFits, kind \notin S!OneAnswer, NEW from \in Nat
    PROVE  S!Answer(from) = S!Cut(Best, from, limit)
<1>1. kind \in {"all", "fulltext", "semantic"}
  BY DEF SeTyped, S!Kind
<1> QED
  BY <1>1, AllAnswer, HalfAnswer

(* The pages of a walk are one cut. *)
LEMMA CutsJoin ==
    ASSUME NEW Of, NEW q \in Seq(Of), NEW a \in Nat, NEW k \in Nat
    PROVE  S!Cut(q, 0, a) \o S!Cut(q, a, k) = S!Cut(q, 0, a + k)
<1>1. PICK o : o = 0 /\ o \in Nat
  OBVIOUS
<1>6. PICK b : b = a + k /\ b \in Nat
  OBVIOUS
<1>2. PICK s, t, u : s = S!Cut(q, o, a) /\ t = S!Cut(q, a, k) /\ u = S!Cut(q, o, b)
  OBVIOUS
<1>3. PICK len : len = Len(q) /\ len \in Nat
  OBVIOUS
<1>16. o \in Nat /\ b \in Nat
  BY <1>1, <1>6
<1>4. s \in Seq(Of) /\ Len(s) = Remaining(len, o, a) /\ \A i \in 1..Remaining(len, o, a) : s[i] = q[o + i]
  <2>1. S!Cut(q, o, a) \in Seq(Of)
    BY <1>16, CutIs
  <2>2. Len(S!Cut(q, o, a)) = Remaining(Len(q), o, a)
    BY <1>16, CutIs
  <2>3. \A i \in 1..Remaining(Len(q), o, a) : S!Cut(q, o, a)[i] = q[o + i]
    BY <1>16, CutIs
  <2> QED
    BY <1>2, <1>3, <1>6, <2>1, <2>2, <2>3
<1>5. t \in Seq(Of) /\ Len(t) = Remaining(len, a, k) /\ \A i \in 1..Remaining(len, a, k) : t[i] = q[a + i]
  <2>1. S!Cut(q, a, k) \in Seq(Of)
    BY <1>16, CutIs
  <2>2. Len(S!Cut(q, a, k)) = Remaining(Len(q), a, k)
    BY <1>16, CutIs
  <2>3. \A i \in 1..Remaining(Len(q), a, k) : S!Cut(q, a, k)[i] = q[a + i]
    BY <1>16, CutIs
  <2> QED
    BY <1>2, <1>3, <1>6, <2>1, <2>2, <2>3
<1>7. u \in Seq(Of) /\ Len(u) = Remaining(len, o, b) /\ \A i \in 1..Remaining(len, o, b) : u[i] = q[o + i]
  <2>1. S!Cut(q, o, b) \in Seq(Of)
    BY <1>16, CutIs
  <2>2. Len(S!Cut(q, o, b)) = Remaining(Len(q), o, b)
    BY <1>16, CutIs
  <2>3. \A i \in 1..Remaining(Len(q), o, b) : S!Cut(q, o, b)[i] = q[o + i]
    BY <1>16, CutIs
  <2> QED
    BY <1>2, <1>3, <1>6, <2>1, <2>2, <2>3
<1>8. PICK m, n : m = Remaining(len, o, a) /\ n = Remaining(len, a, k)
  OBVIOUS
<1>9. m \in Nat /\ n \in Nat /\ m + n = Remaining(len, o, b) /\ (n = 0 \/ m = a)
  <2>1. m = (IF len <= a THEN len ELSE a)
    BY <1>1, <1>3, <1>8 DEF Remaining
  <2>2. n = (IF len <= a THEN 0 ELSE IF len <= b THEN len - a ELSE k)
    BY <1>6, <1>8 DEF Remaining
  <2>3. Remaining(len, o, b) = (IF len <= b THEN len ELSE b)
    BY <1>1, <1>3, <1>6 DEF Remaining
  <2> QED
    BY <1>3, <1>6, <2>1, <2>2, <2>3
<1>10. PICK v : v = s \o t
  OBVIOUS
<1>11. v \in Seq(Of) /\ Len(v) = m + n /\ \A j \in 1..(m + n) : v[j] = IF j <= m THEN s[j] ELSE t[j - m]
  BY <1>4, <1>5, <1>8, <1>10, JoinedEnds
<1>12. \A j \in 1..(m + n) : v[j] = u[j]
  <2> SUFFICES ASSUME NEW j \in 1..(m + n) PROVE v[j] = u[j]
    OBVIOUS
  <2>1. u[j] = q[j]
    <3>1. u[j] = q[o + j]
      BY <1>7, <1>9
    <3>2. o + j = j
      BY <1>1, <1>9
    <3> QED
      BY <3>1, <3>2
  <2>2. CASE j <= m
    <3>1. j \in 1..m /\ o + j = j
      BY <1>1, <1>9, <2>2
    <3>2. s[j] = q[j]
      BY <1>4, <1>8, <3>1
    <3> QED
      BY <1>11, <2>1, <2>2, <3>2
  <2>3. CASE ~(j <= m)
    <3>1. j - m \in 1..n /\ a + (j - m) = j
      BY <1>9, <2>3
    <3>2. t[j - m] = q[j]
      BY <1>5, <1>8, <3>1
    <3> QED
      BY <1>11, <2>1, <2>3, <3>2
  <2> QED
    BY <2>2, <2>3
<1>13. v = [j \in 1..(m + n) |-> v[j]] /\ u = [j \in 1..(m + n) |-> u[j]]
  BY <1>7, <1>9, <1>11
<1>14. [j \in 1..(m + n) |-> v[j]] = [j \in 1..(m + n) |-> u[j]]
  BY <1>12
<1>15. v = u
  BY <1>13, <1>14
<1> QED
  BY <1>1, <1>2, <1>6, <1>10, <1>15

(* A start of the readable matches answers each of them once, as many as fit. *)
LEMMA CutShows ==
    ASSUME SeTyped, NEW c \in Nat, NEW q, q = S!Cut(Best, 0, c)
    PROVE  /\ q \in Seq(S!Row) /\ S!IsInjective(q) /\ S!ToSet(q) \subseteq S!Matched \ hidden
           /\ Cardinality(S!Matched \ hidden) \in Nat
           /\ Len(q) = IF Cardinality(S!Matched \ hidden) <= c THEN Cardinality(S!Matched \ hidden) ELSE c
<1>1. PICK X, D, o : X = S!Matched \ hidden /\ D = S!Descending(Worth) /\ o = 0 /\ o \in Nat
  OBVIOUS
<1>2. X \in SUBSET S!Row /\ TotalOn(X, D) /\ Lines(Best, X, D)
  <2>1. /\ S!Matched \in SUBSET S!Row /\ TotalOn(S!Matched, D) /\ Lines(Best, S!Matched \ hidden, D)
    <3>1. Matching(Worth) = S!Matched
      BY WorthIs
    <3> QED
      BY <1>1, <3>1, BestIs
  <2> QED
    BY <1>1, <2>1, TotalOnPart
<1>3. Cardinality(X) \in Nat
  BY <1>2, RowsAre, FS_Subset, FS_CardinalityType
<1>4. PICK z : z = Best /\ Lines(z, X, D)
  BY <1>2
<1>5. CutLines(q, X, D, o, c)
  <2>1. q = S!Cut(z, o, c)
    BY <1>1, <1>4
  <2> QED
    BY <1>1, <1>2, <1>4, <2>1, CutInOrder
<1>6. /\ q \in Seq(S!Row) /\ Len(q) = Remaining(Cardinality(X), o, c)
      /\ S!ToSet(q) \subseteq X /\ TotalOn(S!ToSet(q), D)
      /\ \A i, j \in 1..Len(q) : i < j => <<q[i], q[j]>> \in D
  BY <1>5 DEF CutLines
<1>7. \A i \in 1..Len(q) : S!Place(q, q[i]) = i
  BY <1>6, Listed
<1>8. S!IsInjective(q)
  BY <1>6, <1>7 DEF S!IsInjective
<1>9. Len(q) = IF Cardinality(X) <= c THEN Cardinality(X) ELSE c
  BY <1>1, <1>3, <1>6 DEF Remaining
<1> QED
  BY <1>1, <1>3, <1>6, <1>8, <1>9

LEMMA SeStart == PublishingInit /\ focus = "search" => SeInv
<1> SUFFICES ASSUME PublishingInit, focus = "search" PROVE SeInv
  OBVIOUS
<1>1. S!SearchInit
  BY DEF PublishingInit
<1>2. SeTyped
  <2>1. 0..MaxScore \subseteq Nat /\ 1..MaxLimit \subseteq Nat \ {0}
    BY SearchBounds
  <2>2. rank \in [S!Row -> Nat] /\ sim \in [S!Row -> Nat]
    BY <1>1, <2>1 DEF S!SearchInit
  <2> QED
    BY <1>1, <2>1, <2>2 DEF S!SearchInit, SeTyped
<1>3. PICK o, q : o = 0 /\ o \in Nat /\ q = S!Cut(Best, 0, o)
  OBVIOUS
<1>4. q \in Seq(S!Row) /\ Len(q) = 0
  <2>1. /\ q \in Seq(S!Row) /\ Cardinality(S!Matched \ hidden) \in Nat
        /\ Len(q) = IF Cardinality(S!Matched \ hidden) <= o THEN Cardinality(S!Matched \ hidden) ELSE o
    BY <1>2, <1>3, CutShows
  <2> QED
    BY <1>3, <2>1
<1>5. q = <<>>
  BY <1>4
<1> QED
  BY <1>1, <1>2, <1>3, <1>5 DEF S!SearchInit, SeInv, SeAnswers

LEMMA SeStep ==
    ASSUME SeInv, S!SearchNext \/ UNCHANGED S!seVars
    PROVE  SeInv'
<1>1. UNCHANGED <<rank, sim, hidden, kind, limit>>
  BY DEF S!SearchNext, S!NextPage, S!OnlyAnswer, S!seVars
<1>2. Worth' = Worth
  BY <1>1 DEF Worth, S!Score
<1>3. Best' = Best
  BY <1>1, <1>2 DEF Best, Matching, S!Descending
<1>4. S!Matched' = S!Matched /\ (S!Tied' <=> S!Tied)
  BY <1>1 DEF S!Matched, S!Tied, S!Score
<1>5. SeFits' => SeFits
  BY <1>1, <1>4 DEF SeFits
<1>6. SeTyped
  BY DEF SeInv
<1>7. SeTyped'
  <2>1. limit \in Nat /\ offset \in Nat /\ offset + limit \in Nat
    BY <1>6 DEF SeTyped
  <2>2. offset' \in Nat /\ ended' \in BOOLEAN
    BY <1>6, <2>1 DEF SeTyped, S!SearchNext, S!NextPage, S!OnlyAnswer, S!seVars
  <2> QED
    BY <1>1, <1>6, <2>2 DEF SeTyped
<1>8. ASSUME SeFits PROVE SeAnswers'
  <2>1. SeAnswers
    BY <1>8 DEF SeInv
  <2>2. CASE UNCHANGED S!seVars
    BY <1>3, <1>4, <2>1, <2>2 DEF SeAnswers, S!seVars
  <2>3. CASE S!NextPage
    <3>1. kind \notin S!OneAnswer /\ kind' = kind /\ limit' = limit /\ hidden' = hidden
      BY <1>1, <2>3 DEF S!NextPage
    <3>2. PICK got : got = S!Answer(offset)
      OBVIOUS
    <3>3. shown' = shown \o got /\ ended' = (got = <<>>) /\ offset' = offset + limit
      BY <2>3, <3>2 DEF S!NextPage
    <3>4. PICK q, a, k : q = Best /\ a = offset /\ k = limit /\ a \in Nat /\ k \in Nat \ {0}
      BY <1>6 DEF SeTyped
    <3>5. PICK X : X = S!Matched \ hidden
      OBVIOUS
    <3>6. q \in Seq(S!Row) /\ Len(q) = Cardinality(X)
      <4>1. Matching(Worth) = S!Matched
        BY <1>6, WorthIs
      <4> QED
        BY <1>6, <3>4, <3>5, <4>1, BestIs DEF Lines
    <3>7. got = S!Cut(q, a, k)
      BY <1>6, <1>8, <3>1, <3>2, <3>4, PageAnswer
    <3>8. shown = S!Cut(q, 0, a)
      BY <2>1, <3>1, <3>4 DEF SeAnswers
    <3>9. shown' = S!Cut(q, 0, a + k)
      <4>1. S!Cut(q, 0, a) \o S!Cut(q, a, k) = S!Cut(q, 0, a + k)
        BY <3>4, <3>6, CutsJoin
      <4> QED
        BY <3>3, <3>7, <3>8, <4>1
    <3>10. ASSUME got = <<>> PROVE Cardinality(X) <= a + k
      <4>1. Len(got) = Remaining(Len(q), a, k)
        <5>1. Len(S!Cut(q, a, k)) = Remaining(Len(q), a, k)
          <6>1. q \in Seq(S!Row)
            BY <3>6
          <6> QED
            BY <3>4, <6>1, CutIs
        <5> QED
          BY <3>7, <5>1
      <4>2. Len(got) = 0
        BY <3>10
      <4>3. Len(q) \in Nat
        BY <3>6
      <4> QED
        BY <3>4, <3>6, <4>1, <4>2, <4>3 DEF Remaining
    <3>11. ended' => Cardinality(S!Matched' \ hidden') <= offset'
      BY <1>4, <3>1, <3>3, <3>4, <3>5, <3>10
    <3>12. shown' = S!Cut(Best', 0, offset')
      BY <1>3, <3>3, <3>4, <3>9
    <3> QED
      BY <3>1, <3>11, <3>12 DEF SeAnswers
  <2>4. CASE S!OnlyAnswer
    <3>1. kind \in S!OneAnswer /\ ended' = TRUE /\ kind' = kind /\ limit' = limit
      BY <1>1, <2>4 DEF S!OnlyAnswer
    <3>2. /\ kind = "search_docs" => shown' = S!ToolSearchDocs
          /\ kind = "ask_docs" => shown' = S!ToolAskDocs
          /\ kind = "ask" => shown' = S!Ask
      BY <2>4 DEF S!OnlyAnswer
    <3>3. shown' = S!Cut(Best, 0, limit)
      BY <1>6, <1>8, <3>1, <3>2, OnceAnswer DEF S!OneAnswer
    <3>4. shown' = S!Cut(Best', 0, limit')
      BY <1>3, <3>1, <3>3
    <3> QED
      BY <3>1, <3>4 DEF SeAnswers
  <2> QED
    BY <2>2, <2>3, <2>4 DEF S!SearchNext
<1> QED
  BY <1>5, <1>7, <1>8 DEF SeInv

LEMMA SeShows == SeInv => S!WalkShowsEachOnce
<1> SUFFICES ASSUME SeInv PROVE S!WalkShowsEachOnce
  OBVIOUS
<1> DEFINE X == S!Matched \ hidden
           Shows == /\ S!IsInjective(shown) /\ S!ToSet(shown) \subseteq X
                    /\ ended => Len(shown) = IF kind \in S!OneAnswer THEN S!Min({limit, Cardinality(X)})
                                             ELSE Cardinality(X)
<1>1. SeTyped
  BY DEF SeInv
<1>2. ASSUME SeFits PROVE Shows
  <2>1. SeAnswers
    BY <1>2 DEF SeInv
  <2>2. CASE kind \in S!OneAnswer /\ ~ended
    <3>1. shown = <<>>
      BY <2>1, <2>2 DEF SeAnswers
    <3>2. DOMAIN shown = {}
      BY <3>1
    <3> QED
      BY <2>2, <3>2 DEF S!IsInjective, S!ToSet
  <2>3. CASE ~(kind \in S!OneAnswer /\ ~ended)
    <3>1. PICK c : c = (IF kind \in S!OneAnswer THEN limit ELSE offset) /\ c \in Nat
      BY <1>1 DEF SeTyped
    <3>2. PICK q : q = S!Cut(Best, 0, c) /\ q = shown
      BY <2>1, <2>3, <3>1 DEF SeAnswers
    <3>3. /\ S!IsInjective(q) /\ S!ToSet(q) \subseteq X /\ Cardinality(X) \in Nat
          /\ Len(q) = IF Cardinality(X) <= c THEN Cardinality(X) ELSE c
      BY <1>1, <3>1, <3>2, CutShows
    <3>4. CASE kind \in S!OneAnswer
      <4>1. S!Min({limit, Cardinality(X)}) = IF limit <= Cardinality(X) THEN limit ELSE Cardinality(X)
        BY <1>1, <3>3, LeastOfTwo DEF SeTyped
      <4>2. Len(q) = S!Min({limit, Cardinality(X)})
        BY <3>1, <3>3, <3>4, <4>1
      <4> QED
        BY <3>2, <3>3, <3>4, <4>2
    <3>5. CASE kind \notin S!OneAnswer
      <4>1. ended => Cardinality(X) <= c
        BY <2>1, <3>1, <3>5 DEF SeAnswers
      <4> QED
        BY <3>2, <3>3, <3>5, <4>1
    <3> QED
      BY <3>4, <3>5
  <2> QED
    BY <2>2, <2>3
<1> QED
  BY <1>2, SearchCounts DEF S!WalkShowsEachOnce, SeFits

(* A walk through an answer's pages shows each readable match once and, when it ends, all  *)
(* of them; so does an answer given once, as far as its limit allows: what is fetched holds *)
(* the first got of one order of the readable matches, and every page is cut out of it    *)
(* (search/handler.go Search, mcp/server.go, ai/handler.go Ask).                         *)
THEOREM EachShownOnce == PublishingSpec => []WalkShowsEachOnce
<1> DEFINE Walks == focus = "search" => SeInv
<1>1. PublishingInit => Walks
  BY SeStart
<1>2. Walks /\ [PublishingNext]_allVars => Walks'
  <2> SUFFICES ASSUME Walks, [PublishingNext]_allVars, focus' = "search" PROVE SeInv'
    OBVIOUS
  <2>1. focus' = focus
    BY DEF PublishingNext, allVars
  <2>2. S!SearchNext \/ UNCHANGED S!seVars
    BY <2>1 DEF PublishingNext, allVars, seVars, S!seVars
  <2> QED
    BY <2>1, <2>2, SeStep
<1>3. Walks => WalkShowsEachOnce
  BY SeShows DEF WalkShowsEachOnce
<1> QED
  BY <1>1, <1>2, <1>3, PTL DEF PublishingSpec, allVars

=============================================================================
