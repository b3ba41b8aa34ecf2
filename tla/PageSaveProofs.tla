--------------------------- MODULE PageSaveProofs ---------------------------
(***************************************************************************)
(* What TLAPS proves about PageSave, for any number of requests, members,   *)
(* saves, lock and session operations, attempts and failures.              *)
(***************************************************************************)
EXTENDS PageSave, TLAPS

-----------------------------------------------------------------------------
(* Type correctness.                                                        *)

Shape == [pc: {"idle", "guardLock", "guardSession", "parent", "write", "rebase",
               "maxRead", "insert", "lockWrite", "unlockWrite"},
          who: Actor, patch: Patch, moves: BOOLEAN, attempt: 0..MaxVersionAttempts,
          ver: Nat, out: PageContent]

(* Only a member takes the manual lock. *)
Local == {q \in Shape : q.pc = "lockWrite" => q.who \in Member}

GateTyped == row \in LockRow /\ sess \in Session

PageTyped == page \in PageContent /\ versions \in Seq(PageContent)

ReqTyped == req \in [Request -> Local]

HistoryTyped == /\ states \subseteq PageContent /\ lost \in [Reason -> SUBSET PageContent]
                /\ barred \in [Request -> SUBSET {"lock", "session"}]

BoundTyped == /\ saves \in 0..MaxSaves /\ gateOps \in 0..MaxGateOps
              /\ failures \in 0..MaxFailures

Typed == GateTyped /\ PageTyped /\ ReqTyped /\ HistoryTyped /\ BoundTyped

LEMMA TypedIsTypeOK == Typed => TypeOK
BY DEF Typed, TypeOK, GateTyped, PageTyped, ReqTyped, Local, Shape, HistoryTyped, BoundTyped

LEMMA PatchOfFields == \A S \in SUBSET Field : [S -> 0..MaxSaves] \subseteq Patch
BY DEF Patch

LEMMA IdleLocal == Idle \in Local
<1>1. NoPatch \in Patch
  <2>1. NoPatch \in [{} -> 0..MaxSaves]
    BY DEF NoPatch
  <2> QED
    BY <2>1, PatchOfFields
<1>2. [f \in Field |-> 0] \in PageContent /\ NoMember \in Actor /\ 0 \in 0..MaxVersionAttempts
  BY PageSaveAssumption DEF PageContent, Actor
<1> QED
  BY <1>1, <1>2 DEF Idle, Local, Shape

(* What an UPDATE leaves is a title and a content. *)
LEMMA PatchedTyped ==
    ASSUME PageTyped, NEW patch \in Patch
    PROVE  Patched(patch) \in PageContent
<1>1. PICK S \in SUBSET Field : patch \in [S -> 0..MaxSaves]
  BY DEF Patch
<1> QED
  BY <1>1 DEF PageTyped, PageContent, Patched

LEMMA InitTyped == Init => Typed
<1> SUFFICES ASSUME Init PROVE Typed
  OBVIOUS
<1>1. GateTyped
  BY DEF Init, GateTyped, LockRow, Unlocked, DocStatus, Session, NoSession
<1>2. page \in PageContent /\ PageTyped
  BY PageSaveAssumption DEF Init, PageTyped, PageContent
<1>3. ReqTyped
  BY IdleLocal DEF Init, ReqTyped
<1>4. HistoryTyped /\ BoundTyped
  BY <1>2, PageSaveAssumption DEF Init, HistoryTyped, BoundTyped
<1> QED
  BY <1>1, <1>2, <1>3, <1>4 DEF Typed

LEMMA WatchTyped == Typed /\ Watch => barred' \in [Request -> SUBSET {"lock", "session"}]
BY DEF Watch, Typed, HistoryTyped, Refusing

LEMMA FinishTyped == \A r \in Request : Typed /\ Finish(r) => ReqTyped'
BY IdleLocal DEF Finish, Typed, ReqTyped

(* What a step adds to a reason, it adds to what is lost. *)
LEMMA LoseAdds ==
    ASSUME lost \in [Reason -> SUBSET PageContent], NEW why \in Reason,
           NEW contents \in SUBSET PageContent, Lose(why, contents)
    PROVE  lost' \in [Reason -> SUBSET PageContent] /\ Lost' = Lost \cup contents
<1>1. /\ lost'[why] = lost[why] \cup contents
      /\ \A w \in Reason : w # why => lost'[w] = lost[w]
  BY DEF Lose
<1>2. \A x : x \in Lost' <=> \E w \in Reason : x \in lost'[w]
  BY DEF Lost
<1>3. \A x : x \in Lost <=> \E w \in Reason : x \in lost[w]
  BY DEF Lost
<1>4. \A x : x \in Lost' <=> x \in Lost \cup contents
  BY <1>1, <1>2, <1>3
<1> QED
  BY <1>4 DEF Lose

LEMMA TypedStep == Typed /\ [Next]_vars => Typed'
<1> SUFFICES ASSUME Typed, [Next]_vars PROVE Typed'
  OBVIOUS
<1> USE DEF Typed
<1>1. ASSUME NEW r \in Request, NEW m \in Actor, NEW patch \in Patch, NEW moves \in BOOLEAN,
             Begin(r, m, patch, moves), saves' \in 0..MaxSaves
      PROVE  Typed'
  <2>1. [Idle EXCEPT !.pc = "guardLock", !.who = m, !.patch = patch, !.moves = moves] \in Local
    BY IdleLocal DEF Local, Shape
  <2>2. ReqTyped'
    BY <1>1, <2>1 DEF Begin, ReqTyped
  <2>3. HistoryTyped'
    BY <1>1 DEF Begin, HistoryTyped, historyVars, Refusing
  <2> QED
    BY <1>1, <2>2, <2>3
    DEF Begin, gateVars, pageVars, GateTyped, PageTyped, BoundTyped
<1>2. ASSUME NEW r \in Request, NEW m \in Member, BeginSave(r, m) PROVE Typed'
  <2>1. PICK S \in SUBSET Field \ {{}}, moves \in BOOLEAN :
            Begin(r, m, [f \in S |-> saves + 1], moves)
    BY <1>2 DEF BeginSave
  <2>2. saves + 1 \in 0..MaxSaves /\ saves' = saves + 1
    BY <1>2, PageSaveAssumption DEF BeginSave, BoundTyped
  <2>3. [f \in S |-> saves + 1] \in [S -> 0..MaxSaves]
    BY <2>2
  <2>4. [f \in S |-> saves + 1] \in Patch
    BY <2>3, PatchOfFields
  <2> QED
    BY <1>1, <2>1, <2>2, <2>4 DEF Actor
<1>3. ASSUME NEW r \in Request, BeginRestore(r) PROVE Typed'
  <2>1. PICK v \in DOMAIN versions : Begin(r, RestoreActor, versions[v], FALSE)
    BY <1>3 DEF BeginRestore
  <2>2. saves' \in 0..MaxSaves
    BY <1>3, PageSaveAssumption DEF BeginRestore, BoundTyped
  <2>3. versions[v] \in [Field -> 0..MaxSaves]
    BY DEF PageTyped, PageContent
  <2>4. versions[v] \in Patch
    BY <2>3 DEF Patch
  <2> QED
    BY <1>1, <2>1, <2>2, <2>4 DEF Actor
<1>4. ASSUME NEW r \in Request,
             \/ GuardLock(r) \/ GuardSession(r) \/ ParentLookups(r)
             \/ RebaseDepth(r) \/ VersionNumber(r)
      PROVE  Typed'
  <2>1. ReqTyped'
    <3>1. CASE Finish(r)
      BY <3>1, FinishTyped
    <3>2. CASE \E pc \in {"guardSession", "parent", "write", "maxRead"} : Goto(r, pc)
      BY <3>2 DEF Goto, ReqTyped, Local, Shape
    <3>3. CASE VersionNumber(r)
      <4>1. Len(versions) + 1 \in Nat
        BY DEF PageTyped
      <4>2. [req[r] EXCEPT !.pc = "insert", !.ver = Len(versions) + 1] \in Local
        BY <4>1 DEF ReqTyped, Local, Shape
      <4> QED
        BY <3>3, <4>2 DEF VersionNumber, ReqTyped
    <3> QED
      BY <1>4, <3>1, <3>2, <3>3 DEF GuardLock, GuardSession, ParentLookups, RebaseDepth
  <2>2. UNCHANGED <<gateVars, pageVars, historyVars, boundVars>> /\ Watch
    BY <1>4 DEF GuardLock, GuardSession, ParentLookups, RebaseDepth, VersionNumber
  <2> QED
    BY <2>1, <2>2, WatchTyped
    DEF gateVars, pageVars, historyVars, boundVars, GateTyped, PageTyped, HistoryTyped, BoundTyped
<1>5. ASSUME NEW r \in Request, WriteRow(r) PROVE Typed'
  <2>1. page' \in PageContent
    BY <1>5, PatchedTyped DEF WriteRow, ReqTyped, Local, Shape
  <2>2. [Idle EXCEPT !.pc = IF req[r].moves THEN "rebase" ELSE "maxRead",
                     !.attempt = 1, !.out = page'] \in Local
    <3>1. 1 \in 0..MaxVersionAttempts
      BY PageSaveAssumption
    <3> QED
      BY <2>1, <3>1, IdleLocal DEF Idle, Local, Shape
  <2>3. ReqTyped'
    BY <1>5, <2>2 DEF WriteRow, Snapshot, ReqTyped
  <2> QED
    BY <1>5, <2>1, <2>3, WatchTyped
    DEF WriteRow, gateVars, boundVars, GateTyped, PageTyped, HistoryTyped, BoundTyped
<1>6. ASSUME NEW r \in Request, VersionInsert(r) PROVE Typed'
  <2>1. versions' \in Seq(PageContent)
    BY <1>6 DEF VersionInsert, PageTyped, ReqTyped, Local, Shape
  <2> QED
    BY <1>6, <2>1, WatchTyped, FinishTyped
    DEF VersionInsert, gateVars, historyVars, boundVars, GateTyped, PageTyped, HistoryTyped, BoundTyped
<1>7. ASSUME NEW r \in Request, VersionTaken(r) PROVE Typed'
  <2>1. ReqTyped' /\ lost' \in [Reason -> SUBSET PageContent]
    <3>1. CASE /\ req[r].attempt < MaxVersionAttempts /\ UNCHANGED lost
               /\ req' = [req EXCEPT ![r].pc = "maxRead", ![r].attempt = @ + 1]
      BY <3>1, PageSaveAssumption DEF ReqTyped, Local, Shape, HistoryTyped
    <3>2. CASE Lose("logged", {req[r].out}) /\ Finish(r)
      BY <3>2, FinishTyped, LoseAdds DEF Reason, ReqTyped, Local, Shape, HistoryTyped
    <3> QED
      BY <1>7, <3>1, <3>2 DEF VersionTaken, Retry
  <2> QED
    BY <1>7, <2>1, WatchTyped
    DEF VersionTaken, gateVars, pageVars, boundVars, GateTyped, PageTyped, HistoryTyped, BoundTyped
<1>8. ASSUME NEW r \in Request, NEW m \in Member, Lock(r, m) \/ Unlock(r, m) PROVE Typed'
  <2>1. \A pc \in {"lockWrite", "unlockWrite"} : [Idle EXCEPT !.pc = pc, !.who = m] \in Local
    BY IdleLocal DEF Local, Shape, Actor
  <2>2. ReqTyped'
    BY <1>8, <2>1 DEF Lock, Unlock, ReqTyped
  <2>3. gateOps' \in 0..MaxGateOps
    BY <1>8, PageSaveAssumption DEF Lock, Unlock, GateOp, boundVars, BoundTyped
  <2> QED
    BY <1>8, <2>2, <2>3, WatchTyped
    DEF Lock, Unlock, gateVars, pageVars, historyVars, boundVars, GateTyped, PageTyped, HistoryTyped, BoundTyped
<1>9. ASSUME NEW r \in Request, LockWrite(r) \/ UnlockWrite(r) PROVE Typed'
  <2>1. row' \in LockRow
    <3>1. row.docStatus \in DocStatus
      BY DEF GateTyped, LockRow
    <3>2. req[r].pc = "lockWrite" => req[r].who \in Member
      BY DEF ReqTyped, Local
    <3>3. \A m \in Member : LockedBy(m, row.docStatus) \in LockRow
      BY <3>1 DEF LockRow, LockedBy
    <3>4. Unlocked(row.docStatus) \in LockRow
      BY <3>1 DEF LockRow, Unlocked
    <3> QED
      BY <1>9, <3>2, <3>3, <3>4 DEF LockWrite, UnlockWrite
  <2> QED
    BY <1>9, <2>1, WatchTyped, FinishTyped
    DEF LockWrite, UnlockWrite, pageVars, historyVars, boundVars, GateTyped, PageTyped, HistoryTyped, BoundTyped
<1>10. CASE SessionOp
  <2>1. sess' \in Session
    <3>1. NoSession \in Session /\ \A m \in Member : [holder |-> m, live |-> TRUE] \in Session
      BY DEF NoSession, Session
    <3>2. \A b \in BOOLEAN : [sess EXCEPT !.live = b] \in Session
      BY DEF GateTyped, Session
    <3> QED
      BY <1>10, <3>1, <3>2 DEF SessionOp, Claim, Heartbeat, Release, Expire
  <2>2. gateOps' \in 0..MaxGateOps
    BY <1>10, PageSaveAssumption DEF SessionOp, GateOp, BoundTyped
  <2> QED
    BY <1>10, <2>1, <2>2, WatchTyped
    DEF SessionOp, pageVars, historyVars, GateTyped, PageTyped, ReqTyped, HistoryTyped, BoundTyped
<1>11. CASE StatusChanges
  <2>1. row' \in LockRow
    BY <1>11 DEF StatusChanges, GateTyped, LockRow, DocStatus
  <2>2. gateOps' \in 0..MaxGateOps
    BY <1>11, PageSaveAssumption DEF StatusChanges, GateOp, BoundTyped
  <2> QED
    BY <1>11, <2>1, <2>2, WatchTyped
    DEF StatusChanges, pageVars, historyVars, GateTyped, PageTyped, ReqTyped, HistoryTyped, BoundTyped
<1>12. Fails => failures' \in 0..MaxFailures
  BY PageSaveAssumption DEF Fails, BoundTyped
<1>13. ASSUME NEW r \in Request, RequestErrs(r) PROVE Typed'
  BY <1>12, <1>13, WatchTyped, FinishTyped
  DEF RequestErrs, gateVars, pageVars, historyVars, GateTyped, PageTyped, HistoryTyped, BoundTyped
<1>14. ASSUME NEW r \in Request, WriteErrs(r) PROVE Typed'
  <2>1. page' \in PageContent /\ states' \subseteq PageContent
    BY <1>14, PatchedTyped DEF WriteErrs, ReqTyped, Local, Shape, PageTyped, HistoryTyped
  <2>2. lost' \in [Reason -> SUBSET PageContent]
    <3>1. CASE UNCHANGED lost
      BY <3>1 DEF HistoryTyped
    <3>2. CASE Lose("unheard", {page'})
      BY <2>1, <3>2, LoseAdds DEF Reason, HistoryTyped
    <3> QED
      BY <1>14, <3>1, <3>2 DEF WriteErrs
  <2> QED
    BY <1>12, <1>14, <2>1, <2>2, WatchTyped, FinishTyped
    DEF WriteErrs, gateVars, GateTyped, PageTyped, HistoryTyped, BoundTyped
<1>15. ASSUME NEW r \in Request, VersionErrs(r) \/ RebaseErrs(r) PROVE Typed'
  <2>1. lost' \in [Reason -> SUBSET PageContent]
    <3>1. req[r].out \in PageContent
      BY DEF ReqTyped, Local, Shape
    <3> QED
      BY <1>15, <3>1, LoseAdds DEF VersionErrs, RebaseErrs, Reason, HistoryTyped
  <2>2. versions' \in Seq(PageContent) /\ UNCHANGED <<gateVars, page, states, saves, gateOps>>
    <3>1. versions \in Seq(PageContent) /\ req[r].out \in PageContent
      BY DEF PageTyped, ReqTyped, Local, Shape
    <3>2. Append(versions, req[r].out) \in Seq(PageContent)
      BY <3>1
    <3>3. versions' = versions \/ versions' = Append(versions, req[r].out)
      BY <1>15 DEF VersionErrs, RebaseErrs, pageVars
    <3>4. UNCHANGED <<gateVars, page, states, saves, gateOps>>
      BY <1>15 DEF VersionErrs, RebaseErrs, pageVars
    <3> QED
      BY <3>1, <3>2, <3>3, <3>4
  <2>3. Fails /\ Finish(r) /\ Watch
    BY <1>15 DEF VersionErrs, RebaseErrs
  <2> QED
    BY <1>12, <2>1, <2>2, <2>3, WatchTyped, FinishTyped
    DEF gateVars, GateTyped, PageTyped, HistoryTyped, BoundTyped
<1>16. CASE ProcessDies
  <2>1. lost' \in [Reason -> SUBSET PageContent]
    <3>1. {req[r].out : r \in {r \in Request : req[r].pc \in {"rebase", "maxRead", "insert"}}}
              \in SUBSET PageContent
      BY DEF ReqTyped, Local, Shape
    <3> QED
      BY <1>16, <3>1, LoseAdds DEF ProcessDies, Reason, HistoryTyped
  <2>2. ReqTyped'
    BY <1>16, IdleLocal DEF ProcessDies, ReqTyped
  <2> QED
    BY <1>12, <1>16, <2>1, <2>2, WatchTyped
    DEF ProcessDies, gateVars, pageVars, GateTyped, PageTyped, HistoryTyped, BoundTyped
<1>17. CASE UNCHANGED vars
  BY <1>17 DEF vars, gateVars, pageVars, historyVars, boundVars,
               GateTyped, PageTyped, ReqTyped, HistoryTyped, BoundTyped
<1> QED
  BY <1>2, <1>3, <1>4, <1>5, <1>6, <1>7, <1>8, <1>9, <1>10, <1>11, <1>13, <1>14, <1>15, <1>16, <1>17
  DEF Next, Update

(* Every variable of PageSave keeps its type (page.Store, pagelock, editsession). *)
THEOREM TypeCorrect == Spec => []TypeOK
<1>1. Spec => []Typed
  BY InitTyped, TypedStep, PTL DEF Spec
<1> QED
  BY <1>1, TypedIsTypeOK, PTL

-----------------------------------------------------------------------------
(* The history of the page.                                                 *)

Pending == {"rebase", "maxRead", "insert"}

(* What a request is about to append is a state its own save committed. *)
PendingAreStates == \A r \in Request : req[r].pc \in Pending => req[r].out \in states

HistoryInv == PendingAreStates /\ VersionsAreStates /\ RestorePointForEverySave

(* A step that adds no version, no state and no loss, and in which no request *)
(* gets to the append or leaves it, changes nothing of this.                  *)
LEMMA PendingKept ==
    ASSUME HistoryInv, UNCHANGED <<versions, states, lost>>,
           \A r \in Request : /\ req'[r].pc \in Pending => req[r].pc \in Pending
                              /\ req[r].pc \in Pending =>
                                    req'[r].pc \in Pending /\ req'[r].out = req[r].out
    PROVE  HistoryInv'
<1>1. PendingAreStates'
  BY DEF HistoryInv, PendingAreStates
<1>2. VersionsAreStates'
  BY DEF HistoryInv, VersionsAreStates, ToSet
<1>3. RestorePointForEverySave'
  BY DEF HistoryInv, RestorePointForEverySave, AboutToAppend, Lost, ToSet, Pending
<1> QED
  BY <1>1, <1>2, <1>3 DEF HistoryInv

(* What stays after its request ends: its state is in the table or is known lost. *)
LEMMA Settled ==
    ASSUME HistoryInv, NEW A \in SUBSET Request, UNCHANGED states,
           ToSet(versions) \cup Lost \subseteq ToSet(versions') \cup Lost',
           ToSet(versions') \subseteq states,
           \A r \in Request \ A : req'[r] = req[r],
           \A r \in A : /\ req'[r].pc \notin Pending
                        /\ req[r].pc \in Pending => req[r].out \in ToSet(versions') \cup Lost'
    PROVE  HistoryInv'
<1>1. PendingAreStates' /\ VersionsAreStates'
  BY DEF HistoryInv, PendingAreStates, VersionsAreStates, ToSet
<1>2. ASSUME NEW s \in states'
      PROVE  \/ s \in ToSet(versions') \cup Lost'
             \/ \E r \in Request : req'[r].pc \in Pending /\ req'[r].out = s
  <2>1. CASE s \in ToSet(versions) \cup Lost
    BY <2>1
  <2>2. CASE \E r \in Request : req[r].pc \in Pending /\ req[r].out = s
    BY <2>2
  <2> QED
    BY <2>1, <2>2 DEF HistoryInv, RestorePointForEverySave, AboutToAppend, Pending
<1> QED
  BY <1>1, <1>2 DEF HistoryInv, RestorePointForEverySave, AboutToAppend, Pending, ToSet

LEMMA SettledOne ==
    ASSUME HistoryInv, NEW r \in Request, UNCHANGED states,
           ToSet(versions') \cup Lost' = ToSet(versions) \cup Lost \cup {req[r].out},
           ToSet(versions') \subseteq states,
           req'[r].pc \notin Pending,
           \A q \in Request \ {r} : req'[q] = req[q]
    PROVE  HistoryInv'
<1>1. {r} \in SUBSET Request /\ \A q \in {r} : q = r
  OBVIOUS
<1> QED
  BY <1>1, Settled

(* A save commits: its state is the one its request is to append, or is known lost. *)
LEMMA Committed ==
    ASSUME HistoryInv, NEW r \in Request, NEW s, states' = states \cup {s},
           UNCHANGED versions, Lost \subseteq Lost',
           \A q \in Request \ {r} : req'[q] = req[q],
           req[r].pc \notin Pending,
           req'[r].pc \in Pending => req'[r].out = s,
           req'[r].pc \notin Pending => s \in Lost'
    PROVE  HistoryInv'
<1>1. PendingAreStates'
  BY DEF HistoryInv, PendingAreStates
<1>2. VersionsAreStates'
  BY DEF HistoryInv, VersionsAreStates, ToSet
<1>3. RestorePointForEverySave'
  BY DEF HistoryInv, RestorePointForEverySave, AboutToAppend, ToSet, Pending
<1> QED
  BY <1>1, <1>2, <1>3 DEF HistoryInv

(* What a request does to its own locals it does to no other's. *)
LEMMA OnlyOwn ==
    ASSUME Typed, NEW r \in Request
    PROVE  /\ Finish(r) => /\ req'[r] = Idle
                           /\ \A q \in Request \ {r} : req'[q] = req[q]
           /\ \A pc : Goto(r, pc) => /\ req'[r] = [req[r] EXCEPT !.pc = pc]
                                     /\ \A q \in Request \ {r} : req'[q] = req[q]
BY DEF Typed, ReqTyped, Finish, Goto

LEMMA OutOfALocal ==
    ASSUME Typed, NEW r \in Request, NEW pc
    PROVE  /\ [req[r] EXCEPT !.pc = pc].pc = pc
           /\ [req[r] EXCEPT !.pc = pc].out = req[r].out
BY DEF Typed, ReqTyped, Local, Shape

LEMMA AppendedSet ==
    ASSUME NEW S, NEW s \in Seq(S), NEW x \in S
    PROVE  {Append(s, x)[i] : i \in DOMAIN Append(s, x)} = {s[i] : i \in DOMAIN s} \cup {x}
<1> DEFINE t == Append(s, x)
<1>1. /\ Len(s) \in Nat /\ DOMAIN s = 1..Len(s) /\ DOMAIN t = 1..(Len(s) + 1)
      /\ t[Len(s) + 1] = x /\ \A i \in 1..Len(s) : t[i] = s[i]
  OBVIOUS
<1> HIDE DEF t
<1>2. 1..(Len(s) + 1) = 1..Len(s) \cup {Len(s) + 1}
  BY <1>1
<1>3. \A y : y \in {t[i] : i \in DOMAIN t} <=> y \in {s[i] : i \in DOMAIN s} \cup {x}
  BY <1>1, <1>2
<1> QED
  BY <1>3 DEF t

(* Every step keeps the history what it has been: a retry takes another       *)
(* number, and only an append, a logged failure or a death ends the wait.      *)
LEMMA HistoryStep == Typed /\ HistoryInv /\ [Next]_vars => HistoryInv'
<1> SUFFICES ASSUME Typed, HistoryInv, [Next]_vars PROVE HistoryInv'
  OBVIOUS
<1>1. ASSUME NEW r \in Request, NEW m, NEW patch, NEW moves, Begin(r, m, patch, moves)
      PROVE  HistoryInv'
  <2>1. /\ UNCHANGED <<versions, states, lost>> /\ req[r].pc = "idle"
        /\ req'[r].pc = "guardLock" /\ \A q \in Request \ {r} : req'[q] = req[q]
    BY <1>1 DEF Begin, pageVars, historyVars, Typed, ReqTyped, Idle
  <2> QED
    BY <2>1, PendingKept DEF Pending
<1>2. ASSUME NEW r \in Request,
             \/ GuardLock(r) \/ GuardSession(r) \/ ParentLookups(r)
             \/ LockWrite(r) \/ UnlockWrite(r) \/ RequestErrs(r)
      PROVE  HistoryInv'
  <2>1. /\ UNCHANGED <<versions, states, lost>> /\ req[r].pc \notin Pending
        /\ Finish(r) \/ \E pc \in {"guardSession", "parent", "write"} : Goto(r, pc)
    BY <1>2 DEF GuardLock, GuardSession, ParentLookups, LockWrite, UnlockWrite, RequestErrs,
                pageVars, historyVars, Pending
  <2>2. req'[r].pc \notin Pending /\ \A q \in Request \ {r} : req'[q] = req[q]
    <3>1. CASE Finish(r)
      BY <3>1, OnlyOwn DEF Pending, Idle
    <3>2. ASSUME NEW pc \in {"guardSession", "parent", "write"}, Goto(r, pc)
          PROVE  req'[r].pc \notin Pending /\ \A q \in Request \ {r} : req'[q] = req[q]
      <4>1. /\ req'[r] = [req[r] EXCEPT !.pc = pc]
            /\ \A q \in Request \ {r} : req'[q] = req[q]
        BY <3>2, OnlyOwn
      <4>2. req'[r].pc = pc
        BY <4>1, OutOfALocal
      <4> QED
        BY <4>1, <4>2 DEF Pending
    <3> QED
      BY <2>1, <3>1, <3>2
  <2> QED
    BY <2>1, <2>2, PendingKept
<1>3. ASSUME NEW r \in Request, WriteRow(r) PROVE HistoryInv'
  <2>1. /\ states' = states \cup {page'} /\ UNCHANGED <<versions, lost>>
        /\ req[r].pc = "write" /\ req'[r].pc \in {"rebase", "maxRead"} /\ req'[r].out = page'
        /\ \A q \in Request \ {r} : req'[q] = req[q]
    BY <1>3 DEF WriteRow, Snapshot, Typed, ReqTyped, Idle
  <2> QED
    BY <2>1, Committed DEF Pending, Lost
<1>4. ASSUME NEW r \in Request, RebaseDepth(r) \/ VersionNumber(r) PROVE HistoryInv'
  <2>1. /\ UNCHANGED <<versions, states, lost>> /\ req[r].pc \in {"rebase", "maxRead"}
        /\ req'[r].pc \in {"maxRead", "insert"} /\ req'[r].out = req[r].out
        /\ \A q \in Request \ {r} : req'[q] = req[q]
    BY <1>4 DEF RebaseDepth, Goto, VersionNumber, pageVars, historyVars, Typed, ReqTyped, Local, Shape
  <2> QED
    BY <2>1, PendingKept DEF Pending
<1>5. ASSUME NEW r \in Request, VersionInsert(r) PROVE HistoryInv'
  <2>1. /\ UNCHANGED <<states, lost>> /\ req[r].pc \in Pending
        /\ req'[r] = Idle /\ \A q \in Request \ {r} : req'[q] = req[q]
    BY <1>5, OnlyOwn DEF VersionInsert, historyVars, Pending
  <2>2. versions' = Append(versions, req[r].out) /\ versions \in Seq(PageContent)
        /\ req[r].out \in PageContent
    BY <1>5 DEF VersionInsert, Typed, PageTyped, ReqTyped, Local, Shape
  <2>3. ToSet(versions') = ToSet(versions) \cup {req[r].out}
    BY <2>2, AppendedSet DEF ToSet
  <2>4. ToSet(versions') \subseteq states
    BY <2>1, <2>3 DEF HistoryInv, PendingAreStates, VersionsAreStates
  <2> QED
    BY <2>1, <2>3, <2>4, SettledOne DEF Idle, Pending, Lost
<1>6. ASSUME NEW r \in Request, VersionTaken(r) PROVE HistoryInv'
  <2>1. UNCHANGED <<versions, states>> /\ req[r].pc = "insert"
    BY <1>6 DEF VersionTaken, pageVars
  <2>2. CASE /\ req' = [req EXCEPT ![r].pc = "maxRead", ![r].attempt = @ + 1]
             /\ UNCHANGED lost
    <3>1. /\ req'[r].pc = "maxRead" /\ req'[r].out = req[r].out
          /\ \A q \in Request \ {r} : req'[q] = req[q]
      BY <2>2 DEF Typed, ReqTyped, Local, Shape
    <3> QED
      BY <2>1, <2>2, <3>1, PendingKept DEF Pending
  <2>3. CASE Lose("logged", {req[r].out}) /\ Finish(r)
    <3>1. req'[r] = Idle /\ \A q \in Request \ {r} : req'[q] = req[q]
      BY <2>3, OnlyOwn
    <3>2. ToSet(versions') = ToSet(versions) /\ ToSet(versions') \subseteq states
      BY <2>1 DEF HistoryInv, VersionsAreStates
    <3>3. Lost' = Lost \cup {req[r].out}
      BY <2>3, LoseAdds DEF Reason, Typed, HistoryTyped, ReqTyped, Local, Shape
    <3> QED
      BY <2>1, <3>1, <3>2, <3>3, SettledOne DEF Idle, Pending
  <2> QED
    BY <1>6, <2>2, <2>3 DEF VersionTaken, Retry
<1>7. ASSUME NEW r \in Request, NEW m, Lock(r, m) \/ Unlock(r, m) PROVE HistoryInv'
  <2>1. /\ UNCHANGED <<versions, states, lost>> /\ req[r].pc = "idle"
        /\ req'[r].pc \in {"lockWrite", "unlockWrite"}
        /\ \A q \in Request \ {r} : req'[q] = req[q]
    <3>1. CASE Lock(r, m)
      BY <3>1 DEF Lock, pageVars, historyVars, Typed, ReqTyped, Idle
    <3>2. CASE Unlock(r, m)
      BY <3>2 DEF Unlock, pageVars, historyVars, Typed, ReqTyped, Idle
    <3> QED
      BY <1>7, <3>1, <3>2
  <2> QED
    BY <2>1, PendingKept DEF Pending
<1>8. CASE SessionOp \/ StatusChanges \/ UNCHANGED vars
  <2>1. UNCHANGED <<versions, states, lost, req>>
    BY <1>8 DEF SessionOp, StatusChanges, pageVars, historyVars, vars
  <2> QED
    BY <2>1, PendingKept
<1>9. ASSUME NEW r \in Request, WriteErrs(r) PROVE HistoryInv'
  <2>1. /\ UNCHANGED versions /\ req[r].pc = "write" /\ req'[r] = Idle
        /\ \A q \in Request \ {r} : req'[q] = req[q]
    BY <1>9, OnlyOwn DEF WriteErrs
  <2>2. CASE UNCHANGED <<states, lost>>
    BY <2>1, <2>2, PendingKept DEF Pending, Idle
  <2>3. CASE states' = states \cup {page'} /\ page' \in PageContent /\ Lose("unheard", {page'})
    <3>1. Lost' = Lost \cup {page'}
      BY <2>3, LoseAdds DEF Reason, Typed, HistoryTyped
    <3> QED
      BY <2>1, <2>3, <3>1, Committed DEF Pending, Idle
  <2>4. page' = Patched(req[r].patch) => page' \in PageContent
    BY PatchedTyped DEF Typed, ReqTyped, Local, Shape
  <2> QED
    BY <1>9, <2>2, <2>3, <2>4 DEF WriteErrs
<1>10. ASSUME NEW r \in Request, VersionErrs(r) \/ RebaseErrs(r) PROVE HistoryInv'
  <2>1. /\ UNCHANGED states /\ req[r].pc \in Pending
        /\ req'[r] = Idle /\ \A q \in Request \ {r} : req'[q] = req[q]
        /\ versions' = versions \/ versions' = Append(versions, req[r].out)
    BY <1>10, OnlyOwn DEF VersionErrs, RebaseErrs, pageVars, Pending
  <2>2. Lost' = Lost \cup {req[r].out}
    BY <1>10, LoseAdds
    DEF VersionErrs, RebaseErrs, Reason, Typed, HistoryTyped, ReqTyped, Local, Shape
  <2>3. /\ ToSet(versions) \subseteq ToSet(versions')
        /\ ToSet(versions') \subseteq ToSet(versions) \cup {req[r].out}
    <3>1. versions \in Seq(PageContent) /\ req[r].out \in PageContent
      BY DEF Typed, PageTyped, ReqTyped, Local, Shape
    <3>2. versions' = versions => ToSet(versions') = ToSet(versions)
      BY DEF ToSet
    <3>3. versions' = Append(versions, req[r].out) =>
              ToSet(versions') = ToSet(versions) \cup {req[r].out}
      BY <3>1, AppendedSet DEF ToSet
    <3> QED
      BY <2>1, <3>2, <3>3
  <2>4. ToSet(versions') \subseteq states
    BY <2>1, <2>3 DEF HistoryInv, PendingAreStates, VersionsAreStates
  <2> HIDE DEF HistoryInv
  <2>5. ToSet(versions') \cup Lost' = ToSet(versions) \cup Lost \cup {req[r].out}
    BY <2>2, <2>3
  <2> QED
    BY <2>1, <2>4, <2>5, SettledOne DEF Idle, Pending
<1>11. CASE ProcessDies
  <2> DEFINE gone == {req[r].out : r \in {r \in Request : req[r].pc \in Pending}}
  <2>1. /\ UNCHANGED <<versions, states>> /\ \A r \in Request : req'[r] = Idle
        /\ Lose("died", gone)
    BY <1>11 DEF ProcessDies, pageVars, Pending
  <2>2. Lost' = Lost \cup gone
    <3>1. gone \in SUBSET PageContent
      BY DEF Typed, ReqTyped, Local, Shape
    <3> HIDE DEF gone
    <3> QED
      BY <2>1, <3>1, LoseAdds DEF Reason, Typed, HistoryTyped
  <2>3. ToSet(versions') = ToSet(versions) /\ ToSet(versions') \subseteq states
    BY <2>1 DEF HistoryInv, VersionsAreStates
  <2> QED
    BY <2>1, <2>2, <2>3, Settled, Request \in SUBSET Request DEF Idle, Pending
<1> QED
  BY <1>1, <1>2, <1>3, <1>4, <1>5, <1>6, <1>7, <1>8, <1>9, <1>10, <1>11
  DEF Next, Update, BeginSave, BeginRestore

(* However saves overlap, retry, fail or die with the process, every state the *)
(* page was committed in is a version, about to be one, or known lost, and no   *)
(* version is a state the page was never in (store.go Update, appendVersion).   *)
THEOREM HistoryKept == Spec => []HistoryIsKept
<1>1. Init => HistoryInv
  <2> SUFFICES ASSUME Init PROVE HistoryInv
    OBVIOUS
  <2>1. ToSet(versions) = {page}
    BY DEF Init, ToSet
  <2> QED
    BY <2>1 DEF Init, HistoryInv, PendingAreStates, VersionsAreStates,
                RestorePointForEverySave, AboutToAppend, Idle, Pending
<1>2. Spec => [](Typed /\ HistoryInv)
  BY <1>1, InitTyped, TypedStep, HistoryStep, PTL DEF Spec
<1>3. HistoryInv => HistoryIsKept
  BY DEF HistoryInv, HistoryIsKept
<1> QED
  BY <1>2, <1>3, PTL

-----------------------------------------------------------------------------
(* The guards.                                                              *)

Written == {"parent", "write", "rebase", "maxRead", "insert"}

(* A guard a request has passed no longer bars it. *)
Passed(r) == /\ req[r].pc = "guardSession" => "lock" \notin barred[r]
             /\ req[r].pc \in Written => barred[r] = {}

PassedInv == \A r \in Request : Passed(r)

(* A request that stays past the guards it was past stays unbarred. *)
LEMMA StaysPassed ==
    ASSUME Typed, NEW r \in Request, Passed(r), Watch,
           req'[r].pc = "guardSession" => req[r].pc = "guardSession",
           req'[r].pc \in Written => req[r].pc \in Written
    PROVE  Passed(r)'
BY DEF Passed, Watch, Typed, HistoryTyped, Written

(* Each guard is read in the step that passes it. *)
LEMMA PassedStep == Typed /\ PassedInv /\ [Next]_vars => PassedInv'
<1> SUFFICES ASSUME Typed, PassedInv, [Next]_vars, NEW q \in Request PROVE Passed(q)'
  BY DEF PassedInv
<1>0. Passed(q)
  BY DEF PassedInv
<1>1. ASSUME NEW r \in Request, NEW m, NEW patch, NEW moves, Begin(r, m, patch, moves) PROVE Passed(q)'
  <2>1. CASE q = r
    BY <1>1, <2>1 DEF Begin, Typed, ReqTyped, Passed, Written, Idle
  <2>2. CASE q # r
    <3>1. req'[q] = req[q] /\ barred'[q] = barred[q]
      BY <1>1, <2>2 DEF Begin, Typed, ReqTyped, HistoryTyped
    <3> QED
      BY <1>0, <3>1 DEF Passed
  <2> QED
    BY <2>1, <2>2
<1>2. ASSUME NEW r \in Request, GuardLock(r) PROVE Passed(q)'
  <2>1. req[r].pc = "guardLock" /\ Watch /\ UNCHANGED <<row, sess>>
    BY <1>2 DEF GuardLock, gateVars
  <2>2. CASE Finish(r) \/ q # r
    <3>1. req'[q] = IF q = r THEN Idle ELSE req[q]
      BY <1>2, <2>2, OnlyOwn DEF GuardLock
    <3> QED
      BY <1>0, <2>1, <3>1, StaysPassed DEF Idle, Written
  <2>3. CASE /\ LockCanEdit(row, req[r].who, IsAdmin(req[r].who))
             /\ Goto(r, "guardSession") /\ q = r
    <3>1. req'[q].pc = "guardSession" /\ req'[q].who = req[r].who
      BY <2>3 DEF Goto, Typed, ReqTyped, Local, Shape
    <3>2. "lock" \notin Refusing(row', sess', req'[q].who)
      BY <2>1, <2>3, <3>1 DEF Refusing, Allows
    <3> QED
      BY <2>1, <3>1, <3>2 DEF Watch, Passed, Written
  <2> QED
    BY <1>2, <2>2, <2>3 DEF GuardLock
<1>3. ASSUME NEW r \in Request, GuardSession(r) PROVE Passed(q)'
  <2>1. req[r].pc = "guardSession" /\ Watch /\ UNCHANGED <<row, sess>>
    BY <1>3 DEF GuardSession, gateVars
  <2>2. CASE Finish(r) \/ q # r
    <3>1. req'[q] = IF q = r THEN Idle ELSE req[q]
      BY <1>3, <2>2, OnlyOwn DEF GuardSession
    <3> QED
      BY <1>0, <2>1, <3>1, StaysPassed DEF Idle, Written
  <2>3. CASE /\ SessionCanEdit(sess, req[r].who, IsAdmin(req[r].who))
             /\ Goto(r, IF req[r].moves THEN "parent" ELSE "write") /\ q = r
    <3>1. req'[q].pc \in {"parent", "write"} /\ req'[q].who = req[r].who
      BY <2>3 DEF Goto, Typed, ReqTyped, Local, Shape
    <3>2. "session" \notin Refusing(row', sess', req'[q].who)
      BY <2>1, <2>3, <3>1 DEF Refusing, Allows
    <3>3. barred'[q] \subseteq barred[q] \ {"session"} /\ barred[q] \subseteq {"session"}
      BY <1>0, <2>1, <2>3, <3>1, <3>2 DEF Watch, Passed, Typed, HistoryTyped
    <3> QED
      BY <3>1, <3>3 DEF Passed, Written
  <2> QED
    BY <1>3, <2>2, <2>3 DEF GuardSession
<1>4. ASSUME NEW r \in Request,
             \/ LockWrite(r) \/ UnlockWrite(r) \/ RequestErrs(r) \/ WriteErrs(r)
             \/ RebaseErrs(r) \/ VersionErrs(r) \/ VersionInsert(r)
      PROVE  Passed(q)'
  <2>1. Finish(r) /\ Watch
    BY <1>4 DEF LockWrite, UnlockWrite, RequestErrs, WriteErrs, RebaseErrs, VersionErrs, VersionInsert
  <2>2. req'[q] = IF q = r THEN Idle ELSE req[q]
    BY <2>1, OnlyOwn
  <2> QED
    BY <1>0, <2>1, <2>2, StaysPassed DEF Idle, Written
<1>5. ASSUME NEW r \in Request,
             \/ ParentLookups(r) \/ WriteRow(r) \/ RebaseDepth(r)
             \/ VersionNumber(r) \/ VersionTaken(r)
      PROVE  Passed(q)'
  <2>1. Watch /\ req[r].pc \in Written
    BY <1>5 DEF ParentLookups, WriteRow, RebaseDepth, VersionNumber, VersionTaken, Written
  <2>2. q # r => req'[q] = req[q]
    BY <1>5, OnlyOwn DEF ParentLookups, WriteRow, RebaseDepth, VersionNumber, VersionTaken, Retry,
                         Typed, ReqTyped
  <2>3. req'[r].pc # "guardSession"
    <3>0. ParentLookups(r) \/ RebaseDepth(r) => req'[r].pc \in {"write", "maxRead", "idle"}
      <4>1. ASSUME NEW pc \in {"write", "maxRead"}, Goto(r, pc) PROVE req'[r].pc = pc
        <5>1. req'[r] = [req[r] EXCEPT !.pc = pc]
          BY <4>1, OnlyOwn
        <5> QED
          BY <5>1, OutOfALocal
      <4>2. Finish(r) => req'[r].pc = "idle"
        BY OnlyOwn DEF Idle
      <4> QED
        BY <4>1, <4>2 DEF ParentLookups, RebaseDepth
    <3>1. WriteRow(r) => req'[r].pc \in {"rebase", "maxRead"}
      BY DEF WriteRow, Typed, ReqTyped, Idle
    <3>2. VersionNumber(r) => req'[r].pc = "insert"
      BY DEF VersionNumber, Typed, ReqTyped, Local, Shape
    <3>3. VersionTaken(r) => req'[r].pc \in {"maxRead", "idle"}
      BY OnlyOwn DEF VersionTaken, Retry, Typed, ReqTyped, Local, Shape, Idle
    <3> QED
      BY <1>5, <3>0, <3>1, <3>2, <3>3
  <2> QED
    BY <1>0, <2>1, <2>2, <2>3, StaysPassed
<1>6. ASSUME NEW r \in Request, NEW m, Lock(r, m) \/ Unlock(r, m) PROVE Passed(q)'
  <2>1. /\ Watch /\ req'[r].pc \in {"lockWrite", "unlockWrite"}
        /\ q # r => req'[q] = req[q]
    <3>1. CASE Lock(r, m)
      BY <3>1 DEF Lock, Typed, ReqTyped, Idle
    <3>2. CASE Unlock(r, m)
      BY <3>2 DEF Unlock, Typed, ReqTyped, Idle
    <3> QED
      BY <1>6, <3>1, <3>2
  <2> QED
    BY <1>0, <2>1, StaysPassed DEF Written
<1>7. CASE SessionOp \/ StatusChanges
  <2>1. Watch /\ UNCHANGED req
    BY <1>7 DEF SessionOp, StatusChanges
  <2> QED
    BY <1>0, <2>1, StaysPassed
<1>8. CASE ProcessDies
  <2>1. Watch /\ req'[q] = Idle
    BY <1>8 DEF ProcessDies
  <2> QED
    BY <1>0, <2>1, StaysPassed DEF Idle, Written
<1>9. CASE UNCHANGED vars
  BY <1>0, <1>9 DEF vars, Passed
<1> QED
  BY <1>1, <1>2, <1>3, <1>4, <1>5, <1>6, <1>7, <1>8, <1>9
  DEF Next, Update, BeginSave, BeginRestore

(* No save, however long it waits between its guards and its UPDATE, commits    *)
(* for a member whom one of the guards refused all along (composite.go CanEdit).*)
THEOREM RefusedNeverWrites == Spec => []RefusedThroughoutNeverWrites
<1>1. Init => PassedInv
  BY DEF Init, PassedInv, Passed, Idle, Written
<1>2. Spec => [](Typed /\ PassedInv)
  BY <1>1, InitTyped, TypedStep, PassedStep, PTL DEF Spec
<1>3. PassedInv => RefusedThroughoutNeverWrites
  BY DEF PassedInv, Passed, RefusedThroughoutNeverWrites, Written
<1> QED
  BY <1>2, <1>3, PTL
=============================================================================
