------------------------------ MODULE PageSave ------------------------------
(***************************************************************************)
(* One page and the requests that save, restore, lock and unlock it at the *)
(* same time: page.Store.Update and appendVersion (internal/page/store.go), *)
(* RestoreVersion, the manual lock (internal/pagelock/store.go) and the     *)
(* edit session (internal/editsession/store.go).  Nothing here runs in a    *)
(* transaction: each database statement is a step of its own.               *)
(*                                                                         *)
(* A title or a content is the number of the save that wrote it.  A save may *)
(* move the page under another parent as well; of the move only the          *)
(* statements that may end the save are here (PageTree has the tree).        *)
(***************************************************************************)
EXTENDS EditGuard, Naturals, FiniteSets, SequencesExt

CONSTANTS Request,            \* goroutines serving a request on this page
          Admin,              \* workspace admins
          RestoreActor,       \* the updated_by of a restore
          MaxVersionAttempts, \* page.maxVersionAttempts (5)
          MaxSaves,           \* bound: saves begun
          MaxGateOps,         \* bound: locks taken, session and approval operations
          MaxFailures         \* bound: failing statements and process deaths

ASSUME PageSaveAssumption ==
    /\ Admin \subseteq Member
    /\ RestoreActor \notin Member \cup {NoMember}
    /\ MaxVersionAttempts \in Nat \ {0}
    /\ MaxSaves \in Nat /\ MaxGateOps \in Nat /\ MaxFailures \in Nat

VARIABLES
    row,      \* pages.locked, locked_by, doc_status
    sess,     \* page_edit_sessions
    page,     \* pages.title and content
    versions, \* page_versions, by version number
    req,      \* the locals of each request
    states,   \* history: every title and content the page has had
    lost,     \* history: those that have no version, by what went wrong
    barred,   \* history: the guards that refused a request's member at every
              \* moment since the request began
    saves, gateOps, failures

gateVars == <<row, sess>>
pageVars == <<page, versions>>
historyVars == <<states, lost>>
boundVars == <<saves, gateOps, failures>>
vars == <<gateVars, pageVars, req, historyVars, barred, boundVars>>

Field == {"title", "content"}

PageContent == [Field -> 0..MaxSaves]

Patch == UNION {[S -> 0..MaxSaves] : S \in SUBSET Field}

NoPatch == [f \in {} |-> 0]

Actor == Member \cup {NoMember, RestoreActor}

(* appendVersion logged it; the re-base of a move failed; the UPDATE took   *)
(* effect but its answer was lost; the process died before the insert.      *)
Reason == {"logged", "unbased", "unheard", "died"}

Lost == UNION {lost[why] : why \in Reason}

Idle == [pc |-> "idle", who |-> NoMember, patch |-> NoPatch, moves |-> FALSE,
         attempt |-> 0, ver |-> 0, out |-> [f \in Field |-> 0]]

TypeOK ==
    /\ row \in LockRow
    /\ sess \in Session
    /\ page \in PageContent
    /\ versions \in Seq(PageContent)
    /\ req \in [Request -> [pc: {"idle", "guardLock", "guardSession", "parent", "write",
                                 "rebase", "maxRead", "insert", "lockWrite", "unlockWrite"},
                            who: Actor, patch: Patch, moves: BOOLEAN, attempt: 0..MaxVersionAttempts,
                            ver: Nat, out: PageContent]]
    /\ states \subseteq PageContent /\ lost \in [Reason -> SUBSET PageContent]
    /\ barred \in [Request -> SUBSET {"lock", "session"}]
    /\ saves \in 0..MaxSaves /\ gateOps \in 0..MaxGateOps /\ failures \in 0..MaxFailures

(* Create has inserted the page and its version 1. *)
Init ==
    /\ row = Unlocked("draft")
    /\ sess = NoSession
    /\ page = [f \in Field |-> 0]
    /\ versions = <<page>>
    /\ req = [r \in Request |-> Idle]
    /\ states = {page}
    /\ lost = [why \in Reason |-> {}]
    /\ barred = [r \in Request |-> {}]
    /\ saves = 0 /\ gateOps = 0 /\ failures = 0

-----------------------------------------------------------------------------
IsAdmin(m) == m \in Admin

Allows(guard, lockRow, session, m) ==
    IF guard = "lock" THEN LockCanEdit(lockRow, m, IsAdmin(m))
                      ELSE SessionCanEdit(session, m, IsAdmin(m))

Refusing(lockRow, session, m) ==
    {g \in {"lock", "session"} : ~Allows(g, lockRow, session, m)}

(* A guard stops barring a request as soon as it would let it through.  The *)
(* primed variables are assigned by the action that says Watch.            *)
Watch == barred' = [r \in Request |->
                       IF req'[r].pc = "idle" THEN {}
                       ELSE barred[r] \cap Refusing(row', sess', req'[r].who)]

Goto(r, pc) == req' = [req EXCEPT ![r].pc = pc]

Finish(r) == req' = [req EXCEPT ![r] = Idle]

Lose(why, contents) == lost' = [lost EXCEPT ![why] = @ \cup contents]

-----------------------------------------------------------------------------
(* page.Store.Update *)

Begin(r, m, patch, moves) ==
    /\ req[r].pc = "idle"
    /\ req' = [req EXCEPT ![r] = [Idle EXCEPT !.pc = "guardLock", !.who = m,
                                              !.patch = patch, !.moves = moves]]
    /\ barred' = [barred EXCEPT ![r] = Refusing(row, sess, m)]
    /\ UNCHANGED <<gateVars, pageVars, historyVars, gateOps, failures>>

BeginSave(r, m) ==
    /\ saves < MaxSaves
    /\ saves' = saves + 1
    /\ \E S \in SUBSET Field \ {{}}, moves \in BOOLEAN :
           Begin(r, m, [f \in S |-> saves + 1], moves)

(* RestoreVersion reads a version and saves it back as "restore". *)
BeginRestore(r) ==
    /\ saves < MaxSaves
    /\ saves' = saves + 1
    /\ \E v \in DOMAIN versions : Begin(r, RestoreActor, versions[v], FALSE)

(* The composite guard asks pagelock, then editsession, each of which reads *)
(* its row when it is asked.                                                *)
GuardLock(r) ==
    LET allowed == LockCanEdit(row, req[r].who, IsAdmin(req[r].who))
    IN  /\ req[r].pc = "guardLock"
        /\ \/ allowed /\ Goto(r, "guardSession")
           \/ ~allowed /\ Finish(r)
        /\ UNCHANGED <<gateVars, pageVars, historyVars, boundVars>>
        /\ Watch

GuardSessionNothing(r) ==   \* mutant: Compose drops the second guard
    /\ req[r].pc = "guardSession"
    /\ Goto(r, "write")
    /\ UNCHANGED <<gateVars, pageVars, historyVars, boundVars>>
    /\ Watch

GuardSession(r) ==
    LET allowed == SessionCanEdit(sess, req[r].who, IsAdmin(req[r].who))
    IN  /\ req[r].pc = "guardSession"
        /\ \/ allowed /\ Goto(r, IF req[r].moves THEN "parent" ELSE "write")
           \/ ~allowed /\ Finish(r)
        /\ UNCHANGED <<gateVars, pageVars, historyVars, boundVars>>
        /\ Watch

(* The lookups of a new parent, which may refuse it. *)
ParentLookups(r) ==
    /\ req[r].pc = "parent"
    /\ Goto(r, "write") \/ Finish(r)
    /\ UNCHANGED <<gateVars, pageVars, historyVars, boundVars>>
    /\ Watch

Patched(patch) == [f \in Field |-> IF f \in DOMAIN patch THEN patch[f] ELSE page[f]]

SnapshotOldTitle(patch) ==   \* mutant: the title as it was before the save
    [Patched(patch) EXCEPT !["title"] = page["title"]]

Snapshot(patch) == Patched(patch)

(* UPDATE pages ... RETURNING: the snapshot is the row the statement left.   *)
(* The depths are re-based before the snapshot is appended.                  *)
WriteRow(r) ==
    /\ req[r].pc = "write"
    /\ page' = Patched(req[r].patch)
    /\ states' = states \cup {page'}
    /\ req' = [req EXCEPT ![r] = [Idle EXCEPT !.pc = IF req[r].moves THEN "rebase" ELSE "maxRead",
                                              !.attempt = 1, !.out = Snapshot(req[r].patch)]]
    /\ UNCHANGED <<gateVars, versions, lost, boundVars>>
    /\ Watch

RebaseDepth(r) ==
    /\ req[r].pc = "rebase"
    /\ Goto(r, "maxRead")
    /\ UNCHANGED <<gateVars, pageVars, historyVars, boundVars>>
    /\ Watch

(* appendVersion: INSERT ... SELECT MAX(version) + 1.  Under READ COMMITTED *)
(* another insert can take the number between the read and the insert.      *)
VersionNumber(r) ==
    /\ req[r].pc = "maxRead"
    /\ req' = [req EXCEPT ![r].pc = "insert", ![r].ver = Len(versions) + 1]
    /\ UNCHANGED <<gateVars, pageVars, historyVars, boundVars>>
    /\ Watch

VersionInsert(r) ==
    /\ req[r].pc = "insert"
    /\ req[r].ver \notin DOMAIN versions
    /\ versions' = Append(versions, req[r].out)
    /\ Finish(r)
    /\ UNCHANGED <<gateVars, page, historyVars, boundVars>>
    /\ Watch

(* UNIQUE (page_id, version): another number, or give up and log the loss. *)
RetryNever(r) ==   \* mutant: the error is discarded, as it once was
    Finish(r) /\ UNCHANGED lost

Retry(r) ==
    \/ /\ req[r].attempt < MaxVersionAttempts
       /\ req' = [req EXCEPT ![r].pc = "maxRead", ![r].attempt = @ + 1]
       /\ UNCHANGED lost
    \/ /\ req[r].attempt = MaxVersionAttempts
       /\ Lose("logged", {req[r].out})
       /\ Finish(r)

VersionTaken(r) ==
    /\ req[r].pc = "insert"
    /\ req[r].ver \in DOMAIN versions
    /\ Retry(r)
    /\ UNCHANGED <<gateVars, pageVars, states, boundVars>>
    /\ Watch

-----------------------------------------------------------------------------
(* The manual lock: a read, then an unconditional UPDATE. *)

GateOp == gateOps < MaxGateOps /\ gateOps' = gateOps + 1

Lock(r, m) ==
    /\ req[r].pc = "idle" /\ ~row.locked
    /\ GateOp
    /\ req' = [req EXCEPT ![r] = [Idle EXCEPT !.pc = "lockWrite", !.who = m]]
    /\ UNCHANGED <<gateVars, pageVars, historyVars, saves, failures>>
    /\ Watch

LockWrite(r) ==
    /\ req[r].pc = "lockWrite"
    /\ row' = LockedBy(req[r].who, row.docStatus)
    /\ Finish(r)
    /\ UNCHANGED <<sess, pageVars, historyVars, boundVars>>
    /\ Watch

(* No bound of its own: it needs a row that a counted Lock has locked. *)
Unlock(r, m) ==
    /\ req[r].pc = "idle" /\ row.locked /\ (IsAdmin(m) \/ row.lockedBy = m)
    /\ req' = [req EXCEPT ![r] = [Idle EXCEPT !.pc = "unlockWrite", !.who = m]]
    /\ UNCHANGED <<gateVars, pageVars, historyVars, boundVars>>
    /\ Watch

UnlockWrite(r) ==
    /\ req[r].pc = "unlockWrite"
    /\ row' = Unlocked(row.docStatus)
    /\ Finish(r)
    /\ UNCHANGED <<sess, pageVars, historyVars, boundVars>>
    /\ Watch

-----------------------------------------------------------------------------
(* The edit session: every operation is one statement. *)

Claimable(m) == sess.holder \in {NoMember, m} \/ ~sess.live

(* claim: Acquire and Takeover *)
Claim(m) == /\ Claimable(m)
            /\ sess' = [holder |-> m, live |-> TRUE]

Heartbeat(m) == /\ sess.holder = m
                /\ sess' = [sess EXCEPT !.live = TRUE]

Release(m) == /\ sess.holder = m
              /\ sess' = NoSession

(* The TTL passes without a heartbeat. *)
Expire == /\ sess.live
          /\ sess' = [sess EXCEPT !.live = FALSE]

SessionOp ==
    /\ \/ GateOp /\ \E m \in Member : Claim(m) \/ Heartbeat(m) \/ Release(m)
       \/ Expire /\ UNCHANGED gateOps
    /\ UNCHANGED <<row, pageVars, req, historyVars, saves, failures>>
    /\ Watch

(* internal/approval writes pages.doc_status. *)
StatusChanges ==
    /\ GateOp
    /\ \E status \in {"draft", "approved"} \ {row.docStatus} :
           row' = [row EXCEPT !.docStatus = status]
    /\ UNCHANGED <<sess, pageVars, req, historyVars, saves, failures>>
    /\ Watch

-----------------------------------------------------------------------------
(* Failures.  A statement fails before or after it took effect; the process *)
(* dies with every request in it.                                          *)

Fails == failures < MaxFailures /\ failures' = failures + 1

(* A guard, a parent lookup or a lock statement errs, nothing changed. *)
RequestErrs(r) ==
    /\ req[r].pc \in {"guardLock", "guardSession", "parent", "lockWrite", "unlockWrite"}
    /\ Fails
    /\ Finish(r)
    /\ UNCHANGED <<gateVars, pageVars, historyVars, saves, gateOps>>
    /\ Watch

(* Update answers with the error, whether the row was written or not. *)
WriteErrs(r) ==
    /\ req[r].pc = "write"
    /\ Fails
    /\ \/ UNCHANGED <<page, states, lost>>
       \/ /\ page' = Patched(req[r].patch)
          /\ states' = states \cup {page'}
          /\ Lose("unheard", {page'})
    /\ Finish(r)
    /\ UNCHANGED <<gateVars, versions, saves, gateOps>>
    /\ Watch

(* The row is written and the save ends with the error, nothing appended. *)
RebaseErrs(r) ==
    /\ req[r].pc = "rebase"
    /\ Fails
    /\ Lose("unbased", {req[r].out})
    /\ Finish(r)
    /\ UNCHANGED <<gateVars, pageVars, states, saves, gateOps>>
    /\ Watch

(* Any other error than a taken number is logged as a loss, also when the   *)
(* insert did take effect.                                                  *)
VersionErrs(r) ==
    /\ req[r].pc \in {"maxRead", "insert"}
    /\ Fails
    /\ \/ UNCHANGED versions
       \/ /\ req[r].pc = "insert" /\ req[r].ver \notin DOMAIN versions
          /\ versions' = Append(versions, req[r].out)
    /\ Lose("logged", {req[r].out})
    /\ Finish(r)
    /\ UNCHANGED <<gateVars, page, states, saves, gateOps>>
    /\ Watch

ProcessDies ==
    /\ Fails
    /\ Lose("died", {req[r].out : r \in {r \in Request : req[r].pc \in {"rebase", "maxRead", "insert"}}})
    /\ req' = [r \in Request |-> Idle]
    /\ UNCHANGED <<gateVars, pageVars, states, saves, gateOps>>
    /\ Watch

Update(r) == \/ GuardLock(r) \/ GuardSession(r) \/ ParentLookups(r)
             \/ WriteRow(r) \/ RebaseDepth(r)
             \/ VersionNumber(r) \/ VersionInsert(r) \/ VersionTaken(r)

Next ==
    \/ \E r \in Request :
          \/ \E m \in Member : BeginSave(r, m) \/ Lock(r, m) \/ Unlock(r, m)
          \/ BeginRestore(r)
          \/ Update(r)
          \/ LockWrite(r) \/ UnlockWrite(r)
          \/ RequestErrs(r) \/ WriteErrs(r) \/ RebaseErrs(r) \/ VersionErrs(r)
    \/ SessionOp \/ StatusChanges
    \/ ProcessDies

Spec == Init /\ [][Next]_vars

-----------------------------------------------------------------------------
(* The request that is to append s to the history. *)
AboutToAppend(s) == \E r \in Request : req[r].pc \in {"rebase", "maxRead", "insert"} /\ req[r].out = s

(* Every state a save committed is a restore point, or is about to become   *)
(* one, unless its append failed and said so in the log, its save answered   *)
(* with an error, or the process died: a save that was answered as done has  *)
(* its restore point, or the log its loss, and overlapping saves lose none   *)
(* between them (store.go appendVersion).                                   *)
RestorePointForEverySave == \A s \in states : s \in ToSet(versions) \cup Lost \/ AboutToAppend(s)

(* A restore point is a state the page was actually in, so a restore never  *)
(* writes back a combination that no save made (store.go Update).           *)
VersionsAreStates == ToSet(versions) \subseteq states

(* The history of a page is what it has been: nothing missing, nothing made  *)
(* up, however its saves overlap (store.go Update, appendVersion).            *)
HistoryIsKept == RestorePointForEverySave /\ VersionsAreStates

(* A save never commits against a guard that refused its author at every    *)
(* moment of the request: an approved page, a page locked by somebody else,  *)
(* somebody else's live session (composite.go CanEdit).                     *)
RefusedThroughoutNeverWrites ==
    \A r \in Request : req[r].pc \in {"write", "rebase", "maxRead", "insert"} => barred[r] = {}

-----------------------------------------------------------------------------
(* What comments of the code say and the code does not do.                 *)

(* store.go Update: the newest version is "the state the page is supposedly *)
(* already in", so that restoring it changes nothing.                        *)
NewestVersionIsLive ==
    (Lost = {} /\ \A r \in Request : req[r].pc = "idle") => Last(versions) = page

(* store.go Update: "every committed save's snapshot is a restore point",    *)
(* and an append that fails is "diagnosable instead of invisible".           *)
EveryCommitIsKept ==
    \A s \in states :
        s \in ToSet(versions) \cup (Lost \ lost["unbased"]) \/ AboutToAppend(s)

(* pagelock.Lock "conflicts when somebody else" holds the lock. *)
LockNotTakenOver ==
    [][row.locked /\ row'.locked => row'.lockedBy = row.lockedBy]_vars
=============================================================================
