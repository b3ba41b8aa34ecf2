----------------------------- MODULE EditGuard -----------------------------
(***************************************************************************)
(* The decisions "may this member write this page now" that the save path  *)
(* and the collaboration socket ask: the lock and approval rule of         *)
(* internal/pagelock, the single-writer rule of internal/editsession, and  *)
(* the conjunction of the two that main.go installs on page.Store.  They   *)
(* are pure functions of the database rows they read; the modules that     *)
(* EXTEND this one keep the rows and say when they are read.               *)
(***************************************************************************)
CONSTANTS Member,     \* the members of the page's workspace
          NoMember    \* the empty member id

ASSUME NoMemberAssumption == NoMember \notin Member

DocStatus == {"draft", "in_review", "approved", "rejected", "archived"}

(* pageLockRow: the columns of a page the lock rule reads. *)
LockRow == [locked: BOOLEAN, lockedBy: Member \cup {NoMember}, docStatus: DocStatus]

Unlocked(status) == [locked |-> FALSE, lockedBy |-> NoMember, docStatus |-> status]
LockedBy(m, status) == [locked |-> TRUE, lockedBy |-> m, docStatus |-> status]

(* The row page_edit_sessions holds for a page; NoMember when there is none. *)
Session == [holder: Member \cup {NoMember}, live: BOOLEAN]

NoSession == [holder |-> NoMember, live |-> FALSE]

(* pagelock.Store.CanEdit: an approved page refuses everybody; otherwise a  *)
(* foreign lock refuses everybody but its holder and an admin.              *)
LockCanEdit(row, m, isAdmin) ==
    /\ row.docStatus # "approved"
    /\ \/ ~row.locked
       \/ row.lockedBy # NoMember /\ row.lockedBy = m
       \/ isAdmin

(* editsession.decide: only a live session held by somebody else refuses. *)
Decide(sess, m) == sess.holder = NoMember \/ ~sess.live \/ sess.holder = m

SessionCanEdit(sess, m, isAdmin) == isAdmin \/ Decide(sess, m)

(* editsession.Composite.CanEdit over [pagelock, editsession]. *)
CompositeCanEdit(row, sess, m, isAdmin) ==
    /\ LockCanEdit(row, m, isAdmin)
    /\ SessionCanEdit(sess, m, isAdmin)
=============================================================================
