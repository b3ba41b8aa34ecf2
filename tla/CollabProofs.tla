---------------------------- MODULE CollabProofs ----------------------------
(***************************************************************************)
(* What TLAPS proves about Collab, for any number of pages, connections,   *)
(* members, changes, failures and restarts.                                *)
(***************************************************************************)
EXTENDS Collab, TLAPS

-----------------------------------------------------------------------------
(* Type correctness.                                                        *)

(* The types of TypeOK, and that a goroutine at work on a page has one. *)
EngineTyped == pages \subseteq Page /\ state \in [Page -> PageState]

ConnTyped == /\ conn \in [Conn -> Socket]
             /\ \A k \in Conn : conn[k].pc # "down" => conn[k].page \in Page

FlusherTyped == /\ flusher \in Flusher
                /\ flusher.pc \in {"saving", "drop"} => flusher.page \in Page

SaveTyped == /\ save \in [Saver -> SaveState]
             /\ \A w \in Saver : save[w].pc # "idle" => save[w].page \in Page

StoreTyped == gate \in [Page -> Gate] /\ db \in [Page -> Content]

HistoryTyped == /\ edits \in 0..MaxEdits
                /\ latest \in [Page -> Snapshot]
                /\ origin \in [1..MaxEdits -> Change]

BoundTyped == failures \in Nat /\ gateChanges \in Nat /\ restarts \in Nat

Typed == /\ EngineTyped /\ ConnTyped /\ FlusherTyped /\ SaveTyped /\ StoreTyped
         /\ HistoryTyped /\ BoundTyped
         /\ mu \in Saver \cup {NoConn} /\ discarded \subseteq Page
         /\ save[Tick].pc # "idle" => flusher.pc = "saving"

(* The engine's operations keep a page state well formed. *)
LEMMA EmptyIsPageState == EmptyState \in PageState
BY CollabAssumption DEF PageState, EmptyState, Snapshot

LEMMA RestingTyped == Down \in Socket /\ Resting \in Flusher /\ NoSave \in SaveState
BY CollabAssumption DEF Down, Socket, Resting, Flusher, NoSave, SaveState, Snapshot

LEMMA FoundTyped ==
    ASSUME NEW st \in PageState, NEW k \in Conn
    PROVE  /\ Found(st, k) \in Member \cup {NoMember}
           /\ st.clients[ClientOf[k]] = k => Found(st, k) = MemberOf[k]
           /\ st.clients[ClientOf[k]] = NoConn => Found(st, k) = NoMember
BY CollabAssumption DEF PageState, Found

LEMMA JoinLeaveApplyClosed ==
    ASSUME NEW st \in PageState, NEW k \in Conn
    PROVE  /\ Joined(st, k) \in PageState
           /\ Left(st, k) \in PageState
           /\ \A n \in Snapshot, carries \in BOOLEAN : Applied(st, k, n, carries) \in PageState
<1> USE CollabAssumption DEF PageState, Snapshot
<1>1. Joined(st, k) \in PageState /\ Left(st, k) \in PageState
  BY DEF Joined, Left
<1>2. ASSUME NEW n \in Snapshot, NEW carries \in BOOLEAN
      PROVE  Applied(st, k, n, carries) \in PageState
  <2> DEFINE by == IF carries /\ Found(st, k) # NoMember THEN Found(st, k) ELSE st.snapshotBy
             snap == IF carries THEN n ELSE st.snapshot
  <2>1. by \in Member \cup {NoMember} /\ snap \in Snapshot /\ st.version + 1 \in Nat
    BY FoundTyped
  <2>2. Applied(st, k, n, carries) =
            [st EXCEPT !.version = st.version + 1, !.snapshot = snap, !.snapshotBy = by]
    BY DEF Applied
  <2> HIDE DEF by, snap
  <2> QED
    BY <2>1, <2>2
<1> QED
  BY <1>1, <1>2

LEMMA MarkedClosed ==
    ASSUME NEW st \in PageState, NEW ver \in Nat
    PROVE  Marked(st, ver) \in PageState
BY DEF PageState, Marked

LEMMA GateStepsClosed == ASSUME NEW g \in Gate PROVE GateSteps(g) \subseteq Gate
<1>1. /\ Unlocked("draft") \in LockRow /\ Unlocked("approved") \in LockRow
      /\ NoSession \in Session
  BY DEF LockRow, Session, Unlocked, NoSession, DocStatus
<1>2. \A m \in Member : /\ LockedBy(m, "draft") \in LockRow
                        /\ [holder |-> m, live |-> TRUE] \in Session
  BY DEF LockRow, Session, LockedBy, DocStatus
<1>3. /\ \A r \in LockRow : [g EXCEPT !.row = r] \in Gate
      /\ \A x \in Session : [g EXCEPT !.sess = x] \in Gate
  BY DEF Gate
<1>4. \A m \in Member : /\ [g EXCEPT !.tier = @ \cup {m}] \in Gate
                        /\ [g EXCEPT !.tier = @ \ {m}] \in Gate
  BY DEF Gate
<1>5. SUFFICES ASSUME NEW h \in GateSteps(g) PROVE h \in Gate
  OBVIOUS
<1>6. CASE \E r \in {Unlocked("draft"), Unlocked("approved")} \cup {LockedBy(m, "draft") : m \in Member} :
             h = [g EXCEPT !.row = r]
  BY <1>1, <1>2, <1>3, <1>6
<1>7. CASE \E x \in {NoSession} \cup {[holder |-> m, live |-> TRUE] : m \in Member} :
             h = [g EXCEPT !.sess = x]
  BY <1>1, <1>2, <1>3, <1>7
<1>8. CASE \E m \in Member : h = [g EXCEPT !.tier = @ \cup {m}] \/ h = [g EXCEPT !.tier = @ \ {m}]
  BY <1>4, <1>8
<1> QED
  BY <1>5, <1>6, <1>7, <1>8, Zenon DEF GateSteps

LEMMA TypedInit == Init => Typed
<1> SUFFICES ASSUME Init PROVE Typed
  OBVIOUS
<1>1. EngineTyped /\ ConnTyped /\ FlusherTyped /\ SaveTyped
  BY RestingTyped, EmptyIsPageState
     DEF Init, EngineTyped, ConnTyped, FlusherTyped, SaveTyped, Down, Resting, NoSave
<1>2. OpenGate \in Gate
  BY DEF OpenGate, Gate, LockRow, Session, NoSession, Unlocked, DocStatus
<1>3. StoreTyped /\ HistoryTyped /\ BoundTyped
  BY <1>2, CollabAssumption
     DEF Init, StoreTyped, HistoryTyped, BoundTyped, Content, Change, NoChange, Snapshot
<1> QED
  BY <1>1, <1>3 DEF Init, Typed, NoSave, Saver

(* How savePage's return leaves its caller typed. *)
LEMMA ReturnTyped ==
    ASSUME Typed, NEW w \in Saver, NEW failed \in BOOLEAN, SavePageReturns(w, failed),
           w = Tick => flusher.pc = "saving"
    PROVE  ConnTyped' /\ FlusherTyped' /\ (w = Tick \/ UNCHANGED flusher)
<1>1. CASE w = Tick
  <2>1. UNCHANGED conn /\ flusher' = [flusher EXCEPT !.pc = IF failed THEN "drop" ELSE "loop"]
    BY <1>1, CollabAssumption DEF SavePageReturns
  <2>2. FlusherTyped'
    BY <1>1, <2>1 DEF Typed, FlusherTyped, Flusher
  <2> QED
    BY <1>1, <2>1, <2>2 DEF Typed, ConnTyped
<1>2. CASE w # Tick
  <2>1. w \in Conn /\ UNCHANGED flusher /\ conn' = [conn EXCEPT ![w] = Down]
    BY <1>2 DEF SavePageReturns, Saver
  <2>2. ConnTyped'
    BY <2>1, RestingTyped DEF Typed, ConnTyped, Down
  <2> QED
    BY <2>1, <2>2 DEF Typed, FlusherTyped
<1> QED
  BY <1>1, <1>2

LEMMA TypedStep == Typed /\ [Next]_vars => Typed'
<1> SUFFICES ASSUME Typed, [Next]_vars PROVE Typed'
  OBVIOUS
<1>a. /\ EngineTyped /\ (UNCHANGED engineVars => EngineTyped')
      /\ ConnTyped /\ (UNCHANGED conn => ConnTyped')
      /\ FlusherTyped /\ (UNCHANGED flusher => FlusherTyped')
      /\ SaveTyped /\ (UNCHANGED save => SaveTyped')
  BY DEF Typed, EngineTyped, engineVars, ConnTyped, FlusherTyped, SaveTyped
<1>b. /\ StoreTyped /\ (UNCHANGED <<gate, db>> => StoreTyped')
      /\ HistoryTyped /\ (UNCHANGED historyVars => HistoryTyped')
      /\ BoundTyped /\ (UNCHANGED boundVars => BoundTyped')
  BY DEF Typed, StoreTyped, HistoryTyped, historyVars, BoundTyped, boundVars
<1>c. /\ mu \in Saver \cup {NoConn} /\ discarded \subseteq Page
      /\ save[Tick].pc # "idle" => flusher.pc = "saving"
  BY DEF Typed
<1> USE CollabAssumption DEF engineVars, saverVars, historyVars, boundVars
<1>1. ASSUME NEW k \in Conn, NEW p \in Page, Connect(k, p) PROVE Typed'
  <2>1. EngineTyped'
    BY <1>1, <1>a, JoinLeaveApplyClosed DEF Connect, EngineTyped
  <2>2. ConnTyped'
    BY <1>1, <1>a DEF Connect, ConnTyped, Socket
  <2> QED
    BY <1>1, <1>a, <1>b, <1>c, <2>1, <2>2 DEF Connect, Typed
<1>2. ASSUME NEW k \in Conn, ResolveFrame(k) PROVE Typed'
  <2>1. ConnTyped'
    BY <1>2, <1>a DEF ResolveFrame, ConnTyped, Socket
  <2> QED
    BY <1>2, <1>a, <1>b, <1>c, <2>1 DEF ResolveFrame, Typed
<1>3. ASSUME NEW k \in Conn, GuardFrame(k) PROVE Typed'
  <2>1. PICK pc \in {"open", "guarded"} : conn' = [conn EXCEPT ![k].pc = pc]
    BY <1>3, Zenon DEF GuardFrame
  <2>2. ConnTyped'
    <3>1. conn[k].pc # "down"
      BY <1>3 DEF GuardFrame
    <3> QED
      BY <2>1, <3>1, <1>a DEF ConnTyped, Socket
  <2>3. BoundTyped'
    <3>1. failures' = failures \/ failures' = failures + 1
      BY <1>3, Zenon DEF GuardFrame
    <3>2. gateChanges' = gateChanges /\ restarts' = restarts
      BY <1>3, Zenon DEF GuardFrame
    <3> QED
      BY <1>b, <3>1, <3>2 DEF BoundTyped
  <2> QED
    BY <1>3, <1>a, <1>b, <1>c, <2>2, <2>3 DEF GuardFrame, Typed
<1>4. ASSUME NEW k \in Conn, NEW carries \in BOOLEAN, ApplyFrame(k, carries) PROVE Typed'
  <2>1. conn[k].page \in Page /\ ConnTyped'
    BY <1>4, <1>a DEF ApplyFrame, ConnTyped, Socket
  <2>2. edits' \in 1..MaxEdits /\ edits' \in Snapshot /\ edits' = edits + 1
    BY <1>4, <1>b DEF ApplyFrame, HistoryTyped, Snapshot
  <2>3. EngineTyped'
    BY <1>4, <1>a, <2>1, <2>2, JoinLeaveApplyClosed DEF ApplyFrame, EngineTyped
  <2>4. [page |-> conn[k].page, client |-> ClientOf[k], by |-> MemberOf[k],
         found |-> Found(state[conn[k].page], k)] \in Change
    BY <1>a, <2>1, FoundTyped DEF Change, EngineTyped
  <2>5. HistoryTyped'
    BY <1>4, <1>b, <2>1, <2>2, <2>4 DEF ApplyFrame, HistoryTyped
  <2> QED
    BY <1>4, <1>a, <1>b, <1>c, <2>1, <2>3, <2>5 DEF ApplyFrame, Typed
<1>5. ASSUME NEW k \in Conn, ContextEnds(k) PROVE Typed'
  <2>1. ConnTyped'
    BY <1>5, <1>a DEF ContextEnds, ConnTyped, Socket
  <2> QED
    BY <1>5, <1>a, <1>b, <1>c, <2>1 DEF ContextEnds, Typed
<1>6. ASSUME NEW k \in Conn, Leave(k) PROVE Typed'
  <2>1. conn[k].page \in Page
    BY <1>6, <1>a DEF Leave, ConnTyped
  <2>2. Left(state[conn[k].page], k) \in PageState
    BY <1>a, <2>1, JoinLeaveApplyClosed DEF EngineTyped
  <2>3. conn' = [conn EXCEPT ![k].pc = "leaving"] \/ conn' = [conn EXCEPT ![k] = Down]
    BY <1>6, Zenon DEF Leave
  <2>4. ConnTyped'
    BY <1>a, <2>1, <2>3, RestingTyped DEF ConnTyped, Down, Socket
  <2>5. \/ Release(conn[k].page)
        \/ /\ state' = [state EXCEPT ![conn[k].page] = Left(state[conn[k].page], k)]
           /\ UNCHANGED pages
        \/ UNCHANGED engineVars
    BY <1>6, Zenon DEF Leave
  <2>6. EngineTyped'
    BY <1>a, <2>1, <2>2, <2>5, EmptyIsPageState DEF EngineTyped, Release
  <2> QED
    BY <1>6, <1>a, <1>b, <1>c, <2>4, <2>6 DEF Leave, Typed
<1>7. CASE FlushTick
  <2>1. FlusherTyped'
    BY <1>7, <1>a DEF FlushTick, DirtyPages, EngineTyped, FlusherTyped, Flusher
  <2>2. save'[Tick].pc # "idle" => flusher'.pc = "saving"
    BY <1>7, <1>c DEF FlushTick
  <2> QED
    BY <1>7, <1>a, <1>b, <1>c, <2>1, <2>2 DEF FlushTick, Typed
<1>8. CASE FlushNext
  <2>1. FlusherTyped'
    BY <1>8, <1>a DEF FlushNext, Resting, FlusherTyped, Flusher
  <2>2. save'[Tick].pc # "idle" => flusher'.pc = "saving"
    BY <1>8, <1>c DEF FlushNext
  <2> QED
    BY <1>8, <1>a, <1>b, <1>c, <2>1, <2>2 DEF FlushNext, Typed
<1>9. CASE DropIdle
  <2>1. FlusherTyped' /\ flusher.page \in Page
    BY <1>9, <1>a DEF DropIdle, FlusherTyped, Flusher
  <2>2. EngineTyped' /\ discarded' \subseteq Page
    BY <1>9, <1>a, <1>c, <2>1, EmptyIsPageState DEF DropIdle, Release, EngineTyped
  <2>3. save'[Tick].pc # "idle" => flusher'.pc = "saving"
    BY <1>9, <1>c DEF DropIdle
  <2> QED
    BY <1>9, <1>a, <1>b, <1>c, <2>1, <2>2, <2>3 DEF DropIdle, Typed
<1>10. ASSUME NEW w \in Saver, SavePage(w) PROVE Typed'
  <2>1. ASSUME NEW p \in Page, SaveNothing(w, p) PROVE Typed'
    <3>1. ConnTyped' /\ FlusherTyped' /\ (w = Tick \/ UNCHANGED flusher)
      BY <2>1, ReturnTyped DEF SaveNothing, InSavePage
    <3>2. save'[Tick].pc # "idle" => flusher'.pc = "saving"
      BY <2>1, <3>1, <1>c DEF SaveNothing
    <3> QED
      BY <2>1, <3>1, <3>2, <1>a, <1>b, <1>c DEF SaveNothing, Typed
  <2>2. ASSUME NEW p \in Page, SaveBegin(w, p) PROVE Typed'
    <3>1. [pc |-> "read", page |-> p, snap |-> state[p].snapshot, ver |-> state[p].version,
           by |-> state[p].snapshotBy] \in SaveState
      BY <1>a DEF SaveState, PageState, EngineTyped
    <3>2. SaveTyped'
      BY <2>2, <3>1, <1>a DEF SaveBegin, SaveTyped
    <3>3. save'[Tick].pc # "idle" => flusher'.pc = "saving"
      BY <2>2, <1>a, <1>c DEF SaveBegin, InSavePage, SaveTyped, Saver
    <3> QED
      BY <2>2, <3>2, <3>3, <1>a, <1>b, <1>c DEF SaveBegin, TakesMutex, Typed
  <2>3. ASSUME NEW pc \in {"wrote", "failed"}, save[w].pc # "idle", UNCHANGED flusher,
               save' = [save EXCEPT ![w].pc = pc]
        PROVE  SaveTyped' /\ (save'[Tick].pc # "idle" => flusher'.pc = "saving")
    <3>1. SaveTyped'
      BY <2>3, <1>a DEF SaveTyped, SaveState
    <3>2. save'[Tick].pc # "idle" => save[Tick].pc # "idle"
      BY <2>3, <1>a DEF SaveTyped, SaveState, Saver
    <3> QED
      BY <2>3, <3>1, <3>2, <1>c
  <2>4. save[w].pc # "idle" => [db EXCEPT ![save[w].page] =
                                   [snap |-> save[w].snap, by |-> save[w].by]] \in [Page -> Content]
    BY <1>a, <1>b DEF SaveTyped, SaveState, StoreTyped, Content
  <2>5. CASE SaveWrites(w)
    <3>1. StoreTyped'
      BY <2>5, <2>4, <1>b DEF SaveWrites, Stored, StoreTyped
    <3> QED
      BY <2>5, <2>3, <3>1, <1>a, <1>b, <1>c DEF SaveWrites, Typed
  <2>6. CASE SaveRefused(w)
    BY <2>6, <2>3, <1>a, <1>b, <1>c DEF SaveRefused, Typed
  <2>7. CASE SaveErrs(w)
    <3>1. StoreTyped' /\ BoundTyped'
      BY <2>7, <2>4, <1>b DEF SaveErrs, Stored, StoreTyped, BoundTyped
    <3> QED
      BY <2>7, <2>3, <3>1, <1>a, <1>b, <1>c DEF SaveErrs, Typed
  <2>8. ASSUME NEW failed \in BOOLEAN, save[w].pc # "idle", SavePageReturns(w, failed),
               save' = [save EXCEPT ![w] = NoSave]
        PROVE  /\ ConnTyped' /\ FlusherTyped' /\ SaveTyped'
               /\ save'[Tick].pc # "idle" => flusher'.pc = "saving"
    <3>1. ConnTyped' /\ FlusherTyped' /\ (w = Tick \/ UNCHANGED flusher)
      BY <2>8, <1>c, ReturnTyped
    <3>2. SaveTyped'
      BY <2>8, <1>a, RestingTyped DEF SaveTyped, NoSave
    <3>3. save'[Tick].pc # "idle" => w # Tick /\ save[Tick].pc # "idle"
      BY <2>8, <1>a DEF SaveTyped, NoSave, Saver
    <3> QED
      BY <3>1, <3>2, <3>3, <1>c
  <2>9. CASE SaveDone(w)
    <3>1. save[w].page \in Page /\ save[w].ver \in Nat
      BY <2>9, <1>a DEF SaveDone, SaveTyped, SaveState
    <3>2. Marked(state[save[w].page], save[w].ver) \in PageState
      BY <3>1, <1>a, MarkedClosed DEF EngineTyped
    <3>3. EngineTyped'
      BY <2>9, <3>1, <3>2, <1>a, EmptyIsPageState DEF SaveDone, MarkSaved, Release, EngineTyped
    <3> QED
      BY <2>9, <2>8, <3>3, <1>a, <1>b, <1>c DEF SaveDone, Typed
  <2>10. CASE SaveFailed(w)
    BY <2>10, <2>8, <1>a, <1>b, <1>c DEF SaveFailed, Typed
  <2> QED
    BY <1>10, <2>1, <2>2, <2>5, <2>6, <2>7, <2>9, <2>10 DEF SavePage
<1>11. ASSUME NEW p \in Page, GateChanges(p) PROVE Typed'
  <2>1. gate[p] \in Gate
    BY <1>b DEF StoreTyped
  <2>2. PICK g \in GateSteps(gate[p]) : gate' = [gate EXCEPT ![p] = g]
    BY <1>11 DEF GateChanges
  <2>3. g \in Gate
    BY <2>1, <2>2, GateStepsClosed
  <2>4. StoreTyped' /\ BoundTyped'
    BY <1>11, <1>b, <2>2, <2>3 DEF GateChanges, StoreTyped, BoundTyped
  <2> QED
    BY <1>11, <1>a, <1>b, <1>c, <2>4 DEF GateChanges, Typed
<1>12. CASE Restart
  <2>1. EngineTyped' /\ ConnTyped' /\ FlusherTyped' /\ SaveTyped'
    BY <1>12, RestingTyped, EmptyIsPageState
       DEF Restart, EngineTyped, ConnTyped, FlusherTyped, SaveTyped, Down, Resting, NoSave
  <2>2. StoreTyped' /\ HistoryTyped' /\ BoundTyped'
    BY <1>12, <1>b DEF Restart, StoreTyped, Content, HistoryTyped, BoundTyped
  <2>3. save'[Tick].pc = "idle"
    BY <1>12 DEF Restart, NoSave, Saver
  <2> QED
    BY <1>12, <1>c, <2>1, <2>2, <2>3 DEF Restart, Typed
<1>13. CASE UNCHANGED vars
  BY <1>13, <1>a, <1>b, <1>c DEF vars, Typed
<1> QED
  BY <1>1, <1>2, <1>3, <1>4, <1>5, <1>6, <1>7, <1>8, <1>9, <1>10, <1>11, <1>12, <1>13 DEF Next

(* Every variable keeps its type; in particular no goroutine of the engine  *)
(* or of the AutoSaver ever works on a page that was not asked for.          *)
THEOREM TypeCorrect == Spec => []TypeOK
<1>1. Typed => TypeOK
  BY DEF Typed, TypeOK, EngineTyped, ConnTyped, FlusherTyped, SaveTyped, StoreTyped, HistoryTyped,
         BoundTyped
<1> QED
  BY <1>1, TypedInit, TypedStep, PTL DEF Spec

-----------------------------------------------------------------------------
(* No acknowledged change is lost.                                          *)

(* At most one savePage is between its read and its end. *)
Exclusive == \A w \in Saver : save[w].pc # "idle" => mu = w

AbsentEmpty == \A p \in Page \ pages : state[p] = EmptyState

(* A snapshot in memory is the last one applied. *)
LatestHeld == \A p \in Page : state[p].snapshot # 0 => state[p].snapshot = latest[p]

(* What is marked as saved is in the database, and is the last snapshot. *)
SavedIsLatest ==
    \A p \in Page \ discarded :
        /\ state[p].savedVersion <= state[p].version
        /\ ~Unsaved(state[p]) => latest[p] = db[p].snap

(* While savePage is at work its page stays unsaved, so nobody releases it, *)
(* and its version names the snapshot it took.                              *)
SaveInFlight ==
    \A w \in Saver : LET p == save[w].page IN
        save[w].pc # "idle" /\ p \notin discarded =>
            /\ Unsaved(state[p])
            /\ save[w].ver <= state[p].version
            /\ save[w].ver = state[p].version => save[w].snap = state[p].snapshot
            /\ save[w].pc = "wrote" => db[p].snap = save[w].snap

Durable == Exclusive /\ AbsentEmpty /\ LatestHeld /\ SavedIsLatest /\ SaveInFlight

(* What the engine's operations leave alone of a page state. *)
SameContent(st1, st2) ==
    /\ st1.version = st2.version /\ st1.savedVersion = st2.savedVersion
    /\ st1.snapshot = st2.snapshot /\ st1.snapshotBy = st2.snapshotBy

LEMMA JoinLeaveContent ==
    ASSUME NEW st \in PageState, NEW k \in Conn
    PROVE  SameContent(Joined(st, k), st) /\ SameContent(Left(st, k), st)
BY DEF PageState, Joined, Left, SameContent

LEMMA AppliedContent ==
    ASSUME NEW st \in PageState, NEW k \in Conn, NEW n, NEW carries \in BOOLEAN
    PROVE  LET st2 == Applied(st, k, n, carries)
           IN  /\ st2.version = st.version + 1 /\ st2.savedVersion = st.savedVersion
               /\ st2.snapshot = IF carries THEN n ELSE st.snapshot
               /\ st2.clients = st.clients
BY DEF PageState, Applied

LEMMA MarkedContent ==
    ASSUME NEW st \in PageState, NEW ver \in Nat
    PROVE  LET st2 == Marked(st, ver)
           IN  /\ st2.version = st.version /\ st2.snapshot = st.snapshot
               /\ st2.snapshotBy = st.snapshotBy /\ st2.clients = st.clients
               /\ st2.savedVersion = IF ver > st.savedVersion THEN ver ELSE st.savedVersion
BY DEF PageState, Marked

LEMMA EmptyContent ==
    /\ EmptyState.version = 0 /\ EmptyState.savedVersion = 0 /\ EmptyState.snapshot = 0
    /\ EmptyState.clients = [id \in ClientId |-> NoConn] /\ EmptyState.snapshotBy = NoMember
    /\ ~Unsaved(EmptyState)
BY DEF EmptyState, Unsaved

(* The numbers of a typed state. *)
LEMMA Numbers ==
    ASSUME Typed
    PROVE  /\ \A p \in Page : /\ state[p] \in PageState
                              /\ state[p].version \in Nat /\ state[p].savedVersion \in Nat
                              /\ state[p].snapshot \in Nat /\ latest[p] \in Nat /\ db[p].snap \in Nat
           /\ \A w \in Saver : save[w].ver \in Nat /\ save[w].snap \in Nat
           /\ \A w \in Saver : save[w].pc # "idle" => save[w].page \in Page
           /\ edits \in Nat
BY CollabAssumption
   DEF Typed, EngineTyped, PageState, StoreTyped, Content, HistoryTyped, SaveTyped, SaveState, Snapshot

(* An operation that leaves every page's content alone. *)
LEMMA DurableKept ==
    ASSUME Typed, Durable, \A p \in Page : SameContent(state'[p], state[p]),
           UNCHANGED <<mu, save, db, latest, discarded>>
    PROVE  (Exclusive /\ LatestHeld /\ SavedIsLatest /\ SaveInFlight)'
BY Numbers DEF Durable, Exclusive, LatestHeld, SavedIsLatest, SaveInFlight, SameContent, Unsaved

(* Releasing a page: it has nothing to save, or its loss is recorded. *)
LEMMA DurableReleased ==
    ASSUME Typed, Durable, NEW p \in Page, Release(p),
           ~Unsaved(state[p]) \/ p \in discarded',
           discarded \subseteq discarded', UNCHANGED <<mu, save, db, latest>>
    PROVE  Durable'
<1> USE DEF Durable
<1>1. /\ state' \in [Page -> PageState] /\ state'[p] = EmptyState
      /\ \A q \in Page : q # p => state'[q] = state[q]
  BY EmptyIsPageState DEF Release, Typed, EngineTyped
<1>2. AbsentEmpty'
  BY <1>1 DEF Release, AbsentEmpty
<1>3. LatestHeld'
  BY <1>1, EmptyContent DEF LatestHeld
<1>4. SavedIsLatest'
  BY <1>1, EmptyContent DEF SavedIsLatest
<1>5. SaveInFlight'
  BY <1>1, Numbers DEF SaveInFlight
<1> QED
  BY <1>2, <1>3, <1>4, <1>5 DEF Exclusive

LEMMA DurableInit == Init => Durable
BY CollabAssumption, EmptyContent
   DEF Init, Durable, Exclusive, AbsentEmpty, LatestHeld, SavedIsLatest, SaveInFlight, NoSave

LEMMA DurableStep == Typed /\ Typed' /\ Durable /\ [Next]_vars => Durable'
<1> SUFFICES ASSUME Typed, Typed', Durable, [Next]_vars PROVE Durable'
  OBVIOUS
<1> USE DEF engineVars, saverVars, historyVars, boundVars
<1>1. ASSUME UNCHANGED <<pages, state, mu, save, db, latest, discarded>> PROVE Durable'
  BY <1>1 DEF Durable, Exclusive, AbsentEmpty, LatestHeld, SavedIsLatest, SaveInFlight
<1>2. ASSUME NEW k \in Conn, NEW p \in Page, Connect(k, p) PROVE Durable'
  <2>1. \A q \in Page : /\ SameContent(state'[q], state[q])
                        /\ q # p => state'[q] = state[q]
    BY <1>2, Numbers, JoinLeaveContent DEF Connect, SameContent, Typed, EngineTyped
  <2>2. AbsentEmpty'
    BY <1>2, <2>1 DEF Connect, Durable, AbsentEmpty
  <2> QED
    BY <1>2, <2>1, <2>2, DurableKept DEF Connect, Durable
<1>3. ASSUME NEW k \in Conn, NEW carries \in BOOLEAN, ApplyFrame(k, carries) PROVE Durable'
  <2> DEFINE p == conn[k].page
             n == edits + 1
             st == Applied(state[p], k, n, carries)
  <2>1. p \in Page /\ UNCHANGED <<mu, save, db, discarded>>
    BY <1>3 DEF ApplyFrame, Typed, ConnTyped
  <2>2. /\ state'[p] = st /\ latest'[p] = IF carries THEN n ELSE latest[p]
        /\ \A q \in Page : q # p => state'[q] = state[q] /\ latest'[q] = latest[q]
        /\ pages' = pages \cup {p} /\ n \in Nat /\ n # 0
    BY <1>3, <2>1 DEF ApplyFrame, Typed, EngineTyped, HistoryTyped
  <2>3. /\ st.version = state[p].version + 1 /\ st.savedVersion = state[p].savedVersion
        /\ st.snapshot = IF carries THEN n ELSE state[p].snapshot
    BY <2>1, Numbers, AppliedContent
  <2> HIDE DEF p, n, st
  <2>4. AbsentEmpty'
    BY <2>2 DEF Durable, AbsentEmpty
  <2>5. LatestHeld'
    BY <2>1, <2>2, <2>3 DEF Durable, LatestHeld
  <2>6. SavedIsLatest'
    BY <2>1, <2>2, <2>3, Numbers DEF Durable, SavedIsLatest, Unsaved
  <2>7. SaveInFlight'
    BY <2>1, <2>2, <2>3, Numbers DEF Durable, SaveInFlight, SavedIsLatest, Unsaved
  <2> QED
    BY <2>1, <2>4, <2>5, <2>6, <2>7 DEF Durable, Exclusive
<1>4. ASSUME NEW k \in Conn, Leave(k) PROVE Durable'
  <2> DEFINE p == conn[k].page
  <2>1. p \in Page /\ UNCHANGED <<mu, save, db, latest, discarded>>
    BY <1>4 DEF Leave, Typed, ConnTyped
  <2>2. Unsaved(Left(state[p], k)) = Unsaved(state[p])
    BY <2>1, Numbers, JoinLeaveContent DEF SameContent, Unsaved
  <2>3. CASE Release(p) /\ ~Unsaved(state[p])
    BY <2>1, <2>3, DurableReleased
  <2>4. CASE /\ state' = [state EXCEPT ![p] = Left(state[p], k)]
             /\ UNCHANGED pages /\ p \in pages
    <3>1. \A q \in Page : /\ SameContent(state'[q], state[q])
                          /\ q # p => state'[q] = state[q]
      BY <2>1, <2>4, Numbers, JoinLeaveContent DEF SameContent, Typed, EngineTyped
    <3>2. AbsentEmpty'
      BY <2>4, <3>1 DEF Durable, AbsentEmpty
    <3> QED
      BY <2>1, <3>1, <3>2, DurableKept DEF Durable
  <2>5. CASE UNCHANGED engineVars
    BY <1>1, <2>1, <2>5
  <2> QED
    BY <1>4, <2>2, <2>3, <2>4, <2>5, Zenon DEF Leave
<1>5. CASE DropIdle
  <2>1. flusher.page \in Page
    BY <1>5 DEF DropIdle, Typed, FlusherTyped
  <2>2. CASE Release(flusher.page) /\ discarded' = discarded \cup {flusher.page}
    BY <1>5, <2>1, <2>2, DurableReleased DEF DropIdle
  <2>3. CASE UNCHANGED <<pages, state, discarded>>
    BY <1>1, <1>5, <2>3 DEF DropIdle
  <2> QED
    BY <1>5, <2>2, <2>3 DEF DropIdle
<1>6. ASSUME NEW w \in Saver, SavePage(w) PROVE Durable'
  <2>1. ASSUME NEW p \in Page, SaveNothing(w, p) PROVE Durable'
    BY <1>1, <2>1 DEF SaveNothing
  <2>2. ASSUME NEW p \in Page, SaveBegin(w, p) PROVE Durable'
    <3>1. \A v \in Saver : save[v].pc = "idle"
      BY <2>2, CollabAssumption DEF SaveBegin, TakesMutex, Durable, Exclusive, Saver
    <3>2. /\ save'[w] = [pc |-> "read", page |-> p, snap |-> state[p].snapshot,
                         ver |-> state[p].version, by |-> state[p].snapshotBy]
          /\ \A v \in Saver : v # w => save'[v] = save[v]
          /\ mu' = w /\ Unsaved(state[p])
      BY <2>2 DEF SaveBegin, TakesMutex, DirtyPages, Typed, SaveTyped
    <3>3. Exclusive'
      BY <3>1, <3>2 DEF Exclusive
    <3>4. SaveInFlight'
      BY <2>2, <3>1, <3>2, Numbers DEF SaveInFlight, SaveBegin
    <3> QED
      BY <2>2, <3>3, <3>4 DEF SaveBegin, Durable, AbsentEmpty, LatestHeld, SavedIsLatest
  <2>3. ASSUME save[w].pc = "read", NEW pc \in {"wrote", "failed"},
               save' = [save EXCEPT ![w].pc = pc],
               (UNCHANGED db /\ pc = "failed") \/ db' = Stored(w),
               UNCHANGED <<pages, state, mu, latest, discarded>>
        PROVE  Durable'
    <3>1. /\ save'[w].pc = pc /\ save'[w].page = save[w].page /\ save'[w].ver = save[w].ver
          /\ save'[w].snap = save[w].snap /\ \A v \in Saver : v # w => save'[v] = save[v]
      BY <2>3 DEF Typed, SaveTyped, SaveState
    <3>2. \A v \in Saver : v # w => save[v].pc = "idle"
      BY <2>3 DEF Durable, Exclusive
    <3>3. /\ \A q \in Page : q # save[w].page => db'[q] = db[q]
          /\ db'[save[w].page].snap \in {db[save[w].page].snap, save[w].snap}
          /\ pc = "wrote" => db'[save[w].page].snap = save[w].snap
      BY <2>3, Numbers DEF Stored, Typed, StoreTyped
    <3>4. Exclusive'
      BY <2>3, <3>1, <3>2 DEF Durable, Exclusive
    <3>5. SavedIsLatest'
      BY <2>3, <3>3, Numbers DEF Durable, SavedIsLatest, SaveInFlight
    <3>6. SaveInFlight'
      BY <2>3, <3>1, <3>2, <3>3 DEF Durable, SaveInFlight
    <3> QED
      BY <2>3, <3>4, <3>5, <3>6 DEF Durable, AbsentEmpty, LatestHeld
  <2>4. CASE SaveWrites(w)
    BY <2>3, <2>4 DEF SaveWrites
  <2>5. CASE SaveRefused(w)
    BY <2>3, <2>5 DEF SaveRefused
  <2>6. CASE SaveErrs(w)
    BY <2>3, <2>6 DEF SaveErrs
  <2>7. ASSUME save[w].pc # "idle", save' = [save EXCEPT ![w] = NoSave],
               UNCHANGED <<db, latest, discarded>>
        PROVE  /\ (Exclusive /\ SaveInFlight)'
               /\ UNCHANGED <<pages, state>> => Durable'
    <3>1. save'[w].pc = "idle" /\ \A v \in Saver : v # w => save'[v] = save[v] /\ save[v].pc = "idle"
      BY <2>7 DEF Typed, SaveTyped, NoSave, Durable, Exclusive
    <3>2. (Exclusive /\ SaveInFlight)'
      BY <3>1 DEF Exclusive, SaveInFlight
    <3> QED
      BY <2>7, <3>2 DEF Durable, AbsentEmpty, LatestHeld, SavedIsLatest
  <2>8. CASE SaveFailed(w)
    BY <2>7, <2>8 DEF SaveFailed
  <2>9. CASE SaveDone(w)
    <3> DEFINE p == save[w].page
               st == Marked(state[p], save[w].ver)
    <3>1. /\ p \in Page /\ save[w].ver \in Nat /\ (Exclusive /\ SaveInFlight)'
          /\ UNCHANGED <<db, latest, discarded>>
      BY <2>7, <2>9, Numbers DEF SaveDone
    <3>2. CASE UNCHANGED engineVars
      BY <2>7, <2>9, <3>2 DEF SaveDone
    <3>3. /\ st.version = state[p].version /\ st.snapshot = state[p].snapshot
          /\ st.savedVersion = IF save[w].ver > state[p].savedVersion
                               THEN save[w].ver ELSE state[p].savedVersion
      BY <3>1, Numbers, MarkedContent
    <3> HIDE DEF st
    <3>4. p \notin discarded => /\ st.savedVersion <= st.version
                                /\ ~Unsaved(st) => latest[p] = db[p].snap
      BY <2>9, <3>1, <3>3, Numbers
         DEF SaveDone, Durable, SaveInFlight, SavedIsLatest, LatestHeld, Unsaved
    <3>5. CASE Release(p) /\ ~Unsaved(st)
      <4>1. /\ state'[p] = EmptyState /\ pages' = pages \ {p}
            /\ \A q \in Page : q # p => state'[q] = state[q]
        BY <3>1, <3>5 DEF Release, Typed, EngineTyped
      <4>2. (AbsentEmpty /\ LatestHeld)'
        BY <3>1, <4>1, EmptyContent DEF Durable, AbsentEmpty, LatestHeld
      <4>3. SavedIsLatest'
        BY <3>1, <3>4, <3>5, <4>1, EmptyContent DEF Durable, SavedIsLatest
      <4> QED
        BY <3>1, <4>2, <4>3 DEF Durable
    <3>6. CASE state' = [state EXCEPT ![p] = st] /\ UNCHANGED pages /\ p \in pages
      <4>1. state'[p] = st /\ \A q \in Page : q # p => state'[q] = state[q]
        BY <3>1, <3>6 DEF Typed, EngineTyped
      <4>2. (AbsentEmpty /\ LatestHeld)'
        BY <3>1, <3>3, <3>6, <4>1 DEF Durable, AbsentEmpty, LatestHeld
      <4>3. SavedIsLatest'
        BY <3>1, <3>4, <4>1 DEF Durable, SavedIsLatest
      <4> QED
        BY <3>1, <4>2, <4>3 DEF Durable
    <3> QED
      BY <2>9, <3>2, <3>5, <3>6, Zenon DEF SaveDone, MarkSaved, st
  <2> QED
    BY <1>6, <2>1, <2>2, <2>4, <2>5, <2>6, <2>8, <2>9 DEF SavePage
<1>7. CASE Restart
  BY <1>7, EmptyContent
     DEF Restart, Durable, Exclusive, AbsentEmpty, LatestHeld, SavedIsLatest, SaveInFlight, NoSave,
         Typed, StoreTyped, Content
<1>8. CASE UNCHANGED vars
  BY <1>1, <1>8 DEF vars
<1> QED
  <2>1. ASSUME NEW k \in Conn, ResolveFrame(k) \/ GuardFrame(k) \/ ContextEnds(k) PROVE Durable'
    BY <1>1, <2>1 DEF ResolveFrame, GuardFrame, ContextEnds
  <2>2. ASSUME FlushTick \/ FlushNext \/ \E p \in Page : GateChanges(p) PROVE Durable'
    BY <1>1, <2>2 DEF FlushTick, FlushNext, GateChanges
  <2> QED
    BY <1>2, <1>3, <1>4, <1>5, <1>6, <1>7, <1>8, <2>1, <2>2 DEF Next

(* The last snapshot applied to a page is in the database or still held as  *)
(* unsaved, whatever the number of connections, savers, failures and        *)
(* restarts and whatever client_ids the connections dial with.              *)
THEOREM AckedEditsKept == Spec => []NoAckedEditLost
<1>1. Typed /\ Durable => NoAckedEditLost
  BY EmptyContent DEF Durable, AbsentEmpty, LatestHeld, SavedIsLatest, NoAckedEditLost, DirtyPages, Unsaved
<1> QED
  BY <1>1, TypedInit, TypedStep, DurableInit, DurableStep, PTL DEF Spec

-----------------------------------------------------------------------------
(* Stored content only moves forward.                                       *)

SnapshotsInOrder ==
    \A p \in Page :
        /\ db[p].snap \in AcceptedChanges(p) \cup {0}
        /\ state[p].snapshot # 0 => /\ state[p].snapshot \in AcceptedChanges(p)
                                    /\ db[p].snap <= state[p].snapshot

SavesInOrder ==
    \A w \in Saver : LET p == save[w].page IN
        save[w].pc # "idle" =>
            /\ save[w].snap \in AcceptedChanges(p)
            /\ db[p].snap <= save[w].snap
            /\ state[p].snapshot # 0 => save[w].snap <= state[p].snapshot

Ordered == Exclusive /\ SnapshotsInOrder /\ SavesInOrder

LEMMA OrderedInit == Init => Ordered
BY CollabAssumption, EmptyContent
   DEF Init, Ordered, Exclusive, SnapshotsInOrder, SavesInOrder, NoSave

(* Snapshots stay or are forgotten, savers stay or end. *)
LEMMA OrderedKept ==
    ASSUME Typed, Ordered, UNCHANGED <<db, edits, origin>>,
           \A p \in Page : state'[p].snapshot \in {0, state[p].snapshot},
           \/ UNCHANGED <<mu, save>>
           \/ \E w \in Saver : save[w].pc # "idle" /\ save' = [save EXCEPT ![w] = NoSave]
    PROVE  Ordered'
<1>1. \A p \in Page : AcceptedChanges(p)' = AcceptedChanges(p)
  BY DEF AcceptedChanges
<1>2. SnapshotsInOrder'
  BY <1>1 DEF Ordered, SnapshotsInOrder
<1>3. CASE UNCHANGED <<mu, save>>
  BY <1>1, <1>2, <1>3, Numbers DEF Ordered, Exclusive, SavesInOrder
<1>4. ASSUME NEW w \in Saver, save[w].pc # "idle", save' = [save EXCEPT ![w] = NoSave]
      PROVE  Ordered'
  <2>1. \A v \in Saver : save'[v].pc = "idle"
    BY <1>4 DEF Ordered, Exclusive, Typed, SaveTyped, NoSave
  <2> QED
    BY <1>2, <2>1 DEF Ordered, Exclusive, SavesInOrder
<1> QED
  BY <1>3, <1>4

(* Only Apply gives a page state another snapshot. *)
LEMMA SnapshotKept ==
    ASSUME Typed, NEW p \in Page,
           \/ Release(p)
           \/ \E st \in PageState : /\ state' = [state EXCEPT ![p] = st]
                                    /\ st.snapshot = state[p].snapshot
    PROVE  \A q \in Page : state'[q].snapshot \in {0, state[q].snapshot}
BY EmptyContent DEF Release, Typed, EngineTyped

LEMMA OrderedStep == Typed /\ Typed' /\ Ordered /\ [Next]_vars => Ordered'
<1> SUFFICES ASSUME Typed, Typed', Ordered, [Next]_vars PROVE Ordered'
  OBVIOUS
<1> USE DEF engineVars, saverVars, historyVars, boundVars
<1>1. ASSUME UNCHANGED <<state, mu, save, db, edits, origin>> PROVE Ordered'
  BY <1>1, OrderedKept
<1>2. ASSUME NEW k \in Conn, NEW p \in Page, Connect(k, p) PROVE Ordered'
  <2>1. Joined(state[p], k) \in PageState /\ Joined(state[p], k).snapshot = state[p].snapshot
    BY Numbers, JoinLeaveApplyClosed, JoinLeaveContent DEF SameContent
  <2> QED
    BY <1>2, <2>1, SnapshotKept, OrderedKept DEF Connect
<1>3. ASSUME NEW k \in Conn, NEW carries \in BOOLEAN, ApplyFrame(k, carries) PROVE Ordered'
  <2> DEFINE p == conn[k].page
             n == edits + 1
  <2>1. /\ p \in Page /\ UNCHANGED <<mu, save, db>> /\ edits' = n /\ n \in 1..MaxEdits /\ edits \in Nat
        /\ origin'[n].page = p /\ \A m \in 1..edits : origin'[m] = origin[m]
    BY <1>3, CollabAssumption DEF ApplyFrame, Typed, ConnTyped, HistoryTyped
  <2>2. \A q \in Page : AcceptedChanges(q)' = IF q = p THEN AcceptedChanges(q) \cup {n}
                                              ELSE AcceptedChanges(q)
    <3>1. 1..n = (1..edits) \cup {n} /\ n \notin 1..edits
      BY <2>1
    <3> QED
      BY <2>1, <3>1 DEF AcceptedChanges
  <2>3. /\ state'[p].snapshot = IF carries THEN n ELSE state[p].snapshot
        /\ \A q \in Page : q # p => state'[q] = state[q]
    BY <1>3, <2>1, Numbers, AppliedContent DEF ApplyFrame, Typed, EngineTyped
  <2>4. \A q \in Page : \A m \in AcceptedChanges(q) : m \in Nat /\ m < n
    BY <2>1 DEF AcceptedChanges
  <2> HIDE DEF p, n
  <2>5. \A q \in Page : db[q].snap < n
    BY <2>1, <2>4, Numbers DEF Ordered, SnapshotsInOrder, n
  <2>6. SnapshotsInOrder'
    BY <2>1, <2>2, <2>3, <2>4, <2>5, Numbers DEF Ordered, SnapshotsInOrder
  <2>7. SavesInOrder'
    BY <2>1, <2>2, <2>3, <2>4, Numbers DEF Ordered, SavesInOrder
  <2> QED
    BY <2>1, <2>6, <2>7 DEF Ordered, Exclusive
<1>4. ASSUME NEW k \in Conn, Leave(k) PROVE Ordered'
  <2> DEFINE p == conn[k].page
  <2>1. p \in Page /\ UNCHANGED <<mu, save, db, edits, origin>>
    BY <1>4 DEF Leave, Typed, ConnTyped
  <2>2. Left(state[p], k) \in PageState /\ Left(state[p], k).snapshot = state[p].snapshot
    BY <2>1, Numbers, JoinLeaveApplyClosed, JoinLeaveContent DEF SameContent
  <2>3. Release(p) \/ state' = [state EXCEPT ![p] = Left(state[p], k)] \/ UNCHANGED state
    BY <1>4, Zenon DEF Leave
  <2> QED
    BY <1>1, <2>1, <2>2, <2>3, SnapshotKept, OrderedKept
<1>5. CASE DropIdle
  <2>1. flusher.page \in Page /\ UNCHANGED <<mu, save, db, edits, origin>>
    BY <1>5 DEF DropIdle, Typed, FlusherTyped
  <2>2. Release(flusher.page) \/ UNCHANGED state
    BY <1>5 DEF DropIdle
  <2> QED
    BY <1>1, <2>1, <2>2, SnapshotKept, OrderedKept
<1>6. ASSUME NEW w \in Saver, SavePage(w) PROVE Ordered'
  <2>1. ASSUME NEW p \in Page, SaveNothing(w, p) PROVE Ordered'
    BY <1>1, <2>1 DEF SaveNothing
  <2>2. ASSUME NEW p \in Page, SaveBegin(w, p) PROVE Ordered'
    <3>1. /\ \A v \in Saver : save[v].pc = "idle"
          /\ UNCHANGED <<state, db, edits, origin>> /\ Unsaved(state[p]) /\ mu' = w
      BY <2>2, CollabAssumption
         DEF SaveBegin, TakesMutex, DirtyPages, Ordered, Exclusive, Saver
    <3>2. /\ save'[w].page = p /\ save'[w].snap = state[p].snapshot
          /\ \A v \in Saver : v # w => save'[v] = save[v]
      BY <2>2 DEF SaveBegin, Typed, SaveTyped
    <3>3. \A q \in Page : AcceptedChanges(q)' = AcceptedChanges(q)
      BY <3>1 DEF AcceptedChanges
    <3>4. SavesInOrder'
      BY <3>1, <3>2, <3>3, Numbers DEF Ordered, SnapshotsInOrder, SavesInOrder, Unsaved
    <3>5. Exclusive' /\ SnapshotsInOrder'
      BY <3>1, <3>2, <3>3 DEF Ordered, Exclusive, SnapshotsInOrder
    <3> QED
      BY <3>4, <3>5 DEF Ordered
  <2>3. ASSUME save[w].pc = "read", NEW pc \in {"wrote", "failed"},
               save' = [save EXCEPT ![w].pc = pc],
               UNCHANGED db \/ db' = Stored(w),
               UNCHANGED <<state, mu, edits, origin>>
        PROVE  Ordered'
    <3>1. /\ save'[w].page = save[w].page /\ save'[w].snap = save[w].snap
          /\ \A v \in Saver : v # w => save'[v] = save[v] /\ save[v].pc = "idle"
      BY <2>3 DEF Typed, SaveTyped, SaveState, Ordered, Exclusive
    <3>2. /\ \A q \in Page : q # save[w].page => db'[q] = db[q]
          /\ db'[save[w].page].snap \in {db[save[w].page].snap, save[w].snap}
          /\ save[w].page \in Page
      BY <2>3, Numbers DEF Stored, Typed, StoreTyped
    <3>3. \A q \in Page : AcceptedChanges(q)' = AcceptedChanges(q)
      BY <2>3 DEF AcceptedChanges
    <3>4. SnapshotsInOrder'
      BY <2>3, <3>2, <3>3 DEF Ordered, SnapshotsInOrder, SavesInOrder
    <3>5. SavesInOrder'
      BY <2>3, <3>1, <3>2, <3>3, Numbers DEF Ordered, SavesInOrder
    <3> QED
      BY <2>3, <3>1, <3>4, <3>5 DEF Ordered, Exclusive
  <2>4. CASE SaveWrites(w)
    BY <2>3, <2>4 DEF SaveWrites
  <2>5. CASE SaveRefused(w)
    BY <2>3, <2>5 DEF SaveRefused
  <2>6. CASE SaveErrs(w)
    BY <2>3, <2>6 DEF SaveErrs
  <2>7. CASE SaveFailed(w)
    BY <2>7, OrderedKept DEF SaveFailed
  <2>8. CASE SaveDone(w)
    <3>1. save[w].page \in Page /\ Marked(state[save[w].page], save[w].ver) \in PageState
      BY <2>8, Numbers, MarkedClosed DEF SaveDone
    <3>2. Marked(state[save[w].page], save[w].ver).snapshot = state[save[w].page].snapshot
      BY <3>1, Numbers, MarkedContent
    <3>3. \A q \in Page : state'[q].snapshot \in {0, state[q].snapshot}
      BY <2>8, <3>1, <3>2, SnapshotKept DEF SaveDone, MarkSaved
    <3> QED
      BY <2>8, <3>3, OrderedKept DEF SaveDone
  <2> QED
    BY <1>6, <2>1, <2>2, <2>4, <2>5, <2>6, <2>7, <2>8 DEF SavePage
<1>7. CASE Restart
  <2>1. \A q \in Page : AcceptedChanges(q)' = AcceptedChanges(q)
    BY <1>7 DEF Restart, AcceptedChanges
  <2> QED
    BY <1>7, <2>1, EmptyContent
       DEF Restart, Ordered, Exclusive, SnapshotsInOrder, SavesInOrder, NoSave
<1>8. CASE UNCHANGED vars
  BY <1>1, <1>8 DEF vars
<1> QED
  <2>1. ASSUME NEW k \in Conn, ResolveFrame(k) \/ GuardFrame(k) \/ ContextEnds(k) PROVE Ordered'
    BY <1>1, <2>1 DEF ResolveFrame, GuardFrame, ContextEnds
  <2>2. ASSUME FlushTick \/ FlushNext \/ \E p \in Page : GateChanges(p) PROVE Ordered'
    BY <1>1, <2>2 DEF FlushTick, FlushNext, GateChanges
  <2> QED
    BY <1>2, <1>3, <1>4, <1>5, <1>6, <1>7, <1>8, <2>1, <2>2 DEF Next

(* Every step of the collaboration server accepts one change, stores one    *)
(* that is newer than what is stored, or is invisible to WriteBehind.       *)
LEMMA StepMaps == Typed /\ Typed' /\ Ordered /\ [Next]_vars => [Promise!Next]_(Promise!vars)
<1> SUFFICES ASSUME Typed, Typed', Ordered, [Next]_vars PROVE [Promise!Next]_(Promise!vars)
  OBVIOUS
<1> USE DEF engineVars, saverVars, historyVars, boundVars
<1>1. ASSUME UNCHANGED <<db, edits, origin>> PROVE UNCHANGED Promise!vars
  BY <1>1 DEF Promise!vars, AcceptedChanges
<1>2. ASSUME NEW k \in Conn, NEW carries \in BOOLEAN, ApplyFrame(k, carries) PROVE Promise!Next
  <2> DEFINE p == conn[k].page
             n == edits + 1
  <2>1. /\ p \in Page /\ UNCHANGED db /\ edits' = n /\ n \in 1..MaxEdits /\ edits \in Nat
        /\ origin'[n].page = p /\ \A m \in 1..edits : origin'[m] = origin[m]
    BY <1>2, CollabAssumption DEF ApplyFrame, Typed, ConnTyped, HistoryTyped
  <2>2. \A q \in Page : AcceptedChanges(q)' = IF q = p THEN AcceptedChanges(q) \cup {n}
                                              ELSE AcceptedChanges(q)
    <3>1. 1..n = (1..edits) \cup {n} /\ n \notin 1..edits
      BY <2>1
    <3> QED
      BY <2>1, <3>1 DEF AcceptedChanges
  <2>3. Promise!Accept(p)
    BY <2>1, <2>2 DEF Promise!Accept
  <2> QED
    BY <2>1, <2>3 DEF Promise!Next
<1>3. ASSUME NEW w \in Saver, save[w].pc # "idle", db' = Stored(w), UNCHANGED <<edits, origin>>
      PROVE  [Promise!Next]_(Promise!vars)
  <2>0. PICK saved \in Page : saved = save[w].page
    BY <1>3, Numbers
  <2>1. /\ save[w].snap \in AcceptedChanges(saved) /\ db[saved].snap <= save[w].snap
        /\ db[saved].snap \in Nat /\ save[w].snap \in Nat
    BY <1>3, <2>0, Numbers DEF Ordered, SavesInOrder
  <2>2. /\ db'[saved].snap = save[w].snap
        /\ \A q \in Page : q # saved => db'[q].snap = db[q].snap
    BY <1>3, <2>0 DEF Stored, Typed, StoreTyped
  <2>3. \A q \in Page : AcceptedChanges(q)' = AcceptedChanges(q)
    BY <1>3 DEF AcceptedChanges
  <2>4. CASE db[saved].snap = save[w].snap
    BY <1>3, <2>2, <2>3, <2>4 DEF Promise!vars
  <2>5. CASE db[saved].snap < save[w].snap
    <3>1. [q \in Page |-> db'[q].snap] = [[q \in Page |-> db[q].snap] EXCEPT ![saved] = save[w].snap]
      BY <2>1, <2>2
    <3>2. Promise!Store(saved)
      BY <1>3, <2>1, <2>3, <2>5, <3>1 DEF Promise!Store
    <3> QED
      BY <3>2 DEF Promise!Next
  <2> QED
    BY <2>1, <2>4, <2>5
<1>4. ASSUME NEW w \in Saver, SavePage(w) PROVE [Promise!Next]_(Promise!vars)
  <2>1. \/ UNCHANGED <<db, edits, origin>>
        \/ save[w].pc # "idle" /\ db' = Stored(w) /\ UNCHANGED <<edits, origin>>
    BY <1>4 DEF SavePage, SaveNothing, SaveBegin, SaveWrites, SaveRefused, SaveErrs, SaveDone,
                SaveFailed
  <2> QED
    BY <1>1, <1>3, <2>1
<1>5. ASSUME NEW k \in Conn,
             \/ \E p \in Page : Connect(k, p)
             \/ ResolveFrame(k) \/ GuardFrame(k) \/ ContextEnds(k) \/ Leave(k)
      PROVE  UNCHANGED <<db, edits, origin>>
  BY <1>5, Zenon DEF Connect, ResolveFrame, GuardFrame, ContextEnds, Leave
<1>6. ASSUME \/ FlushTick \/ FlushNext \/ DropIdle \/ Restart
             \/ \E p \in Page : GateChanges(p)
             \/ UNCHANGED vars
      PROVE  UNCHANGED <<db, edits, origin>>
  BY <1>6 DEF FlushTick, FlushNext, DropIdle, Restart, GateChanges, vars
<1> QED
  BY <1>1, <1>2, <1>4, <1>5, <1>6 DEF Next

(* The server implements WriteBehind: what is stored for a page is one of   *)
(* the changes made on that page, and only ever moves forward.              *)
THEOREM StoredMovesForward == Spec => ImplementsWriteBehind
<1>1. Init => Promise!Init
  BY DEF Init, Promise!Init, AcceptedChanges
<1> QED
  BY <1>1, TypedInit, TypedStep, OrderedInit, OrderedStep, StepMaps, PTL
     DEF Spec, ImplementsWriteBehind, Promise!Spec

-----------------------------------------------------------------------------
(* An idle page.  A socket that shares its client_id with no other still has *)
(* its entry as long as it is open, so only a sender under a shared one can  *)
(* make a page that nobody is on.                                           *)

OwnEntry ==
    \A k \in Conn : conn[k].pc \in {"open", "resolved", "guarded"} /\ ~Shared(ClientOf[k]) =>
        /\ conn[k].page \in pages
        /\ state[conn[k].page].clients[ClientOf[k]] = k

(* What a page kept without anything to save is like. *)
Forsaken(p) == /\ state[p].snapshot = 0 /\ state[p].savedVersion = 0
               /\ SentAfterLeave(p)

IdleKept == \A p \in pages : Idle(state[p]) => Unsaved(state[p]) \/ Forsaken(p)

Attended == OwnEntry /\ IdleKept

LEMMA AttendedInit == Init => Attended
BY DEF Init, Attended, OwnEntry, IdleKept, Down

(* Changes are never forgotten. *)
LEMMA SentAfterLeaveStays ==
    Typed /\ [Next]_vars => \A p \in Page : SentAfterLeave(p) => SentAfterLeave(p)'
<1> SUFFICES ASSUME Typed, [Next]_vars, NEW p \in Page, SentAfterLeave(p)
             PROVE  SentAfterLeave(p)'
  OBVIOUS
<1> USE DEF engineVars, saverVars, historyVars, boundVars
<1>1. CASE UNCHANGED <<edits, origin>>
  BY <1>1 DEF SentAfterLeave, AcceptedChanges
<1>2. ASSUME NEW k \in Conn, NEW carries \in BOOLEAN, ApplyFrame(k, carries)
      PROVE  SentAfterLeave(p)'
  <2>1. edits \in Nat /\ edits' = edits + 1 /\ \A m \in 1..edits : origin'[m] = origin[m]
    BY <1>2, Numbers DEF ApplyFrame, Typed, HistoryTyped
  <2> QED
    BY <2>1 DEF SentAfterLeave, AcceptedChanges
<1>3. CASE Next
  BY <1>1, <1>2, <1>3, Zenon
     DEF Next, Connect, ResolveFrame, GuardFrame, ContextEnds, Leave, FlushTick, FlushNext,
         DropIdle, SavePage, SaveNothing, SaveBegin, SaveWrites, SaveRefused, SaveErrs, SaveDone,
         SaveFailed, GateChanges, Restart
<1> QED
  BY <1>1, <1>3 DEF vars

(* Only a page nobody with a client_id of its own is on is released. *)
LEMMA AttendedReleased ==
    ASSUME Typed, Attended, NEW p \in Page, Release(p),
           \A q \in Page : SentAfterLeave(q) => SentAfterLeave(q)',
           \A k \in Conn : conn'[k].pc \in {"open", "resolved", "guarded"} /\ ~Shared(ClientOf[k]) =>
               conn[k].pc \in {"open", "resolved", "guarded"} /\ conn[k].page = conn'[k].page
                   /\ conn[k].page # p
    PROVE  Attended'
<1>1. /\ pages' = pages \ {p}
      /\ \A q \in Page : q # p => state'[q] = state[q]
  BY DEF Release, Typed, EngineTyped
<1>2. OwnEntry'
  BY <1>1 DEF Attended, OwnEntry, Shared, Typed, EngineTyped
<1>3. IdleKept'
  BY <1>1 DEF Attended, IdleKept, Forsaken, Typed, EngineTyped
<1> QED
  BY <1>2, <1>3 DEF Attended

LEMMA AttendedStep == Typed /\ Typed' /\ Durable /\ Attended /\ [Next]_vars => Attended'
<1> SUFFICES ASSUME Typed, Typed', Durable, Attended, [Next]_vars PROVE Attended'
  OBVIOUS
<1> USE DEF engineVars, saverVars, historyVars, boundVars
<1> DEFINE On(k) == conn[k].pc \in {"open", "resolved", "guarded"}
<1>a. \A p \in Page : SentAfterLeave(p) => SentAfterLeave(p)'
  BY SentAfterLeaveStays
<1>1. ASSUME UNCHANGED engineVars,
             \A k \in Conn : On(k)' => On(k) /\ conn[k].page = conn'[k].page
      PROVE  Attended'
  <2>1. OwnEntry'
    BY <1>1 DEF Attended, OwnEntry, Shared
  <2>2. IdleKept'
    BY <1>1, <1>a DEF Attended, IdleKept, Forsaken, Typed, EngineTyped
  <2> QED
    BY <2>1, <2>2 DEF Attended
<1>2. ASSUME NEW k \in Conn, NEW p \in Page, Connect(k, p) PROVE Attended'
  <2>1. /\ state' = [state EXCEPT ![p] = Joined(state[p], k)] /\ pages' = pages \cup {p}
        /\ \A j \in Conn : j # k => conn'[j] = conn[j]
        /\ conn'[k].page = p
    BY <1>2 DEF Connect, Typed, ConnTyped
  <2>2. /\ \A id \in ClientId : state'[p].clients[id] = IF id = ClientOf[k] THEN k
                                                        ELSE state[p].clients[id]
        /\ \A q \in Page : q # p => state'[q] = state[q]
    BY <2>1, Numbers, CollabAssumption DEF Joined, PageState, Typed, EngineTyped
  <2>3. OwnEntry'
    <3>1. ASSUME NEW j \in Conn, j # k, On(j)', ~Shared(ClientOf[j])
          PROVE  conn'[j].page \in pages' /\ state'[conn'[j].page].clients[ClientOf[j]] = j
      <4>1. conn[j].page \in pages /\ state[conn[j].page].clients[ClientOf[j]] = j
        BY <2>1, <3>1 DEF Attended, OwnEntry
      <4>2. ClientOf[j] # ClientOf[k] /\ ClientOf[j] \in ClientId /\ conn[j].page \in Page
        BY <3>1, <4>1, CollabAssumption DEF Shared, Typed, EngineTyped
      <4> QED
        BY <2>1, <2>2, <3>1, <4>1, <4>2
    <3>2. k \in Conn /\ conn'[k].page \in pages' /\ state'[conn'[k].page].clients[ClientOf[k]] = k
      BY <2>1, <2>2, CollabAssumption
    <3> QED
      BY <3>1, <3>2 DEF OwnEntry, Shared
  <2>4. ~Idle(state'[p])
    BY <2>2, CollabAssumption DEF Idle
  <2>5. IdleKept'
    BY <2>1, <2>2, <2>4, <1>a DEF Attended, IdleKept, Forsaken, Typed, EngineTyped
  <2> QED
    BY <2>3, <2>5 DEF Attended
<1>3. ASSUME NEW k \in Conn, ResolveFrame(k) \/ GuardFrame(k) \/ ContextEnds(k) PROVE Attended'
  <2>1. /\ UNCHANGED engineVars /\ On(k)
        /\ \E c \in Socket : conn' = [conn EXCEPT ![k] = c] /\ c.page = conn[k].page
    <3>1. UNCHANGED engineVars /\ On(k)
      BY <1>3 DEF ResolveFrame, GuardFrame, ContextEnds
    <3>2. /\ \A j \in Conn : j # k => conn'[j] = conn[j]
          /\ conn'[k].page = conn[k].page
      BY <1>3 DEF ResolveFrame, GuardFrame, ContextEnds, Typed, ConnTyped, Socket
    <3>3. conn' = [conn EXCEPT ![k] = conn'[k]] /\ conn'[k] \in Socket
      BY <3>2 DEF Typed, ConnTyped
    <3> QED
      BY <3>1, <3>2, <3>3
  <2>2. \A j \in Conn : On(j)' => On(j) /\ conn[j].page = conn'[j].page
    BY <2>1 DEF Typed, ConnTyped
  <2> QED
    BY <1>1, <2>1, <2>2
<1>4. ASSUME NEW k \in Conn, NEW carries \in BOOLEAN, ApplyFrame(k, carries) PROVE Attended'
  <2>0. PICK p \in Page, n \in Nat : p = conn[k].page /\ n = edits + 1
    BY <1>4 DEF ApplyFrame, Typed, ConnTyped, HistoryTyped
  <2>1. /\ On(k) /\ edits' = n /\ n \in 1..MaxEdits /\ pages' = pages \cup {p}
        /\ origin'[n] = [page |-> p, client |-> ClientOf[k], by |-> MemberOf[k],
                         found |-> Found(state[p], k)]
    BY <1>4, <2>0, CollabAssumption DEF ApplyFrame, Typed, HistoryTyped
  <2>2. /\ state'[p].clients = state[p].clients
        /\ state'[p].version = state[p].version + 1
        /\ state'[p].savedVersion = state[p].savedVersion
        /\ state'[p].snapshot = IF carries THEN n ELSE state[p].snapshot
        /\ \A q \in Page : q # p => state'[q] = state[q]
    BY <1>4, <2>0, Numbers, AppliedContent DEF ApplyFrame, Typed, EngineTyped
  <2>3. \A j \in Conn : On(j)' => On(j) /\ conn[j].page = conn'[j].page
    BY <1>4 DEF ApplyFrame, Typed, ConnTyped, Socket
  <2>4. OwnEntry'
    BY <2>1, <2>2, <2>3 DEF Attended, OwnEntry, Shared, Typed, EngineTyped
  <2>5. ASSUME Idle(state'[p]), ~Unsaved(state'[p]) PROVE Forsaken(p)'
    <3>1. Idle(state[p]) /\ state[p].clients[ClientOf[k]] = NoConn
      BY <2>2, <2>5, CollabAssumption DEF Idle
    <3>2. /\ state[p].version \in Nat /\ state[p].savedVersion \in Nat /\ state[p].snapshot \in Nat
      BY Numbers
    <3>3. state[p].snapshot = 0 /\ state[p].savedVersion = 0
      <4>1. CASE p \notin pages
        BY <4>1, EmptyContent DEF Durable, AbsentEmpty
      <4>2. CASE p \in pages
        BY <2>1, <2>2, <2>5, <3>1, <3>2, <4>2 DEF Attended, IdleKept, Forsaken, Unsaved
      <4> QED
        BY <4>1, <4>2
    <3>4. ~carries
      BY <2>1, <2>2, <2>5, <3>2, <3>3 DEF Unsaved
    <3>5. Shared(ClientOf[k])
      BY <2>0, <2>1, <3>1, CollabAssumption DEF Attended, OwnEntry
    <3>6. origin'[n].found = NoMember
      BY <2>1, <3>1, Numbers, FoundTyped
    <3>7. SentAfterLeave(p)'
      BY <2>1, <3>5, <3>6 DEF SentAfterLeave, AcceptedChanges, Shared
    <3> QED
      BY <2>2, <3>3, <3>4, <3>7 DEF Forsaken
  <2>6. IdleKept'
    BY <2>1, <2>2, <2>5, <1>a DEF Attended, IdleKept, Forsaken, Typed, EngineTyped
  <2> QED
    BY <2>4, <2>6 DEF Attended
<1>5. ASSUME NEW k \in Conn, Leave(k) PROVE Attended'
  <2> DEFINE p == conn[k].page
             st == Left(state[p], k)
  <2>1. p \in Page /\ On(k)
    BY <1>5 DEF Leave, Typed, ConnTyped
  <2>2. /\ \A id \in ClientId : st.clients[id] = IF id = ClientOf[k] THEN NoConn
                                                 ELSE state[p].clients[id]
        /\ Unsaved(st) = Unsaved(state[p])
    BY <2>1, Numbers, JoinLeaveContent DEF Left, PageState, SameContent, Unsaved
  <2>3. \A j \in Conn : On(j)' => /\ On(j) /\ conn[j].page = conn'[j].page
                                  /\ j # k
    <3>1. conn' = [conn EXCEPT ![k].pc = "leaving"] \/ conn' = [conn EXCEPT ![k] = Down]
      BY <1>5, Zenon DEF Leave
    <3> QED
      BY <3>1 DEF Typed, ConnTyped, Socket, Down
  <2>4. \A j \in Conn : On(j)' /\ conn[j].page = p /\ ~Shared(ClientOf[j]) =>
            st.clients[ClientOf[j]] = j
    <3> SUFFICES ASSUME NEW j \in Conn, On(j)', conn[j].page = p, ~Shared(ClientOf[j])
                 PROVE  st.clients[ClientOf[j]] = j
      OBVIOUS
    <3>1. On(j) /\ j # k
      BY <2>3
    <3>2. state[p].clients[ClientOf[j]] = j
      BY <3>1 DEF Attended, OwnEntry
    <3>3. ClientOf[j] # ClientOf[k] /\ ClientOf[j] \in ClientId
      BY <3>1, CollabAssumption DEF Shared
    <3> QED
      BY <2>2, <3>2, <3>3
  <2>5. CASE Idle(st) /\ Release(p)
    <3>1. \A j \in Conn : On(j)' /\ ~Shared(ClientOf[j]) => conn[j].page # p
      BY <2>4, <2>5, CollabAssumption DEF Idle
    <3> QED
      BY <2>1, <2>3, <2>5, <3>1, <1>a, AttendedReleased
  <2>6. CASE /\ state' = [state EXCEPT ![p] = st] /\ UNCHANGED pages
             /\ Idle(st) => Unsaved(st)
    <3>1. state'[p] = st /\ \A q \in Page : q # p => state'[q] = state[q]
      BY <2>1, <2>6 DEF Typed, EngineTyped
    <3>2. OwnEntry'
      <4> SUFFICES ASSUME NEW j \in Conn, On(j)', ~Shared(ClientOf[j])
                   PROVE  conn'[j].page \in pages' /\ state'[conn'[j].page].clients[ClientOf[j]] = j
        BY DEF OwnEntry, Shared
      <4>1. On(j) /\ conn[j].page = conn'[j].page
        BY <2>3
      <4>2. conn[j].page \in pages /\ state[conn[j].page].clients[ClientOf[j]] = j
        BY <4>1 DEF Attended, OwnEntry
      <4> HIDE DEF st
      <4> QED
        BY <2>4, <2>6, <3>1, <4>1, <4>2 DEF Typed, EngineTyped
    <3> HIDE DEF p, st
    <3>3. IdleKept'
      BY <2>6, <3>1, <1>a DEF Attended, IdleKept, Forsaken, Typed, EngineTyped
    <3> QED
      BY <3>2, <3>3 DEF Attended
  <2>7. CASE UNCHANGED engineVars
    BY <1>1, <2>3, <2>7
  <2> QED
    BY <1>5, <2>1, <2>5, <2>6, <2>7, Zenon DEF Leave
<1>6. CASE FlushTick \/ FlushNext \/ \E p \in Page : GateChanges(p)
  BY <1>1, <1>6 DEF FlushTick, FlushNext, GateChanges
<1>7. ASSUME NEW p \in Page, Release(p), Idle(state[p]),
             \A k \in Conn : On(k)' => On(k) /\ conn[k].page = conn'[k].page
      PROVE  Attended'
  <2>1. \A k \in Conn : On(k) /\ ~Shared(ClientOf[k]) => conn[k].page # p
    BY <1>7, CollabAssumption DEF Idle, Attended, OwnEntry
  <2> QED
    BY <1>7, <2>1, <1>a, AttendedReleased
<1>8. CASE DropIdle
  <2>1. flusher.page \in Page /\ UNCHANGED conn
    BY <1>8 DEF DropIdle, Typed, FlusherTyped
  <2>2. CASE Release(flusher.page) /\ Idle(state[flusher.page])
    BY <1>7, <2>1, <2>2
  <2>3. CASE UNCHANGED engineVars
    BY <1>1, <2>1, <2>3
  <2> QED
    BY <1>8, <2>2, <2>3 DEF DropIdle, Droppable
<1>9. ASSUME NEW w \in Saver, SavePage(w) PROVE Attended'
  <2>1. \A j \in Conn : On(j)' => On(j) /\ conn[j].page = conn'[j].page
    <3>1. UNCHANGED conn \/ (w \in Conn /\ conn' = [conn EXCEPT ![w] = Down])
      <4>1. UNCHANGED conn \/ \E failed \in BOOLEAN : SavePageReturns(w, failed)
        BY <1>9 DEF SavePage, SaveNothing, SaveBegin, SaveWrites, SaveRefused, SaveErrs, SaveDone,
                    SaveFailed
      <4> QED
        BY <4>1 DEF SavePageReturns
    <3> QED
      BY <3>1 DEF Down, Typed, ConnTyped
  <2>2. CASE SaveDone(w)
    <3> DEFINE p == save[w].page
               st == Marked(state[p], save[w].ver)
    <3>1. p \in Page /\ st.clients = state[p].clients /\ (Idle(st) = Idle(state[p]))
      BY <2>2, Numbers, MarkedContent DEF SaveDone, Idle
    <3>2. CASE Release(p) /\ Idle(st)
      BY <1>7, <2>1, <3>1, <3>2
    <3>3. CASE UNCHANGED engineVars
      BY <1>1, <2>1, <3>3
    <3>4. CASE /\ state' = [state EXCEPT ![p] = st] /\ UNCHANGED pages
               /\ ~Idle(st) \/ Unsaved(st)
      <4>1. state'[p] = st /\ \A q \in Page : q # p => state'[q] = state[q]
        BY <3>1, <3>4 DEF Typed, EngineTyped
      <4> HIDE DEF st
      <4>2. OwnEntry'
        BY <2>1, <3>1, <3>4, <4>1 DEF Attended, OwnEntry, Shared, Typed, EngineTyped
      <4> HIDE DEF p
      <4>3. IdleKept'
        BY <3>4, <4>1, <1>a DEF Attended, IdleKept, Forsaken, Typed, EngineTyped
      <4> QED
        BY <4>2, <4>3 DEF Attended
    <3> QED
      BY <2>2, <3>2, <3>3, <3>4, Zenon DEF SaveDone, MarkSaved
  <2>3. CASE UNCHANGED engineVars
    BY <1>1, <2>1, <2>3
  <2> QED
    BY <1>9, <2>2, <2>3 DEF SavePage, SaveNothing, SaveBegin, SaveWrites, SaveRefused, SaveErrs,
                            SaveFailed
<1>10. CASE Restart
  BY <1>10 DEF Restart, Attended, OwnEntry, IdleKept, Down
<1>11. CASE UNCHANGED vars
  BY <1>1, <1>11 DEF vars
<1> QED
  BY <1>2, <1>3, <1>4, <1>5, <1>6, <1>8, <1>9, <1>10, <1>11 DEF Next

(* The engine keeps a page nobody is on only while it has something to save, *)
(* or when it never had: the page a change made again after the Leave of     *)
(* its own client_id.                                                       *)
THEOREM NothingIdleKept == Spec => []IdleOnlyWhileUnsaved
<1>1. Typed /\ Durable /\ Attended /\ [Next]_vars /\ Typed' => Attended'
  BY AttendedStep
<1>2. Attended => IdleOnlyWhileUnsaved
  BY DEF Attended, IdleKept, Forsaken, IdleOnlyWhileUnsaved
<1> QED
  BY <1>1, <1>2, TypedInit, TypedStep, DurableInit, DurableStep, AttendedInit, PTL DEF Spec
-----------------------------------------------------------------------------
(* Attribution.                                                             *)

Attributed(p, snap, by) ==
    snap # 0 => LET c == origin[snap]
                IN  /\ snap <= edits /\ c.page = p
                    /\ c.found = c.by \/ Shared(c.client)
                    /\ \/ by = c.found
                       \/ c.found = NoMember /\ NamedBefore(p, snap, by)

Authored ==
    /\ \A p \in Page : /\ Attributed(p, state[p].snapshot, state[p].snapshotBy)
                       /\ state[p].snapshot = 0 => state[p].snapshotBy = NoMember
                       /\ Attributed(p, db[p].snap, db[p].by)
    /\ \A w \in Saver : Attributed(save[w].page, save[w].snap, save[w].by)

LEMMA AuthoredInit == Init => Authored
BY EmptyContent DEF Init, Authored, Attributed, NoSave

(* Snapshots move between the engine, the savers and the database together  *)
(* with their author, or are forgotten.                                     *)
LEMMA AuthoredKept ==
    ASSUME Typed, Authored, UNCHANGED <<edits, origin>>,
           \A p \in Page : \/ state'[p].snapshot = 0 /\ state'[p].snapshotBy = NoMember
                           \/ /\ state'[p].snapshot = state[p].snapshot
                              /\ state'[p].snapshotBy = state[p].snapshotBy,
           \A w \in Saver : \/ save'[w].snap = 0
                            \/ /\ save'[w].page = save[w].page /\ save'[w].snap = save[w].snap
                               /\ save'[w].by = save[w].by
                            \/ /\ save'[w].page \in Page
                               /\ save'[w].snap = state[save'[w].page].snapshot
                               /\ save'[w].by = state[save'[w].page].snapshotBy,
           \A p \in Page : \/ db'[p] = db[p]
                           \/ \E w \in Saver : /\ p = save[w].page /\ db'[p].snap = save[w].snap
                                               /\ db'[p].by = save[w].by
    PROVE  Authored'
<1>1. \A p, snap, by : Attributed(p, snap, by) => Attributed(p, snap, by)'
  BY DEF Attributed, NamedBefore, Shared
<1>2. \A p \in Page : /\ Attributed(p, state[p].snapshot, state[p].snapshotBy)'
                     /\ (state[p].snapshot = 0 => state[p].snapshotBy = NoMember)'
  <2> SUFFICES ASSUME NEW p \in Page
               PROVE  /\ Attributed(p, state[p].snapshot, state[p].snapshotBy)'
                      /\ (state[p].snapshot = 0 => state[p].snapshotBy = NoMember)'
    OBVIOUS
  <2>1. CASE state'[p].snapshot = 0 /\ state'[p].snapshotBy = NoMember
    BY <2>1 DEF Attributed
  <2>2. CASE /\ state'[p].snapshot = state[p].snapshot
             /\ state'[p].snapshotBy = state[p].snapshotBy
    BY <2>2, <1>1 DEF Authored
  <2> QED
    BY <2>1, <2>2
<1>3. ASSUME NEW p \in Page PROVE Attributed(p, db[p].snap, db[p].by)'
  <2>1. CASE db'[p] = db[p]
    BY <2>1, <1>1 DEF Authored
  <2>2. ASSUME NEW w \in Saver, p = save[w].page, db'[p].snap = save[w].snap,
               db'[p].by = save[w].by
        PROVE  Attributed(p, db[p].snap, db[p].by)'
    BY <2>2, <1>1 DEF Authored
  <2> QED
    BY <2>1, <2>2
<1>4. ASSUME NEW w \in Saver PROVE Attributed(save[w].page, save[w].snap, save[w].by)'
  <2>1. CASE save'[w].snap = 0
    BY <2>1 DEF Attributed
  <2>2. CASE /\ save'[w].page = save[w].page /\ save'[w].snap = save[w].snap
             /\ save'[w].by = save[w].by
    BY <2>2, <1>1 DEF Authored
  <2>3. CASE /\ save'[w].page \in Page /\ save'[w].snap = state[save'[w].page].snapshot
             /\ save'[w].by = state[save'[w].page].snapshotBy
    <3> DEFINE q == save'[w].page
    <3>1. Attributed(q, state[q].snapshot, state[q].snapshotBy)
      BY <2>3 DEF Authored
    <3>2. Attributed(q, save'[w].snap, save'[w].by)
      BY <2>3, <3>1
    <3> QED
      BY <3>2, <1>1 DEF Attributed
  <2> QED
    BY <2>1, <2>2, <2>3
<1> QED
  BY <1>2, <1>3, <1>4 DEF Authored

LEMMA AuthoredStep ==
    Typed /\ Typed' /\ Attended /\ Authored /\ [Next]_vars => Authored'
<1> SUFFICES ASSUME Typed, Typed', Attended, Authored, [Next]_vars PROVE Authored'
  OBVIOUS
<1> USE DEF engineVars, saverVars, historyVars, boundVars
<1>1. ASSUME UNCHANGED <<save, db, edits, origin>>,
             NEW p \in Page,
             \/ UNCHANGED state
             \/ Release(p)
             \/ \E st \in PageState : /\ state' = [state EXCEPT ![p] = st]
                                      /\ SameContent(st, state[p])
      PROVE  Authored'
  <2>1. \A q \in Page : \/ state'[q].snapshot = 0 /\ state'[q].snapshotBy = NoMember
                        \/ /\ state'[q].snapshot = state[q].snapshot
                           /\ state'[q].snapshotBy = state[q].snapshotBy
    BY <1>1, EmptyContent DEF Release, Typed, EngineTyped, SameContent
  <2> QED
    BY <1>1, <2>1, AuthoredKept
<1>2. ASSUME NEW k \in Conn, NEW p \in Page, Connect(k, p) PROVE Authored'
  BY <1>1, <1>2, Numbers, JoinLeaveApplyClosed, JoinLeaveContent DEF Connect
<1>3. ASSUME NEW k \in Conn, NEW carries \in BOOLEAN, ApplyFrame(k, carries) PROVE Authored'
  <2>0. PICK p \in Page, n \in Nat : p = conn[k].page /\ n = edits + 1
    BY <1>3 DEF ApplyFrame, Typed, ConnTyped, HistoryTyped
  <2>1. /\ edits' = n /\ edits < n /\ n \in 1..MaxEdits /\ edits \in Nat /\ UNCHANGED <<save, db>>
        /\ origin'[n] = [page |-> p, client |-> ClientOf[k], by |-> MemberOf[k],
                         found |-> Found(state[p], k)]
        /\ \A m : m # n => origin'[m] = origin[m]
    BY <1>3, <2>0, CollabAssumption DEF ApplyFrame, Typed, ConnTyped, HistoryTyped
  <2>2. Found(state[p], k) = MemberOf[k] \/ Shared(ClientOf[k])
    BY <1>3, <2>0, Numbers, FoundTyped DEF ApplyFrame, Attended, OwnEntry
  <2>3. /\ state'[p].snapshot = IF carries THEN n ELSE state[p].snapshot
        /\ state'[p].snapshotBy = IF carries /\ Found(state[p], k) # NoMember
                                  THEN Found(state[p], k) ELSE state[p].snapshotBy
        /\ \A q \in Page : q # p => state'[q] = state[q]
    <3>1. state' = [state EXCEPT ![p] = Applied(state[p], k, n, carries)]
      BY <1>3, <2>0 DEF ApplyFrame
    <3>2. /\ Applied(state[p], k, n, carries).snapshot = IF carries THEN n ELSE state[p].snapshot
          /\ Applied(state[p], k, n, carries).snapshotBy =
                 IF carries /\ Found(state[p], k) # NoMember
                 THEN Found(state[p], k) ELSE state[p].snapshotBy
      BY <2>1, Numbers DEF Applied, PageState
    <3> QED
      BY <2>1, <3>1, <3>2 DEF Typed, EngineTyped
  <2>4. \A q, snap, by : snap \in Nat /\ Attributed(q, snap, by) => Attributed(q, snap, by)'
    BY <2>1 DEF Attributed, NamedBefore, Shared
  <2>5. ASSUME carries PROVE Attributed(p, n, state[p].snapshotBy)'
    <3> DEFINE by == state'[p].snapshotBy
    <3>0. n # 0 /\ n <= edits' /\ origin'[n].page = p
          /\ (origin'[n].found = origin'[n].by \/ Shared(origin'[n].client))
      BY <2>1, <2>2
    <3>1. CASE by = Found(state[p], k)
      BY <2>1, <3>0, <3>1 DEF Attributed, NamedBefore, Shared
    <3>2. CASE Found(state[p], k) = NoMember /\ by = state[p].snapshotBy /\ by # NoMember
      <4> DEFINE m == state[p].snapshot
      <4>1. m \in 1..edits /\ Attributed(p, m, by)
        BY <3>2, Numbers DEF Authored, Attributed
      <4>2. \E i \in 1..m : origin[i].page = p /\ origin[i].found = by
        BY <4>1 DEF Attributed, NamedBefore
      <4>3. \E i \in 1..n : origin'[i].page = p /\ origin'[i].found = by
        BY <2>1, <4>1, <4>2
      <4> QED
        BY <2>1, <3>0, <3>2, <4>3 DEF Attributed, NamedBefore, Shared
    <3> QED
      BY <2>3, <2>5, <3>1, <3>2
  <2>6. \A q \in Page : /\ Attributed(q, state[q].snapshot, state[q].snapshotBy)'
                        /\ (state[q].snapshot = 0 => state[q].snapshotBy = NoMember)'
    <3> SUFFICES ASSUME NEW q \in Page
                 PROVE  /\ Attributed(q, state[q].snapshot, state[q].snapshotBy)'
                        /\ (state[q].snapshot = 0 => state[q].snapshotBy = NoMember)'
      OBVIOUS
    <3>1. CASE q = p /\ carries
      BY <2>1, <2>3, <2>5, <3>1 DEF Attributed
    <3>2. CASE ~(q = p /\ carries)
      <4>1. state'[q].snapshot = state[q].snapshot /\ state'[q].snapshotBy = state[q].snapshotBy
        BY <2>3, <3>2
      <4>2. Attributed(q, state[q].snapshot, state[q].snapshotBy) /\ state[q].snapshot \in Nat
        BY Numbers DEF Authored
      <4>3. Attributed(q, state[q].snapshot, state[q].snapshotBy)'
        BY <2>4, <4>1, <4>2
      <4> QED
        BY <4>1, <4>3 DEF Authored
    <3> QED
      BY <3>1, <3>2
  <2>7. /\ \A q \in Page : Attributed(q, db[q].snap, db[q].by)'
        /\ \A w \in Saver : Attributed(save[w].page, save[w].snap, save[w].by)'
    BY <2>1, <2>4, Numbers DEF Authored
  <2> QED
    BY <2>6, <2>7 DEF Authored
<1>4. ASSUME NEW k \in Conn, Leave(k) PROVE Authored'
  <2> DEFINE p == conn[k].page
  <2>1. p \in Page /\ UNCHANGED <<save, db, edits, origin>>
    BY <1>4 DEF Leave, Typed, ConnTyped
  <2>2. Left(state[p], k) \in PageState /\ SameContent(Left(state[p], k), state[p])
    BY <2>1, Numbers, JoinLeaveApplyClosed, JoinLeaveContent
  <2>3. Release(p) \/ state' = [state EXCEPT ![p] = Left(state[p], k)] \/ UNCHANGED state
    BY <1>4, Zenon DEF Leave
  <2> QED
    BY <1>1, <2>1, <2>2, <2>3
<1>5. CASE DropIdle
  <2>1. flusher.page \in Page /\ UNCHANGED <<save, db, edits, origin>>
    BY <1>5 DEF DropIdle, Typed, FlusherTyped
  <2>2. Release(flusher.page) \/ UNCHANGED state
    BY <1>5 DEF DropIdle
  <2> QED
    BY <1>1, <2>1, <2>2
<1>6. ASSUME UNCHANGED <<state, save, db, edits, origin>> PROVE Authored'
  BY <1>6, AuthoredKept
<1>7. ASSUME NEW w \in Saver, SavePage(w) PROVE Authored'
  <2>1. ASSUME NEW p \in Page, SaveNothing(w, p) PROVE Authored'
    BY <1>6, <2>1 DEF SaveNothing
  <2>2. ASSUME NEW p \in Page, SaveBegin(w, p) PROVE Authored'
    <3>1. /\ save'[w].page = p /\ save'[w].snap = state[p].snapshot
          /\ save'[w].by = state[p].snapshotBy
          /\ \A v \in Saver : v # w => save'[v] = save[v]
      BY <2>2 DEF SaveBegin, Typed, SaveTyped
    <3> QED
      BY <2>2, <3>1, AuthoredKept DEF SaveBegin
  <2>3. ASSUME save[w].pc = "read", NEW pc \in {"wrote", "failed"},
               save' = [save EXCEPT ![w].pc = pc],
               UNCHANGED db \/ db' = Stored(w),
               UNCHANGED <<state, edits, origin>>
        PROVE  Authored'
    <3>1. \A v \in Saver : /\ save'[v].page = save[v].page /\ save'[v].snap = save[v].snap
                           /\ save'[v].by = save[v].by
      BY <2>3 DEF Typed, SaveTyped, SaveState
    <3>2. \A q \in Page : \/ db'[q] = db[q]
                          \/ /\ q = save[w].page /\ db'[q].snap = save[w].snap
                             /\ db'[q].by = save[w].by
      BY <2>3 DEF Stored, Typed, StoreTyped
    <3> QED
      BY <2>3, <3>1, <3>2, AuthoredKept
  <2>4. CASE SaveWrites(w) \/ SaveRefused(w) \/ SaveErrs(w)
    BY <2>3, <2>4 DEF SaveWrites, SaveRefused, SaveErrs
  <2>5. \A v \in Saver : save' = [save EXCEPT ![w] = NoSave] =>
            save'[v].snap = 0 \/ save'[v] = save[v]
    BY DEF Typed, SaveTyped, NoSave
  <2>6. CASE SaveFailed(w)
    BY <2>5, <2>6, AuthoredKept DEF SaveFailed
  <2>7. CASE SaveDone(w)
    <3> DEFINE p == save[w].page
               st == Marked(state[p], save[w].ver)
    <3>1. p \in Page /\ SameContent([st EXCEPT !.savedVersion = state[p].savedVersion], state[p])
          /\ st.snapshot = state[p].snapshot /\ st.snapshotBy = state[p].snapshotBy
      BY <2>7, Numbers, MarkedContent DEF SaveDone, SameContent, Marked, PageState
    <3> HIDE DEF st
    <3>2. UNCHANGED state \/ Release(p) \/ state' = [state EXCEPT ![p] = st]
      BY <2>7, Zenon DEF SaveDone, MarkSaved, st
    <3>3. \A q \in Page : \/ state'[q].snapshot = 0 /\ state'[q].snapshotBy = NoMember
                          \/ /\ state'[q].snapshot = state[q].snapshot
                             /\ state'[q].snapshotBy = state[q].snapshotBy
      BY <3>1, <3>2, EmptyContent DEF Release, Typed, EngineTyped
    <3> QED
      BY <2>5, <2>7, <3>3, AuthoredKept DEF SaveDone
  <2> QED
    BY <1>7, <2>1, <2>2, <2>4, <2>6, <2>7 DEF SavePage
<1>8. CASE Restart
  BY <1>8, EmptyContent, AuthoredKept DEF Restart, NoSave
<1>9. CASE UNCHANGED vars
  BY <1>6, <1>9 DEF vars
<1> QED
  <2>1. ASSUME NEW k \in Conn, ResolveFrame(k) \/ GuardFrame(k) \/ ContextEnds(k) PROVE Authored'
    BY <1>6, <2>1 DEF ResolveFrame, GuardFrame, ContextEnds
  <2>2. ASSUME FlushTick \/ FlushNext \/ \E p \in Page : GateChanges(p) PROVE Authored'
    BY <1>6, <2>2 DEF FlushTick, FlushNext, GateChanges
  <2> QED
    BY <1>2, <1>3, <1>4, <1>5, <1>7, <1>8, <1>9, <2>1, <2>2 DEF Next

(* The stored content of a page was made on that page by the member          *)
(* updated_by names; under a shared client_id, it names the member who holds *)
(* the entry or was named before.                                           *)
THEOREM StoredAuthorIsWriter == Spec => []AuthorIsWriter
<1>1. Typed /\ Durable /\ Attended /\ [Next]_vars /\ Typed' => Attended'
  BY AttendedStep
<1>2. Authored => AuthorIsWriter
  BY DEF Authored, Attributed, AuthorIsWriter
<1> QED
  BY <1>1, <1>2, TypedInit, TypedStep, DurableInit, DurableStep, AttendedInit, AuthoredInit,
     AuthoredStep, PTL DEF Spec
=============================================================================
