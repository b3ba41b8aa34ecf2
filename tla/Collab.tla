------------------------------- MODULE Collab -------------------------------
(***************************************************************************)
(* The server side of a live editing session: internal/collab/ot.go (the   *)
(* engine's page states), handler.go (one goroutine per WebSocket that     *)
(* resolves, guards and applies each change frame) and saver.go (the       *)
(* AutoSaver that writes snapshots behind the edits, from a 5s tick and    *)
(* from the goroutine of the last client to leave).                        *)
(*                                                                         *)
(* A snapshot is the number of the change that carried it, so the order in *)
(* which changes were committed can be read off the stored content; 0 is   *)
(* the empty snapshot.  Outbound messages (presence, ack, broadcast,       *)
(* cursor) never block the engine nor change its state and are left out,   *)
(* as is the operational transform, which does not touch the snapshot.     *)
(***************************************************************************)
EXTENDS EditGuard, Naturals

CONSTANTS Page, NoPage,
          Conn,           \* WebSocket connections (one ServeWS call each)
          NoConn, Tick,   \* no connection; the AutoSaver's own goroutine
          ClientId,
          ClientOf,       \* the client_id each connection dials with
          MemberOf,       \* the verified member behind each connection
          MaxEdits,       \* bound: change frames applied
          MaxFailures,    \* bound: database calls that fail
          MaxGateChanges, \* bound: lock, approval, session and grant changes
          MaxRestarts     \* bound: process restarts

ASSUME CollabAssumption ==
    /\ NoPage \notin Page
    /\ NoConn \notin Conn
    /\ Tick \notin Conn \cup {NoConn}
    /\ ClientOf \in [Conn -> ClientId]
    /\ MemberOf \in [Conn -> Member]
    /\ MaxEdits \in Nat
    /\ MaxFailures \in Nat
    /\ MaxGateChanges \in Nat
    /\ MaxRestarts \in Nat

VARIABLES
    pages,     \* OTEngine.pages: the pages that have a PageState
    state,     \* their PageState (EmptyState where there is none)
    conn,      \* ServeWS: where each connection's goroutine is
    flusher,   \* AutoSaver.flush: the pages still to save, the one at hand
    mu,        \* AutoSaver.mu: the goroutine that holds it
    save,      \* the locals of each goroutine's savePage
    gate,      \* what the guards read in the database for each page
    db,        \* pages.content and updated_by as the AutoSaver last wrote them
    edits,     \* number of changes applied so far
    latest,    \* history: the last snapshot this process applied to each
               \* page, or what the database held when it started
    origin,    \* history: the page of each change, who sent it under which
               \* client_id, and the member Apply found under that id
    discarded, \* history: the pages DropIdle released
    failures, gateChanges, restarts   \* counters of the bounds

engineVars == <<pages, state>>
saverVars == <<flusher, mu, save, db>>
historyVars == <<edits, latest, origin>>
boundVars == <<failures, gateChanges, restarts>>
vars == <<engineVars, conn, saverVars, gate, historyVars, discarded, boundVars>>

Snapshot == 0..MaxEdits

PageState == [version: Nat, snapshot: Snapshot, snapshotBy: Member \cup {NoMember},
              savedVersion: Nat, clients: [ClientId -> Conn \cup {NoConn}]]

EmptyState == [version |-> 0, snapshot |-> 0, snapshotBy |-> NoMember,
               savedVersion |-> 0, clients |-> [id \in ClientId |-> NoConn]]

Gate == [row: LockRow, sess: Session, tier: SUBSET Member]

OpenGate == [row |-> Unlocked("draft"), sess |-> NoSession, tier |-> Member]

Socket == [pc: {"down", "open", "resolved", "guarded", "leaving"},
           page: Page \cup {NoPage}, ctx: {"live", "cancelled"}]

Down == [pc |-> "down", page |-> NoPage, ctx |-> "live"]

Flusher == [pc: {"wait", "loop", "saving", "drop"}, todo: SUBSET Page,
            page: Page \cup {NoPage}]

Resting == [pc |-> "wait", todo |-> {}, page |-> NoPage]

Saver == Conn \cup {Tick}

SaveState == [pc: {"idle", "read", "wrote", "failed"}, page: Page \cup {NoPage},
              snap: Snapshot, ver: Nat, by: Member \cup {NoMember}]

NoSave == [pc |-> "idle", page |-> NoPage, snap |-> 0, ver |-> 0, by |-> NoMember]

Content == [snap: Snapshot, by: Member \cup {NoMember}]

Change == [page: Page \cup {NoPage}, client: ClientId \cup {NoConn},
           by: Member \cup {NoMember}, found: Member \cup {NoMember}]

NoChange == [page |-> NoPage, client |-> NoConn, by |-> NoMember, found |-> NoMember]

TypeOK ==
    /\ pages \subseteq Page
    /\ state \in [Page -> PageState]
    /\ conn \in [Conn -> Socket]
    /\ flusher \in Flusher
    /\ mu \in Saver \cup {NoConn}
    /\ save \in [Saver -> SaveState]
    /\ gate \in [Page -> Gate]
    /\ db \in [Page -> Content]
    /\ edits \in 0..MaxEdits
    /\ latest \in [Page -> Snapshot]
    /\ origin \in [1..MaxEdits -> Change]
    /\ discarded \subseteq Page
    /\ failures \in Nat /\ gateChanges \in Nat /\ restarts \in Nat

Init ==
    /\ pages = {}
    /\ state = [p \in Page |-> EmptyState]
    /\ conn = [k \in Conn |-> Down]
    /\ flusher = Resting
    /\ mu = NoConn
    /\ save = [w \in Saver |-> NoSave]
    /\ gate = [p \in Page |-> OpenGate]
    /\ db = [p \in Page |-> [snap |-> 0, by |-> NoMember]]
    /\ edits = 0
    /\ latest = [p \in Page |-> 0]
    /\ origin = [n \in 1..MaxEdits |-> NoChange]
    /\ discarded = {}
    /\ failures = 0 /\ gateChanges = 0 /\ restarts = 0

-----------------------------------------------------------------------------
(* The engine (ot.go).  Every operation holds OTEngine.mu throughout.      *)

(* PageState.unsaved *)
Unsaved(st) == st.snapshot # 0 /\ st.version > st.savedVersion

Idle(st) == \A id \in ClientId : st.clients[id] = NoConn

(* delete(e.pages, pageID) *)
Release(p) == /\ pages' = pages \ {p}
              /\ state' = [state EXCEPT ![p] = EmptyState]

(* ServeWS refuses a page outside the caller's workspaces, then Join        *)
(* installs the client under its client_id, over whoever held that id.      *)
Joined(st, k) == [st EXCEPT !.clients[ClientOf[k]] = k]

Connect(k, p) ==
    /\ conn[k].pc = "down"
    /\ conn' = [conn EXCEPT ![k] = [pc |-> "open", page |-> p, ctx |-> "live"]]
    /\ pages' = pages \cup {p}
    /\ state' = [state EXCEPT ![p] = Joined(state[p], k)]
    /\ UNCHANGED <<saverVars, gate, historyVars, discarded, boundVars>>

(* Leave: the entry under the connection's client_id is removed, whichever *)
(* connection installed it.  An idle page is kept while it is unsaved, and  *)
(* then the leaving goroutine goes on to saveIdle; any other idle page is   *)
(* released.                                                                *)
Left(st, k) == [st EXCEPT !.clients[ClientOf[k]] = NoConn]

Leave(k) ==
    LET p == conn[k].page
        present == p \in pages /\ state[p].clients[ClientOf[k]] # NoConn
        left == Left(state[p], k)
    IN  /\ conn[k].pc = "open"
        /\ \/ /\ present /\ Idle(left) /\ Unsaved(left)
              /\ state' = [state EXCEPT ![p] = left]
              /\ conn' = [conn EXCEPT ![k].pc = "leaving"]
              /\ UNCHANGED pages
           \/ /\ present /\ Idle(left) /\ ~Unsaved(left)
              /\ Release(p)
              /\ conn' = [conn EXCEPT ![k] = Down]
           \/ /\ present /\ ~Idle(left)
              /\ state' = [state EXCEPT ![p] = left]
              /\ conn' = [conn EXCEPT ![k] = Down]
              /\ UNCHANGED pages
           \/ /\ ~present
              /\ conn' = [conn EXCEPT ![k] = Down]
              /\ UNCHANGED engineVars
        /\ UNCHANGED <<saverVars, gate, historyVars, discarded, boundVars>>

(* The socket's context ends while its read loop goes on: writePump saw a   *)
(* write error, or its channel closed by the Leave of another connection    *)
(* with the same client_id, or the 30s deadline passed that main.go's       *)
(* middleware.Timeout puts on the upgrade request's context.                *)
ContextEnds(k) ==
    /\ conn[k].pc \in {"open", "resolved", "guarded"}
    /\ conn[k].ctx = "live"
    /\ conn' = [conn EXCEPT ![k].ctx = "cancelled"]
    /\ UNCHANGED <<engineVars, saverVars, gate, historyVars, discarded, boundVars>>

-----------------------------------------------------------------------------
(* A change frame (dispatch): tier, then lock guard, then Apply.            *)

(* ResolveSession re-reads roster and grants; it fails closed.              *)
TierResolves(k) ==
    conn[k].ctx = "live" /\ MemberOf[k] \in gate[conn[k].page].tier

ResolveFrame(k) ==
    /\ conn[k].pc = "open"
    /\ edits < MaxEdits
    /\ TierResolves(k)
    /\ conn' = [conn EXCEPT ![k].pc = "resolved"]
    /\ UNCHANGED <<engineVars, saverVars, gate, historyVars, discarded, boundVars>>

(* The guard's verdict rejects the frame; an error of the guard, such as    *)
(* the one a cancelled context makes, lets it through.                      *)
GuardFrame(k) ==
    LET allowed == LockCanEdit(gate[conn[k].page].row, MemberOf[k], FALSE)
    IN  /\ conn[k].pc = "resolved"
        /\ \/ /\ conn[k].ctx = "live"
              /\ conn' = [conn EXCEPT ![k].pc = IF allowed THEN "guarded" ELSE "open"]
              /\ UNCHANGED failures
           \/ /\ conn[k].ctx = "cancelled"
              /\ conn' = [conn EXCEPT ![k].pc = "guarded"]
              /\ UNCHANGED failures
           \/ /\ failures < MaxFailures
              /\ failures' = failures + 1
              /\ conn' = [conn EXCEPT ![k].pc = "guarded"]
        /\ UNCHANGED <<engineVars, saverVars, gate, historyVars, discarded,
                       gateChanges, restarts>>

(* OTEngine.Apply: the next version; the snapshot, if the frame carries     *)
(* one, and its author if the sender's client entry is still there.         *)
AppliedNamingTheClient(st, k, n, carries) ==  \* mutant: c.ID for c.MemberID
    [st EXCEPT !.version = @ + 1, !.snapshot = IF carries THEN n ELSE @,
               !.snapshotBy = IF carries THEN ClientOf[k] ELSE @]

AppliedKeepingAuthor(st, k, n, carries) ==    \* mutant: the session's first author
    [st EXCEPT !.version = @ + 1, !.snapshot = IF carries THEN n ELSE @,
               !.snapshotBy = IF carries /\ @ = NoMember THEN MemberOf[k] ELSE @]

(* The member of the client entry under k's client_id, if there is one. *)
Found(st, k) == LET entry == st.clients[ClientOf[k]]
                IN  IF entry = NoConn THEN NoMember ELSE MemberOf[entry]

Applied(st, k, n, carries) ==
    [st EXCEPT !.version = @ + 1, !.snapshot = IF carries THEN n ELSE @,
               !.snapshotBy = IF carries /\ Found(st, k) # NoMember THEN Found(st, k) ELSE @]

ApplyFrame(k, carries) ==
    LET p == conn[k].page
        n == edits + 1
    IN  /\ conn[k].pc = "guarded"
        /\ edits < MaxEdits
        /\ pages' = pages \cup {p}
        /\ state' = [state EXCEPT ![p] = Applied(state[p], k, n, carries)]
        /\ conn' = [conn EXCEPT ![k].pc = "open"]
        /\ edits' = n
        /\ latest' = [latest EXCEPT ![p] = IF carries THEN n ELSE @]
        /\ origin' = [origin EXCEPT ![n] = [page |-> p, client |-> ClientOf[k],
                                           by |-> MemberOf[k], found |-> Found(state[p], k)]]
        /\ UNCHANGED <<saverVars, gate, discarded, boundVars>>

-----------------------------------------------------------------------------
(* The AutoSaver (saver.go).  Two kinds of goroutine call savePage: the    *)
(* tick loop, and a connection whose Leave returned onIdle (saveIdle).     *)

DirtyPagesOnceIdle ==   \* mutant: saves only what the last client left behind
    {p \in pages : Unsaved(state[p]) /\ Idle(state[p])}

(* OTEngine.DirtyPages *)
DirtyPages == {p \in pages : Unsaved(state[p])}

FlushTick ==
    /\ flusher.pc = "wait"
    /\ DirtyPages # {}
    /\ flusher' = [flusher EXCEPT !.pc = "loop", !.todo = DirtyPages]
    /\ UNCHANGED <<engineVars, conn, mu, save, db, gate, historyVars, discarded, boundVars>>

FlushNext ==
    /\ flusher.pc = "loop"
    /\ \/ \E p \in flusher.todo :
             flusher' = [pc |-> "saving", todo |-> flusher.todo \ {p}, page |-> p]
       \/ /\ flusher.todo = {}
          /\ flusher' = Resting
    /\ UNCHANGED <<engineVars, conn, mu, save, db, gate, historyVars, discarded, boundVars>>

(* The page a goroutine is in savePage for. *)
InSavePage(w, p) ==
    \/ w = Tick /\ flusher.pc = "saving" /\ flusher.page = p
    \/ w \in Conn /\ conn[w].pc = "leaving" /\ conn[w].page = p

(* savePage returns to its caller: the tick loop goes on (to DropIdle if   *)
(* it got an error), saveIdle ignores the result and the connection ends.  *)
SavePageReturns(w, failed) ==
    \/ /\ w = Tick
       /\ flusher' = [flusher EXCEPT !.pc = IF failed THEN "drop" ELSE "loop"]
       /\ UNCHANGED conn
    \/ /\ w \in Conn
       /\ conn' = [conn EXCEPT ![w] = Down]
       /\ UNCHANGED flusher

TakesNoMutex(w) == mu' = w   \* mutant: s.mu is not held across the save

TakesMutex(w) == mu = NoConn /\ mu' = w

(* savePage takes the mutex and reads unsavedSnapshot: nothing to save ... *)
SaveNothing(w, p) ==
    /\ mu = NoConn /\ save[w].pc = "idle"
    /\ InSavePage(w, p)
    /\ p \notin DirtyPages
    /\ SavePageReturns(w, FALSE)
    /\ UNCHANGED <<engineVars, mu, save, db, gate, historyVars, discarded, boundVars>>

(* ... or a snapshot, its version and its author. *)
SaveBegin(w, p) ==
    /\ save[w].pc = "idle"
    /\ InSavePage(w, p)
    /\ p \in DirtyPages
    /\ TakesMutex(w)
    /\ save' = [save EXCEPT ![w] = [pc |-> "read", page |-> p, snap |-> state[p].snapshot,
                                   ver |-> state[p].version, by |-> state[p].snapshotBy]]
    /\ UNCHANGED <<engineVars, conn, flusher, db, gate, historyVars, discarded, boundVars>>

SaveAllowed(w) == LET g == gate[save[w].page]
                  IN  CompositeCanEdit(g.row, g.sess, save[w].by, FALSE)

Stored(w) == [db EXCEPT ![save[w].page] = [snap |-> save[w].snap, by |-> save[w].by]]

(* main.go's save closure calls page.Store.Update, which asks the composite *)
(* guard and writes the content.                                            *)
SaveWrites(w) ==
    /\ save[w].pc = "read"
    /\ SaveAllowed(w)
    /\ db' = Stored(w)
    /\ save' = [save EXCEPT ![w].pc = "wrote"]
    /\ UNCHANGED <<engineVars, conn, flusher, mu, gate, historyVars, discarded, boundVars>>

SaveRefused(w) ==
    /\ save[w].pc = "read"
    /\ ~SaveAllowed(w)
    /\ save' = [save EXCEPT ![w].pc = "failed"]
    /\ UNCHANGED <<engineVars, conn, flusher, mu, db, gate, historyVars, discarded, boundVars>>

(* The database fails: before the write, or after it took effect. *)
SaveErrs(w) ==
    /\ save[w].pc = "read"
    /\ failures < MaxFailures
    /\ failures' = failures + 1
    /\ \/ UNCHANGED db
       \/ SaveAllowed(w) /\ db' = Stored(w)
    /\ save' = [save EXCEPT ![w].pc = "failed"]
    /\ UNCHANGED <<engineVars, conn, flusher, mu, gate, historyVars, discarded,
                   gateChanges, restarts>>

(* OTEngine.MarkSaved: an idle page is released once its last snapshot is  *)
(* saved.                                                                  *)
MarkedCurrent(st, ver) ==   \* mutant: marks what is there now, not what was saved
    [st EXCEPT !.savedVersion = st.version]

Marked(st, ver) == [st EXCEPT !.savedVersion = IF ver > @ THEN ver ELSE @]

MarkSavedKeepingPage(p, ver) ==   \* mutant: never releases an idle page
    /\ state' = IF p \in pages THEN [state EXCEPT ![p] = Marked(state[p], ver)] ELSE state
    /\ UNCHANGED pages

MarkSaved(p, ver) ==
    LET marked == Marked(state[p], ver)
    IN  \/ /\ p \notin pages
           /\ UNCHANGED engineVars
        \/ /\ p \in pages /\ Idle(marked) /\ ~Unsaved(marked)
           /\ Release(p)
        \/ /\ p \in pages /\ (~Idle(marked) \/ Unsaved(marked))
           /\ state' = [state EXCEPT ![p] = marked]
           /\ UNCHANGED pages

SaveDone(w) ==
    /\ save[w].pc = "wrote"
    /\ MarkSaved(save[w].page, save[w].ver)
    /\ SavePageReturns(w, FALSE)
    /\ mu' = NoConn
    /\ save' = [save EXCEPT ![w] = NoSave]
    /\ UNCHANGED <<db, gate, historyVars, discarded, boundVars>>

SaveFailed(w) ==
    /\ save[w].pc = "failed"
    /\ SavePageReturns(w, TRUE)
    /\ mu' = NoConn
    /\ save' = [save EXCEPT ![w] = NoSave]
    /\ UNCHANGED <<engineVars, db, gate, historyVars, discarded, boundVars>>

DroppableOnceSaved(p) ==   \* mutant: an unsaved page is never given up
    p \in pages /\ Idle(state[p]) /\ ~Unsaved(state[p])

Droppable(p) == p \in pages /\ Idle(state[p])

(* flush after a failed savePage: DropIdle releases a page nobody is       *)
(* connected to, saved or not.                                             *)
DropIdle ==
    LET p == flusher.page
    IN  /\ flusher.pc = "drop"
        /\ \/ /\ Droppable(p)
              /\ Release(p)
              /\ discarded' = discarded \cup {p}
           \/ /\ ~Droppable(p)
              /\ UNCHANGED <<engineVars, discarded>>
        /\ flusher' = [flusher EXCEPT !.pc = "loop"]
        /\ UNCHANGED <<conn, mu, save, db, gate, historyVars, boundVars>>

-----------------------------------------------------------------------------
(* The environment: other requests change what the guards read, and the    *)
(* process restarts (main.go makes no last flush).                         *)

GateSteps(g) ==
    {[g EXCEPT !.row = r] : r \in {Unlocked("draft"), Unlocked("approved")}
                                   \cup {LockedBy(m, "draft") : m \in Member}}
    \cup {[g EXCEPT !.sess = [holder |-> m, live |-> TRUE]] : m \in Member}
    \cup {[g EXCEPT !.sess = NoSession]}
    \cup {[g EXCEPT !.tier = @ \cup {m}] : m \in Member}
    \cup {[g EXCEPT !.tier = @ \ {m}] : m \in Member}

GateChanges(p) ==
    /\ gateChanges < MaxGateChanges
    /\ gateChanges' = gateChanges + 1
    /\ \E g \in GateSteps(gate[p]) : gate' = [gate EXCEPT ![p] = g]
    /\ UNCHANGED <<engineVars, conn, saverVars, historyVars, discarded, failures, restarts>>

Restart ==
    /\ restarts < MaxRestarts
    /\ restarts' = restarts + 1
    /\ pages' = {}
    /\ state' = [p \in Page |-> EmptyState]
    /\ conn' = [k \in Conn |-> Down]
    /\ flusher' = Resting
    /\ mu' = NoConn
    /\ save' = [w \in Saver |-> NoSave]
    /\ latest' = [p \in Page |-> db[p].snap]
    /\ UNCHANGED <<db, gate, edits, origin, discarded, failures, gateChanges>>

SavePage(w) ==
    \/ \E p \in Page : SaveNothing(w, p) \/ SaveBegin(w, p)
    \/ SaveWrites(w) \/ SaveRefused(w) \/ SaveErrs(w)
    \/ SaveDone(w) \/ SaveFailed(w)

Next ==
    \/ \E k \in Conn :
          \/ \E p \in Page : Connect(k, p)
          \/ ResolveFrame(k)
          \/ GuardFrame(k)
          \/ \E carries \in BOOLEAN : ApplyFrame(k, carries)
          \/ ContextEnds(k)
          \/ Leave(k)
    \/ FlushTick \/ FlushNext \/ DropIdle
    \/ \E w \in Saver : SavePage(w)
    \/ \E p \in Page : GateChanges(p)
    \/ Restart

Spec == Init /\ [][Next]_vars

(* The ticker fires for ever and a goroutine that is running keeps         *)
(* running.  sync.Mutex does not starve a waiter, so savePage gets strong   *)
(* fairness.  Nothing obliges a client to type or to disconnect.            *)
Fairness ==
    /\ WF_vars(FlushTick) /\ WF_vars(FlushNext) /\ WF_vars(DropIdle)
    /\ \A w \in Saver : SF_vars(SavePage(w))

FairSpec == Spec /\ Fairness

-----------------------------------------------------------------------------
(* Nothing that was acknowledged is lost unless DropIdle released the page *)
(* or the process ended: the last snapshot applied to a page is in the      *)
(* database, or the engine still holds it as unsaved.  A failed save, a     *)
(* refusal, a disconnect or a second connection under the same client_id    *)
(* alone never loses it (saver.go savePage, ot.go leave and MarkSaved).     *)
NoAckedEditLost ==
    \A p \in Page :
        p \notin discarded /\ latest[p] # db[p].snap =>
            p \in DirtyPages /\ state[p].snapshot = latest[p]

AcceptedChanges(p) == {n \in 1..edits : origin[n].page = p}

Promise == INSTANCE WriteBehind
               WITH count <- edits,
                    accepted <- [p \in Page |-> AcceptedChanges(p)],
                    stored <- [p \in Page |-> db[p].snap]

(* A saved page never goes back to an earlier snapshot nor takes another    *)
(* page's, whoever saves it: the tick and the departing sockets write each   *)
(* page's changes in commit order (saver.go, AutoSaver.mu).                  *)
ImplementsWriteBehind == Promise!Spec

(* A tab keeps its client_id in sessionStorage and dials with it again, so  *)
(* two connections may share one.                                           *)
Shared(id) == \E j, k \in Conn : j # k /\ ClientOf[j] = id /\ ClientOf[k] = id

(* Apply found m under the client_id of a change of p numbered up to n. *)
NamedBefore(p, n, m) == \E i \in 1..n : origin[i].page = p /\ origin[i].found = m

(* What reaches pages.content of a page is a change made on that page, and  *)
(* updated_by is the member who made it, whoever was connected when the     *)
(* snapshot was written (ot.go SnapshotBy).  Only the sender under a shared *)
(* client_id may find its entry taken over or gone: the author is then the  *)
(* member who holds the entry, or the one an earlier change had named.      *)
AuthorIsWriter ==
    \A p \in Page : db[p].snap # 0 =>
        LET c == origin[db[p].snap]
        IN  /\ c.page = p
            /\ c.found = c.by \/ Shared(c.client)
            /\ \/ db[p].by = c.found
               \/ c.found = NoMember /\ NamedBefore(p, db[p].snap, db[p].by)

(* A change of p whose sender's entry was gone, taken out by the Leave of   *)
(* another connection under its client_id.                                  *)
SentAfterLeave(p) ==
    \E n \in AcceptedChanges(p) : origin[n].found = NoMember /\ Shared(origin[n].client)

(* The engine keeps the state of a page nobody is connected to only while   *)
(* it has something to save, so memory does not grow for ever (ot.go leave);*)
(* but a state that has had no snapshot stays, which a change sent after    *)
(* the Leave of its own client_id made.                                     *)
IdleOnlyWhileUnsaved ==
    \A p \in pages : Idle(state[p]) =>
        \/ Unsaved(state[p])
        \/ state[p].snapshot = 0 /\ SentAfterLeave(p)

(* A snapshot is eventually saved or overtaken by a later saved one, unless *)
(* its save is refused for good, its page was released by DropIdle or the   *)
(* process ended.                                                           *)
EventuallySaved ==
    \A p \in Page : \A n \in 1..MaxEdits :
        latest[p] = n ~> \/ db[p].snap >= n
                         \/ p \in discarded \/ latest[p] < n
                         \/ ~CompositeCanEdit(gate[p].row, gate[p].sess,
                                              state[p].snapshotBy, FALSE)

(* A page everybody has left does not stay in memory, not even one whose    *)
(* save can never succeed (saver.go flush and DropIdle).  The page that has *)
(* had no snapshot is excepted: it is the one LeftPageIsDropped shows to    *)
(* stay.                                                                    *)
IdleEventuallyReleased ==
    \A p \in Page :
        (p \in pages /\ Idle(state[p]) /\ state[p].snapshot # 0) ~>
            (p \notin pages \/ ~Idle(state[p]))

-----------------------------------------------------------------------------
(* What comments of the code say and the code does not do.                 *)

(* saver.go flush: when DropIdle releases a page, its save "was already     *)
(* tried when the last client left".                                        *)
DropOnlyAfterIdleSave ==
    [][\A p \in discarded' \ discarded :
          ~\E k \in Conn : conn[k].pc = "leaving" /\ conn[k].page = p]_vars

(* ot.go savedVersion: it "goes away with the state it describes", so a     *)
(* page opened again never skips its saves because of an older session's    *)
(* high-water mark.                                                         *)
SavedNeverAhead == \A p \in pages : state[p].savedVersion <= state[p].version

(* ot.go SnapshotBy "is the member id of the client whose change produced   *)
(* Snapshot", and "must not depend on whether they are still on the socket".*)
SnapshotByIsAuthor ==
    \A p \in pages : state[p].snapshot # 0 =>
        state[p].snapshotBy = origin[state[p].snapshot].by

(* ot.go leave: "Keep an unsaved snapshot until onIdle has written it [...];*)
(* drop everything else so memory doesn't grow for ever".                   *)
LeftPageIsDropped ==
    \A p \in pages : (\A k \in Conn : conn[k].page # p) => Unsaved(state[p])

(* main.go: collab is multi-writer and "the single-writer policy governs    *)
(* only the REST save path", so its saves are refused by locks and           *)
(* approvals alone.                                                         *)
SavedThroughLockRuleOnly ==
    [][\A w \in Saver :
          save[w].pc = "read" /\ save'[w].pc = "failed" /\ failures' = failures =>
              ~LockCanEdit(gate[save[w].page].row, save[w].by, FALSE)]_vars
=============================================================================
