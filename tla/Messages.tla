------------------------------ MODULE Messages -------------------------------
(***************************************************************************)
(* What the tabs on a page are told (collab/ot.go Join, leave,               *)
(* BroadcastChange, UpdateCursor; handler.go dispatch and the two pumps of a  *)
(* socket): presence, cursors, acknowledgements and changes, through one      *)
(* bounded channel per connection that drops what it has no room for. Whether *)
(* a change is let in, its version, and when the page's state goes are         *)
(* Collab's.                                                                *)
(***************************************************************************)
EXTENDS Naturals, FiniteSets, Sequences

CONSTANTS Sock,       \* connections (one ServeWS call each)
          NoSock,
          Tab,        \* client ids; a tab that dials again keeps its own
          TabOf,      \* the tab behind each connection
          Buffer,     \* the room in a channel
          MaxFrames   \* bound: change and cursor frames

MessagesSizes ==
    /\ NoSock \notin Sock /\ TabOf \in [Sock -> Tab] /\ Buffer \in Nat \ {0} /\ MaxFrames \in Nat

VARIABLES
    clients, \* PageState.clients: the connection and the cursor under each id
    sock,    \* where each connection's goroutine is
    out,     \* CollabClient.send: what is in the channel, and if it is closed
    shown,   \* the presence the tab shows
    sent,    \* history: which tab each committed change is of
    joined,  \* history: how many there were when each connection joined
    got,     \* history: the changes each connection was told of
    missed,  \* history: the connections a message was dropped for
    redialled, \* history: tabs that joined while they were there
    frames

msVars == <<clients, sock, out, shown, sent, joined, got, missed, redialled, frames>>

Absent == [sock |-> NoSock, cursor |-> 0]
Blank == [there |-> {}, cursor |-> [t \in Tab |-> 0]]

Present == {t \in Tab : clients[t].sock # NoSock}
Holder(t) == clients[t].sock

MessagesInit ==
    /\ clients = [t \in Tab |-> Absent]
    /\ sock = [s \in Sock |-> [pc |-> "down", n |-> 0]]
    /\ out = [s \in Sock |-> [msgs |-> <<>>, closed |-> FALSE]]
    /\ shown = [s \in Sock |-> Blank]
    /\ sent = <<>> /\ joined = [s \in Sock |-> 0] /\ got = [s \in Sock |-> {}]
    /\ missed = {} /\ redialled = {} /\ frames = 0

-----------------------------------------------------------------------------
\* trySend, to a set of connections: what is full or closed is passed over.
Full(s) == out[s].closed \/ Len(out[s].msgs) >= Buffer

trySend(to, m) ==
    /\ out' = [s \in Sock |-> IF s \in to /\ ~Full(s)
                              THEN [out[s] EXCEPT !.msgs = Append(@, m)] ELSE out[s]]
    /\ missed' = missed \cup {s \in to : Full(s)}

Others(t) == {Holder(u) : u \in Present \ {t}}

\* Join: the newcomer is told who is there, himself among them, and the rest
\* of him; whoever held the id is in the map no longer, and his channel open.
Join(s) ==
    LET t == TabOf[s]
        now == [clients EXCEPT ![t] = [sock |-> s, cursor |-> 0]]
        init == [type |-> "init", there |-> Present \cup {t},
                 cursor |-> [u \in Tab |-> now[u].cursor]]
        news == [type |-> "joined", tab |-> t]
    IN /\ sock[s].pc = "down"
       /\ clients' = now
       /\ sock' = [sock EXCEPT ![s].pc = "open"]
       /\ out' = [k \in Sock |-> CASE k = s -> [msgs |-> <<init>>, closed |-> FALSE]
                                   [] k \in Others(t) /\ ~Full(k) ->
                                        [out[k] EXCEPT !.msgs = Append(@, news)]
                                   [] OTHER -> out[k]]
       /\ missed' = missed \cup {k \in Others(t) : Full(k)}
       /\ joined' = [joined EXCEPT ![s] = Len(sent)]
       /\ redialled' = IF t \in Present THEN redialled \cup {t} ELSE redialled
       /\ UNCHANGED <<shown, sent, got, frames>>

\* Mutant: the rest are told only if it was his own entry that went.
OwnOnly(s) == IF Holder(TabOf[s]) # s THEN {} ELSE Others(TabOf[s])

\* Who is told that a tab is gone.
Bereft(s) == IF TabOf[s] \notin Present THEN {} ELSE Others(TabOf[s])

\* readPump ends, and with it what its own tab is told. leave: what is under the
\* id goes, whoever it is, and his channel is closed.
leave(s) ==
    LET t == TabOf[s]
        k == Holder(t)
        rest == Bereft(s)
    IN /\ sock[s].pc = "open"
       /\ sock' = [sock EXCEPT ![s].pc = "gone"]
       /\ clients' = [clients EXCEPT ![t] = Absent]
       /\ redialled' = redialled \ {t}
       /\ out' = [q \in Sock |->
                     CASE q = s -> [msgs |-> <<>>, closed |-> TRUE]
                       [] q = k /\ q # s -> [out[q] EXCEPT !.closed = TRUE]
                       [] q \in rest /\ ~Full(q) ->
                            [out[q] EXCEPT !.msgs = Append(@, [type |-> "left", tab |-> t])]
                       [] OTHER -> out[q]]
       /\ missed' = (missed \cup {q \in rest : Full(q)}) \ {s}
       /\ shown' = [shown EXCEPT ![s] = Blank] /\ got' = [got EXCEPT ![s] = {}]
       /\ UNCHANGED <<sent, joined, frames>>

-----------------------------------------------------------------------------
\* dispatch, a change frame that was let in: Apply, then the acknowledgement,
\* then the broadcast, with the engine's mutex free in between.
Apply(s) ==
    /\ sock[s].pc = "open" /\ frames < MaxFrames
    /\ sent' = Append(sent, TabOf[s])
    /\ sock' = [sock EXCEPT ![s] = [pc |-> "applied", n |-> Len(sent) + 1]]
    /\ frames' = frames + 1
    /\ UNCHANGED <<clients, out, shown, joined, got, missed, redialled>>

Ack(s) ==
    /\ sock[s].pc = "applied"
    /\ sock' = [sock EXCEPT ![s].pc = "acked"]
    /\ trySend({s}, [type |-> "ack", n |-> sock[s].n])
    /\ UNCHANGED <<clients, shown, sent, joined, got, redialled, frames>>

BroadcastChange(s) ==
    /\ sock[s].pc = "acked"
    /\ sock' = [sock EXCEPT ![s] = [pc |-> "open", n |-> 0]]
    /\ trySend(Others(TabOf[s]), [type |-> "change", n |-> sock[s].n])
    /\ UNCHANGED <<clients, shown, sent, joined, got, redialled, frames>>

\* UpdateCursor: under the id, whichever connection moved it.
UpdateCursor(s) ==
    LET t == TabOf[s]
    IN /\ sock[s].pc = "open" /\ frames < MaxFrames
       /\ frames' = frames + 1
       /\ IF t \in Present
          THEN /\ clients' = [clients EXCEPT ![t].cursor = frames + 1]
               /\ trySend(Others(t), [type |-> "cursor", tab |-> t, cursor |-> frames + 1])
          ELSE UNCHANGED <<clients, out, missed>>
       /\ UNCHANGED <<sock, shown, sent, joined, got, redialled>>

-----------------------------------------------------------------------------
\* The tab's reading of a message (useCollab.ts handleMessage): one who is
\* there already does not join again.
handleMessage(v, m) ==
    CASE m.type = "init" -> [there |-> m.there, cursor |-> m.cursor]
      [] m.type \in {"change", "ack"} -> v
      [] m.type = "cursor" ->
            IF m.tab \in v.there THEN [v EXCEPT !.cursor[m.tab] = m.cursor] ELSE v
      [] m.type = "joined" ->
            IF m.tab \in v.there THEN v
            ELSE [v EXCEPT !.there = @ \cup {m.tab}, !.cursor[m.tab] = 0]
      [] OTHER -> [v EXCEPT !.there = @ \ {m.tab}, !.cursor[m.tab] = 0]

\* writePump: what is in the channel goes out in its order.
writePump(s) ==
    LET m == Head(out[s].msgs)
    IN /\ out[s].msgs # <<>>
       /\ out' = [out EXCEPT ![s].msgs = Tail(@)]
       /\ shown' = [shown EXCEPT ![s] = handleMessage(@, m)]
       /\ got' = IF m.type = "change" THEN [got EXCEPT ![s] = @ \cup {m.n}] ELSE got
       /\ UNCHANGED <<clients, sock, sent, joined, missed, redialled, frames>>

MessagesNext ==
    \E s \in Sock : \/ Join(s) \/ leave(s) \/ writePump(s)
                    \/ Apply(s) \/ Ack(s) \/ BroadcastChange(s) \/ UpdateCursor(s)

-----------------------------------------------------------------------------
Reached(s) == Holder(TabOf[s]) = s /\ s \notin missed

\* What a tab shows once it has read q.
Reading(v, q) ==
    LET view[n \in 0..Len(q)] == IF n = 0 THEN v ELSE handleMessage(view[n - 1], q[n])
    IN view[Len(q)]

Soon(s) == Reading(shown[s], out[s].msgs)

(* Once a connection has read what is on its way, its tab shows those who are   *)
(* on the page and no other, and each cursor where it is, but for a tab that    *)
(* dialled again while its old connection was still there (ot.go Join, leave,    *)
(* UpdateCursor).                                                              *)
PresenceIsTrue ==
    \A s \in Sock : Reached(s) =>
        /\ Soon(s).there = Present
        /\ \A t \in Present \ (redialled \cup {TabOf[s]}) : Soon(s).cursor[t] = clients[t].cursor

(* A change reaches everybody who was on the page when it was made and still    *)
(* is, once, or is about to be sent to them (ot.go BroadcastChange). In which    *)
(* order two changes arrive is nobody's promise.                                *)
NobodyMissesAChange ==
    \A s \in Sock : Reached(s) =>
        \A n \in joined[s] + 1..Len(sent) :
            \/ sent[n] = TabOf[s]
            \/ \E k \in Sock : sock[k].pc \in {"applied", "acked"} /\ sock[k].n = n
            \/ Cardinality({i \in DOMAIN out[s].msgs : out[s].msgs[i].type = "change"
                                                       /\ out[s].msgs[i].n = n})
                 + Cardinality(got[s] \cap {n}) = 1
=============================================================================
