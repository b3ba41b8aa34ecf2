------------------------------ MODULE Webhooks ------------------------------
(***************************************************************************)
(* Events to the endpoints a workspace registered (internal/webhooks): the *)
(* rows of workspace_webhook_deliveries, one per attempt, and the loops     *)
(* that claim and send them, one in each Docs process.  A statement and an  *)
(* HTTP call are steps of their own.  How long a retry waits is left out: a  *)
(* row that is not claimed may fall due at any time.                        *)
(***************************************************************************)
EXTENDS Naturals, FiniteSets

CONSTANTS Hook,       \* endpoints that may be registered
          Msg,        \* events
          TypeOf,     \* the event type of each
          Instance,   \* Docs processes
          Backoff,    \* len(Backoff): the retries of an event
          MaxFailures \* bound: statements that fail and processes that die

Events == {"approval.requested", "approval.decided", "comment.created"}

WebhooksSizes ==
    /\ TypeOf \in [Msg -> Events]
    /\ Backoff \in Nat
    /\ MaxFailures \in Nat

VARIABLES
    hooks,     \* workspace_webhooks: what each endpoint is subscribed to
    rows,      \* workspace_webhook_deliveries
    sending,   \* the attempts each process has in hand
    emitted,   \* history: events emitted
    owed,      \* history: <<endpoint, event>> subscribed when it was emitted
    posts,     \* history: how often each attempt was sent
    made,      \* history: attempts whose POST is over, sent or not
    refused,   \* history: <<endpoint, event>> whose address was blocked
    answered,  \* history: <<endpoint, event>> the sender saw a 2xx for
    forgotten, \* history: <<endpoint, event>> that met a failed statement or a death
    whFailures

whHistory == <<emitted, owed, posts, made, refused, answered, forgotten>>
whVars == <<hooks, rows, sending, whHistory, whFailures>>

Attempt == 1..Backoff + 1
Key == [hook : Hook, msg : Msg, n : Attempt]
Row == [key : Key, claimed : BOOLEAN]

\* What a goroutine of DeliverDue has yet to do with its attempt.
InHand == [key : Key, pc : {"post", "record", "retry"}, ok : BOOLEAN, blocked : BOOLEAN]

Endpoint(state, events) == [state |-> state, events |-> events]

\* Store.Create, and the lookup by secretFor of what is still registered.
Registered(events) == Endpoint("live", events)
Live(h) == hooks[h].state = "live"

\* Start runs DeliverDue again only when every goroutine of the last is done.
Idle(i) == sending[i] = {}

Of(key) == <<key.hook, key.msg>>
Next1(key) == [key EXCEPT !.n = @ + 1]
Keys(R) == {r.key : r \in R}

WebhooksTypeOK ==
    /\ hooks \in [Hook -> [state : {"new", "live", "gone"}, events : SUBSET Events]]
    /\ rows \subseteq Row
    /\ sending \in [Instance -> SUBSET InHand]
    /\ emitted \subseteq Msg
    /\ posts \in [Key -> Nat]
    /\ made \subseteq Key
    /\ owed \cup refused \cup answered \cup forgotten \subseteq Hook \X Msg
    /\ whFailures \in 0..MaxFailures

WebhooksInit ==
    /\ hooks = [h \in Hook |-> Endpoint("new", {})]
    /\ rows = {}
    /\ sending = [i \in Instance |-> {}]
    /\ emitted = {}
    /\ posts = [k \in Key |-> 0]
    /\ made = {} /\ owed = {} /\ refused = {} /\ answered = {} /\ forgotten = {}
    /\ whFailures = 0

Fails == whFailures < MaxFailures /\ whFailures' = whFailures + 1

-----------------------------------------------------------------------------
(* The endpoints.                                                           *)

\* Handler.create: what is registered was checked before.
Create(h, events) ==
    /\ hooks[h].state = "new"
    /\ hooks' = [hooks EXCEPT ![h] = Registered(events)]
    /\ UNCHANGED <<rows, sending, whHistory, whFailures>>

\* Store.Delete: the delivery rows go with the endpoint.
Delete(h) ==
    /\ Live(h)
    /\ hooks' = [hooks EXCEPT ![h] = Endpoint("gone", {})]
    /\ rows' = {r \in rows : r.key.hook # h}
    /\ UNCHANGED <<sending, whHistory, whFailures>>

-----------------------------------------------------------------------------
(* Sink.Emit: one attempt for every endpoint subscribed; empty is all.       *)

Subscribed(m) ==
    {h \in Hook : Live(h) /\ (hooks[h].events = {} \/ TypeOf[m] \in hooks[h].events)}

Emit(m) ==
    /\ m \notin emitted
    /\ emitted' = emitted \cup {m}
    /\ owed' = owed \cup (Subscribed(m) \X {m})
    /\ \/ /\ rows' = rows \cup {[key |-> [hook |-> h, msg |-> m, n |-> 1], claimed |-> FALSE] :
                                h \in Subscribed(m)}
          /\ UNCHANGED <<forgotten, whFailures>>
       \/ /\ Fails
          /\ forgotten' = forgotten \cup (Subscribed(m) \X {m})
          /\ UNCHANGED rows
    /\ UNCHANGED <<hooks, sending, posts, made, refused, answered>>

-----------------------------------------------------------------------------
(* Sink.DeliverDue and send.                                                *)

Due == {r \in rows : ~r.claimed}

\* Mutant: attempted_at is left for later.
StampedLate(R) == [key : Keys(R), claimed : {FALSE}]

Stamped(R) == [key : Keys(R), claimed : {TRUE}]
Claimed(R) == [key : Keys(R), pc : {"post"}, ok : {FALSE}, blocked : {FALSE}]

\* One statement claims what is due, skipping what another process locks. Rows
\* claimed but not read to the end are left behind.
Claim(i) ==
    /\ Idle(i)
    /\ \E R \in SUBSET Due \ {{}} :
        /\ rows' = (rows \ R) \cup Stamped(R)
        /\ \/ /\ sending' = [sending EXCEPT ![i] = Claimed(R)]
              /\ UNCHANGED <<forgotten, whFailures>>
           \/ /\ Fails
              /\ forgotten' = forgotten \cup {Of(k) : k \in Keys(R)}
              /\ UNCHANGED sending
    /\ UNCHANGED <<hooks, emitted, owed, posts, made, refused, answered>>

Replace(i, a, b) == sending' = [sending EXCEPT ![i] = (@ \ {a}) \cup b]

\* Sink.post: without its endpoint there is no secret and nothing is sent; an
\* answer can be lost after the endpoint got the event.
Post(i, a) ==
    /\ a.pc = "post"
    /\ LET k == a.key
           Over(ok, blocked) ==
               Replace(i, a, {[a EXCEPT !.pc = "record", !.ok = ok, !.blocked = blocked]})
       IN /\ made' = made \cup {k}
          /\ \/ /\ Live(k.hook)
                /\ posts' = [posts EXCEPT ![k] = @ + 1]
                /\ \E ok \in BOOLEAN :
                    /\ answered' = IF ok THEN answered \cup {Of(k)} ELSE answered
                    /\ Over(ok, FALSE)
                /\ UNCHANGED refused
             \/ /\ Live(k.hook)
                /\ refused' = refused \cup {Of(k)}
                /\ Over(FALSE, TRUE)
                /\ UNCHANGED <<posts, answered>>
             \/ /\ Over(FALSE, FALSE)
                /\ UNCHANGED <<posts, answered, refused>>
    /\ UNCHANGED <<hooks, rows, emitted, owed, forgotten, whFailures>>

\* Mutant: off by one, the last backoff is not used.
RetriesShort(a) == ~a.ok /\ ~a.blocked /\ a.key.n < Backoff

Retries(a) == ~a.ok /\ ~a.blocked /\ a.key.n <= Backoff

\* send stores the answer, and is done when there is nothing to retry. Whether
\* that statement failed changes nothing that is read again.
Record(i, a) ==
    /\ a.pc = "record"
    /\ Replace(i, a, IF Retries(a) THEN {[a EXCEPT !.pc = "retry"]} ELSE {})
    /\ UNCHANGED <<hooks, rows, whHistory, whFailures>>

\* The next attempt is a copy of the row, if it is still there.
Retry(i, a) ==
    /\ a.pc = "retry"
    /\ Replace(i, a, {})
    /\ \/ /\ rows' = IF a.key \in Keys(rows) /\ Next1(a.key) \notin Keys(rows)
                     THEN rows \cup {[key |-> Next1(a.key), claimed |-> FALSE]}
                     ELSE rows
          /\ UNCHANGED <<forgotten, whFailures>>
       \/ /\ Fails
          /\ forgotten' = forgotten \cup {Of(a.key)}
          /\ UNCHANGED rows
    /\ UNCHANGED <<hooks, emitted, owed, posts, made, refused, answered>>

\* A process dies; what it claimed is never swept (DeliverDue says so).
Die(i) ==
    /\ sending[i] # {}
    /\ Fails
    /\ forgotten' = forgotten \cup {Of(a.key) : a \in sending[i]}
    /\ sending' = [sending EXCEPT ![i] = {}]
    /\ UNCHANGED <<hooks, rows, emitted, owed, posts, made, refused, answered>>

WebhooksNext ==
    \/ \E h \in Hook, events \in SUBSET Events : Create(h, events)
    \/ \E h \in Hook : Delete(h)
    \/ \E m \in Msg : Emit(m)
    \/ \E i \in Instance : Claim(i) \/ Die(i)
    \/ \E i \in Instance : \E a \in sending[i] : Post(i, a) \/ Record(i, a) \/ Retry(i, a)

WebhooksSpec == WebhooksInit /\ [][WebhooksNext]_whVars

-----------------------------------------------------------------------------
Last(h, m) == [hook |-> h, msg |-> m, n |-> Backoff + 1]

(* No attempt is sent twice, by one process or by two (sink.go DeliverDue     *)
(* "so two Docs instances never send the same attempt"), one follows the      *)
(* other, and none is due once the endpoint was seen to accept the event.     *)
AttemptsFollow ==
    \A k \in Key :
        /\ posts[k] <= 1
        /\ posts[k] = 1 /\ k.n > 1 => [k EXCEPT !.n = @ - 1] \in made
        /\ Of(k) \in answered => \A r \in Due : Of(r.key) # Of(k)

InSomeHand(h, m) == \E i \in Instance : \E a \in sending[i] : Of(a.key) = <<h, m>>

(* An event a live endpoint subscribed to is accepted, waits for its next      *)
(* attempt, is in the hands of a process, was refused for its address, or had  *)
(* all its attempts; it is forgotten only through a failed statement or a      *)
(* death between claim and retry (sink.go Emit, DeliverDue, send).            *)
NoEventForgotten ==
    \A h \in Hook, m \in Msg :
        Live(h) /\ <<h, m>> \in owed \ (answered \cup refused \cup forgotten) =>
            \/ \E r \in Due : Of(r.key) = <<h, m>>
            \/ InSomeHand(h, m)
            \/ Last(h, m) \in made

=============================================================================
