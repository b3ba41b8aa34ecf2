------------------------------ MODULE PageIndex -----------------------------
(***************************************************************************)
(* The throttle between page saves and the embedding service               *)
(* (internal/pageindex/pageindex.go), the goroutine page.Store.Update      *)
(* starts in front of it and the IndexPage of internal/search it calls.    *)
(* A step is one critical section of Throttle.mu, or one call to the       *)
(* service.  A page's texts are numbered in the order they were saved.     *)
(***************************************************************************)
EXTENDS Integers, Sequences, FiniteSets, Functions

CONSTANTS Page,
          Worker,      \* the pool
          MaxSaves,    \* bound: content saves of all pages
          MaxFailures, \* bound: embeds that fail or find no token in time
          MaxRestarts  \* bound: ends of the process, orderly or not

\* The module that composes this one assumes it.
PageIndexSizes ==
    /\ IsFiniteSet(Page) /\ "none" \notin Page /\ IsFiniteSet(Worker)
    /\ {MaxSaves, MaxFailures, MaxRestarts} \subseteq Nat

VARIABLES
    text,     \* pages.content_text, blank or not
    hooks,    \* the goroutines Update started that have yet to call IndexPage
    latest,   \* Throttle.latest: the newest text nobody has taken yet
    status,   \* Throttle.status
    queue,    \* Throttle.queue
    inflight, \* Throttle.inflight
    stopped,  \* Throttle.stopped
    worker,   \* the goroutine of each worker, and its locals
    vector,   \* page_embeddings: the text the stored vector was made of
    accepted, \* history: the last text IndexPage was given
    lost,     \* history: pages whose accepted text met a failure or a restart
    failures, restarts

throttle == <<latest, status, queue, inflight, stopped, worker>>
vars == <<text, hooks, throttle, vector, accepted, lost, failures, restarts>>

Text == [n : 1..MaxSaves, blank : BOOLEAN]
NoText == [n |-> 0, blank |-> TRUE]

Hook == [page : Page, text : Text]

Status == {"idle", "scheduled", "queued", "inflight"}

\* A worker runs, waits on the condition variable, embeds, comes back from it,
\* or has returned.
Local == [pc : {"run", "wait", "embed", "back", "exited"},
          page : Page \cup {"none"}, text : Text \cup {NoText}]
At(pc) == [pc |-> pc, page |-> "none", text |-> NoText]

TypeOK ==
    /\ text \in [Page -> Text \cup {NoText}]
    /\ hooks \subseteq Hook
    /\ latest \in [Page -> Text \cup {NoText}]
    /\ status \in [Page -> Status]
    /\ queue \in Seq(Page)
    /\ inflight \in 0..Cardinality(Worker)
    /\ stopped \in BOOLEAN
    /\ worker \in [Worker -> Local]
    /\ vector \in [Page -> 0..MaxSaves]
    /\ accepted \in [Page -> Text \cup {NoText}]
    /\ lost \subseteq Page
    /\ failures \in 0..MaxFailures
    /\ restarts \in 0..MaxRestarts

ThrottleInit ==
    /\ latest = [p \in Page |-> NoText]
    /\ status = [p \in Page |-> "idle"]
    /\ queue = <<>>
    /\ inflight = 0
    /\ stopped = FALSE
    /\ worker = [w \in Worker |-> At("run")]

Init ==
    /\ text = [p \in Page |-> NoText]
    /\ hooks = {}
    /\ ThrottleInit
    /\ vector = [p \in Page |-> 0]
    /\ accepted = [p \in Page |-> NoText]
    /\ lost = {}
    /\ failures = 0
    /\ restarts = 0

-----------------------------------------------------------------------------
(* page.Store.Update: a content save commits and starts a goroutine.        *)

Saves == FoldFunction(LAMBDA t, n : t.n + n, 0, text)

Save(p, blank) ==
    /\ Saves < MaxSaves
    /\ LET new == [n |-> text[p].n + 1, blank |-> blank]
       IN /\ text' = [text EXCEPT ![p] = new]
          /\ hooks' = hooks \cup {[page |-> p, text |-> new]}
    /\ UNCHANGED <<throttle, vector, accepted, lost, failures, restarts>>

\* Mutant: a page whose embed is in flight is scheduled once more.
EnqueueAlways(h) ==
    /\ hooks' = hooks \ {h}
    /\ latest' = [latest EXCEPT ![h.page] = h.text]
    /\ status' = [status EXCEPT ![h.page] = IF @ \in {"idle", "inflight"} THEN "scheduled" ELSE @]
    /\ accepted' = [accepted EXCEPT ![h.page] = h.text]
    /\ lost' = lost \ {h.page}
    /\ UNCHANGED <<text, queue, inflight, stopped, worker, vector, failures, restarts>>

\* Throttle.IndexPage. What is not idle already has a schedule, a place in the
\* queue or a worker that will look again.
Enqueue(h) ==
    /\ hooks' = hooks \ {h}
    /\ latest' = [latest EXCEPT ![h.page] = h.text]
    /\ status' = [status EXCEPT ![h.page] = IF @ = "idle" THEN "scheduled" ELSE @]
    /\ accepted' = [accepted EXCEPT ![h.page] = h.text]
    /\ lost' = lost \ {h.page}
    /\ UNCHANGED <<text, queue, inflight, stopped, worker, vector, failures, restarts>>

-----------------------------------------------------------------------------
(* The throttle.                                                            *)

Waiting == {w \in Worker : worker[w].pc = "wait"}

\* cond.Signal by a goroutine that leaves workers as in ws.
Signal(ws) ==
    LET asleep == {w \in Worker : ws[w].pc = "wait"}
    IN IF asleep = {} THEN worker' = ws
       ELSE \E w \in asleep : worker' = [ws EXCEPT ![w] = At("run")]

\* Mutant: nobody is woken for a page that became ready.
PromoteSilently(p) ==
    /\ status[p] = "scheduled"
    /\ status' = [status EXCEPT ![p] = "queued"]
    /\ queue' = Append(queue, p)
    /\ UNCHANGED <<text, hooks, latest, inflight, stopped, worker, vector, accepted, lost,
                   failures, restarts>>

\* The timer IndexPage set when it scheduled the page.
Promote(p) ==
    /\ status[p] = "scheduled"
    /\ status' = [status EXCEPT ![p] = "queued"]
    /\ queue' = Append(queue, p)
    /\ Signal(worker)
    /\ UNCHANGED <<text, hooks, latest, inflight, stopped, vector, accepted, lost,
                   failures, restarts>>

\* The top of the worker's loop: wait, return, or take the head of the queue
\* and the text to embed.
Take(w) ==
    /\ worker[w].pc = "run"
    /\ \/ /\ queue = <<>>
          /\ worker' = [worker EXCEPT ![w] = At(IF stopped THEN "exited" ELSE "wait")]
          /\ UNCHANGED <<latest, status, queue, inflight>>
       \/ /\ queue # <<>>
          /\ LET p == Head(queue)
             IN /\ queue' = Tail(queue)
                /\ worker' = [worker EXCEPT
                                 ![w] = [pc |-> "embed", page |-> p, text |-> latest[p]]]
                /\ latest' = [latest EXCEPT ![p] = NoText]
                /\ status' = [status EXCEPT ![p] = "inflight"]
          /\ inflight' = inflight + 1
    /\ UNCHANGED <<text, hooks, stopped, vector, accepted, lost, failures, restarts>>

\* SemanticSearch.IndexPage: a blank text retires the vector, another is
\* embedded and replaces it; errors are logged and forgotten. An answer without
\* a vector, like a statement that failed, leaves what is stored.
Write(w) ==
    LET p == worker[w].page
        t == worker[w].text
    IN \/ /\ vector' = [vector EXCEPT ![p] = IF t.blank THEN 0 ELSE t.n]
          /\ UNCHANGED <<lost, failures>>
       \/ /\ failures < MaxFailures
          /\ failures' = failures + 1
          /\ lost' = lost \cup {p}
          /\ UNCHANGED vector

\* embed: the limiter may find no token before the timeout and give up.
Embed(w) ==
    /\ worker[w].pc = "embed"
    /\ \/ Write(w)
       \/ /\ failures < MaxFailures
          /\ failures' = failures + 1
          /\ lost' = lost \cup {worker[w].page}
          /\ UNCHANGED vector
    /\ worker' = [worker EXCEPT ![w].pc = "back"]
    /\ UNCHANGED <<text, hooks, latest, status, queue, inflight, stopped, accepted, restarts>>

\* Mutant: a text that came meanwhile is not looked at.
FinishIdle(w) ==
    /\ worker[w].pc = "back"
    /\ inflight' = inflight - 1
    /\ status' = [status EXCEPT ![worker[w].page] = "idle"]
    /\ worker' = [worker EXCEPT ![w] = At("run")]
    /\ UNCHANGED <<text, hooks, latest, queue, stopped, vector, accepted, lost, failures,
                   restarts>>

\* The rest of the loop: a text that came meanwhile puts the page back in the
\* queue.
Finish(w) ==
    /\ worker[w].pc = "back"
    /\ inflight' = inflight - 1
    /\ LET p == worker[w].page
           ws == [worker EXCEPT ![w] = At("run")]
       IN \/ /\ latest[p] # NoText
             /\ status' = [status EXCEPT ![p] = "queued"]
             /\ queue' = Append(queue, p)
             /\ Signal(ws)
          \/ /\ latest[p] = NoText
             /\ status' = [status EXCEPT ![p] = "idle"]
             /\ worker' = ws
             /\ UNCHANGED queue
    /\ UNCHANGED <<text, hooks, latest, stopped, vector, accepted, lost, failures, restarts>>

-----------------------------------------------------------------------------
(* The process ends: main's deferred cancel runs Stop, and nothing waits for  *)
(* the workers; or it dies. Pages whose text was on its way stay as they are.  *)

\* Mutant: Stop wakes one worker instead of all.
StopSignal ==
    /\ ~stopped
    /\ restarts < MaxRestarts
    /\ stopped' = TRUE
    /\ Signal(worker)
    /\ UNCHANGED <<text, hooks, latest, status, queue, inflight, vector, accepted, lost,
                   failures, restarts>>

Stop ==
    /\ ~stopped
    /\ restarts < MaxRestarts
    /\ stopped' = TRUE
    /\ worker' = [w \in Worker |-> IF w \in Waiting THEN At("run") ELSE worker[w]]
    /\ UNCHANGED <<text, hooks, latest, status, queue, inflight, vector, accepted, lost,
                   failures, restarts>>

Restart ==
    /\ restarts < MaxRestarts
    /\ restarts' = restarts + 1
    /\ hooks' = {}
    /\ latest' = [p \in Page |-> NoText]
    /\ status' = [p \in Page |-> "idle"]
    /\ queue' = <<>>
    /\ inflight' = 0
    /\ stopped' = FALSE
    /\ worker' = [w \in Worker |-> At("run")]
    /\ lost' = lost \cup {h.page : h \in hooks} \cup {p \in Page : status[p] # "idle"}
    /\ UNCHANGED <<text, vector, accepted, failures>>

SaveSome == \E p \in Page, blank \in BOOLEAN : Save(p, blank)
EnqueueSome(p) == \E h \in hooks : h.page = p /\ Enqueue(h)
Work(w) == Take(w) \/ Embed(w) \/ Finish(w)

Next ==
    \/ SaveSome
    \/ \E p \in Page : EnqueueSome(p)
    \/ \E p \in Page : Promote(p)
    \/ \E w \in Worker : Take(w)
    \/ \E w \in Worker : Embed(w)
    \/ \E w \in Worker : Finish(w)
    \/ Stop
    \/ Restart

\* The runtime runs every goroutine and fires every timer; a call to the service
\* ends, by its timeout if by nothing else. Nobody has to save, or to stop.
Fairness ==
    /\ \A p \in Page : WF_vars(EnqueueSome(p)) /\ WF_vars(Promote(p))
    /\ \A w \in Worker : WF_vars(Work(w))

Spec == Init /\ [][Next]_vars /\ Fairness

-----------------------------------------------------------------------------
\* Throttle.Stats.
Pending == Cardinality({p \in Page : status[p] \in {"scheduled", "queued"}})
Drained == Pending = 0 /\ inflight = 0

Shown(t) == IF t.blank THEN 0 ELSE t.n

(* Whenever Stats says that the throttle is drained ("Both zero means fully  *)
(* drained"), the stored vector of a page is that of the last text handed to *)
(* IndexPage, and none is kept for an emptied page, unless a failure or a     *)
(* restart met that text: no interleaving of saves, timers, workers and       *)
(* re-queues drops or reorders it (pageindex.go worker).                      *)
DrainedIsIndexed ==
    Drained => \A p \in Page \ lost : vector[p] = Shown(accepted[p])

(* A page is embedded by one worker at a time and has one place in the queue,  *)
(* so an older embedding never lands after a newer one (pageindex.go          *)
(* promote, worker).                                                          *)
OneEmbedPerPage ==
    \A p \in Page :
        Cardinality({w \in Worker : worker[w].page = p})
            + Cardinality({i \in DOMAIN queue : queue[i] = p}) <= 1

(* A text the throttle accepted is embedded, given up after an attempt, or     *)
(* replaced by a newer one, also when every worker slept when it came, unless  *)
(* the throttle is told to stop (pageindex.go:18 "NEVER-DROP-FINAL"); and Stop *)
(* comes back: the workers drain the queue and return (pageindex.go Stop).     *)
TakenOrStopped ==
    /\ \A p \in Page : latest[p] # NoText ~> latest[p] = NoText \/ stopped
    /\ stopped ~> (~stopped \/ \A w \in Worker : worker[w].pc = "exited")

(* pageindex.go:18 "the final saved state is always eventually embedded, never  *)
(* silently dropped": once nothing is on its way and nothing failed, the text   *)
(* the index shows is the one the page has.                                    *)
FinalTextIndexed ==
    Drained /\ hooks = {} => \A p \in Page \ lost : vector[p] = Shown(text[p])

=============================================================================
