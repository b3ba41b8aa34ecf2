------------------------------- MODULE Spend -------------------------------
(***************************************************************************)
(* What a page's own AI work cost: the call to Lens, the binding of its      *)
(* request to the page (page/ai_spend.go), and the sweep that asks Lens for  *)
(* the price (lensintegration/pagecost.go).  Every call Lens runs costs one.  *)
(***************************************************************************)
EXTENDS Naturals, FiniteSets, FiniteSetsExt

CONSTANTS Page,
          Sweeper,        \* Docs processes, each with one pricing loop
          Payers,         \* Lens workspaces 1..Payers, in the order of their ids
          WorkspaceLimit, \* UnpricedWorkspaces: at most so many a sweep
          RequestLimit,   \* UnpricedRequestIDs: at most so many a workspace
          MaxCalls, MaxSaves, MaxFaults \* bounds

ASSUME SpendAssumption ==
    {Payers, WorkspaceLimit, RequestLimit, MaxCalls, MaxSaves, MaxFaults} \subseteq Nat \ {0}

VARIABLES
    calls,    \* AI operations in the order they were asked for
    cost,     \* Lens: what each was billed
    aged,     \* Lens: calls older than the window a sweep pulls
    pages,    \* pages that exist
    version,  \* page_versions: MAX(version)
    own,      \* pages.own_ai_cost_usd
    events,   \* page_ai_spend_events, by request
    sweeps,   \* where each pricing loop is
    faults

spVars == <<calls, cost, aged, pages, version, own, events, sweeps, faults>>

Call == 1..MaxCalls
Payer == 1..Payers
NoPage == 0

NoEvent == [state |-> "none", page |-> NoPage, revision |-> 0]
NoCall == [pc |-> "new", page |-> NoPage, payer |-> 1]
Resting == [todo |-> {}, rows |-> {}]

SpendTypeOK ==
    /\ calls \in [Call -> [pc : {"new", "dial", "sent", "answered", "done"},
                           page : Page \cup {NoPage}, payer : Payer]]
    /\ cost \in [Call -> Nat]
    /\ aged \subseteq Call
    /\ pages \subseteq Page
    /\ version \in [Page -> 0..MaxSaves]
    /\ own \in [Page -> Nat]
    /\ events \in [Call -> [state : {"none", "unpriced", "priced"},
                            page : Page \cup {NoPage}, revision : Nat]]
    /\ sweeps \in [Sweeper -> [todo : SUBSET Payer, rows : SUBSET Call]]
    /\ faults \in 0..MaxFaults

SpendInit ==
    /\ calls = [c \in Call |-> NoCall]
    /\ cost = [c \in Call |-> 0]
    /\ aged = {}
    /\ pages = Page
    /\ version = [p \in Page |-> 0]
    /\ own = [p \in Page |-> 0]
    /\ events = [c \in Call |-> NoEvent]
    /\ sweeps = [s \in Sweeper |-> Resting]
    /\ faults = 0

Fault == faults < MaxFaults /\ faults' = faults + 1

-----------------------------------------------------------------------------
(* The call.                                                                *)

Goes(c, pc) == calls' = [calls EXCEPT ![c].pc = pc]

\* Handler.attributable: the page is there, visible, and in the workspace billed.
Attributable(page) == page \in pages \cup {NoPage}

\* Engine.run, up to the request.
Run(c, page, payer) ==
    /\ calls[c].pc = "new"
    /\ \A b \in 1..c - 1 : calls[b].pc # "new"
    /\ calls' = [calls EXCEPT ![c] = [pc |-> "dial", page |-> page, payer |-> payer]]
    /\ UNCHANGED <<cost, aged, pages, version, own, events, sweeps, faults>>

Write(c, page, payer) == Attributable(page) /\ Run(c, page, payer)
Transform(c, page, payer) == Attributable(page) /\ Run(c, page, payer)
Translate(c, page, payer) == Attributable(page) /\ Run(c, page, payer)
SuggestTitle(c, page, payer) == Attributable(page) /\ Run(c, page, payer)

\* An answer from several pages is bound to none.
Ask(c, payer) == Run(c, NoPage, payer)

\* The request reached Lens, which runs and bills it.
Reach(c) ==
    /\ calls[c].pc = "dial"
    /\ Goes(c, "sent")
    /\ cost' = [cost EXCEPT ![c] = @ + 1]
    /\ UNCHANGED <<aged, pages, version, own, events, sweeps, faults>>

\* Mutant: any failure is tried again.
AgainAfterAny(pc) == "dial"

\* neverSent: a refused dial is tried again until the wait is over, anything that
\* fails later is an answer.
AgainAfter(pc) == IF pc = "dial" THEN "dial" ELSE "done"

\* RoundTrip meets an error, before or after the request was written.
Break(c) ==
    /\ calls[c].pc \in {"dial", "sent"}
    /\ Fault
    /\ Goes(c, AgainAfter(calls[c].pc)) \/ Goes(c, "done")
    /\ UNCHANGED <<cost, aged, pages, version, own, events, sweeps>>

\* postWithRequestID: the answer, with the request id Lens gave it.
Answered(c) ==
    /\ calls[c].pc = "sent"
    /\ Goes(c, IF calls[c].page = NoPage THEN "done" ELSE "answered")
    /\ UNCHANGED <<cost, aged, pages, version, own, events, sweeps, faults>>

\* Engine.run and BindAISpend: one event for the request, on the revision the
\* next save makes; a failure is logged and the text returned all the same.
Bind(c) ==
    /\ calls[c].pc = "answered"
    /\ LET p == calls[c].page
       IN \/ /\ events' = IF p \in pages /\ events[c] = NoEvent
                          THEN [events EXCEPT ![c] = [state |-> "unpriced", page |-> p,
                                                      revision |-> version[p] + 1]]
                          ELSE events
             /\ UNCHANGED faults
          \/ Fault /\ UNCHANGED events
    /\ Goes(c, "done")
    /\ UNCHANGED <<cost, aged, pages, version, own, sweeps>>

-----------------------------------------------------------------------------
(* The page meanwhile, and time.                                            *)

\* page.Store.Update appends a version.
SavePage(p) ==
    /\ p \in pages
    /\ version[p] < MaxSaves
    /\ version' = [version EXCEPT ![p] = @ + 1]
    /\ UNCHANGED <<calls, cost, aged, pages, own, events, sweeps, faults>>

\* The events go with their page (ON DELETE CASCADE).
DeletePage(p) ==
    /\ p \in pages
    /\ pages' = pages \ {p}
    /\ own' = [own EXCEPT ![p] = 0]
    /\ events' = [c \in Call |-> IF events[c].page = p THEN NoEvent ELSE events[c]]
    /\ UNCHANGED <<calls, cost, aged, version, sweeps, faults>>

\* The oldest calls leave the window first, days after they were over.
Age(c) ==
    /\ cost[c] > 0 /\ c \notin aged
    /\ \A b \in 1..c : calls[b].pc = "done" /\ (b < c /\ cost[b] > 0 => b \in aged)
    /\ aged' = aged \cup {c}
    /\ UNCHANGED <<calls, cost, pages, version, own, events, sweeps, faults>>

-----------------------------------------------------------------------------
(* PageCostSyncer.Sync.                                                     *)

\* Mutant: only the first workspace is swept.
OneWorkspace == {w \in Payer : w = 1 /\ \E c \in Call : events[c].state = "unpriced" /\ calls[c].payer = w}

Unpriced(payer) == {c \in Call : events[c].state = "unpriced" /\ calls[c].payer = payer}

First(S, n) == {x \in S : Cardinality({y \in S : y < x}) < n}
Newest(S, n) == {x \in S : Cardinality({y \in S : y > x}) < n}

UnpricedWorkspaces == First({w \in Payer : Unpriced(w) # {}}, WorkspaceLimit)
UnpricedRequestIDs(payer) == Newest(Unpriced(payer), RequestLimit)

\* SpendByRequest: every row of the window, or an error and none.
SpendByRequest(payer) == {c \in Call \ aged : cost[c] > 0 /\ calls[c].payer = payer}

Enumerate(s) ==
    /\ sweeps[s] = Resting
    /\ UnpricedWorkspaces # {}
    /\ sweeps' = [sweeps EXCEPT ![s].todo = UnpricedWorkspaces]
    /\ UNCHANGED <<calls, cost, aged, pages, version, own, events, faults>>

\* syncWorkspace, up to the rows that are ours.
Pull(s) ==
    /\ sweeps[s].todo # {} /\ sweeps[s].rows = {}
    /\ LET w == Min(sweeps[s].todo)
           Ours == UnpricedRequestIDs(w) \cap SpendByRequest(w)
       IN \/ /\ sweeps' = [sweeps EXCEPT ![s] = [todo |-> @.todo \ {w}, rows |-> Ours]]
             /\ UNCHANGED faults
          \/ /\ Fault
             /\ sweeps' = [sweeps EXCEPT ![s].todo = @ \ {w}]
    /\ UNCHANGED <<calls, cost, aged, pages, version, own, events>>

\* Mutant: the price is not kept to rows that have none.
PriceableBound(c) == events[c].state # "none"

\* cost_usd IS NULL
Priceable(c) == events[c].state = "unpriced"

\* PriceAISpendWithServeSource: the event and the page in one statement.
Price(s, c) ==
    /\ c \in sweeps[s].rows
    /\ sweeps' = [sweeps EXCEPT ![s].rows = @ \ {c}]
    /\ \/ /\ IF Priceable(c)
             THEN /\ events' = [events EXCEPT ![c].state = "priced"]
                  /\ own' = [own EXCEPT ![events[c].page] = @ + cost[c]]
             ELSE UNCHANGED <<events, own>>
          /\ UNCHANGED faults
       \/ Fault /\ UNCHANGED <<events, own>>
    /\ UNCHANGED <<calls, cost, aged, pages, version>>

SweepStep(s) == Enumerate(s) \/ Pull(s) \/ (\E c \in Call : Price(s, c))

SpendNext ==
    \/ \E c \in Call, p \in Page \cup {NoPage}, w \in Payer :
           Write(c, p, w) \/ Transform(c, p, w) \/ Translate(c, p, w) \/ SuggestTitle(c, p, w)
    \/ \E c \in Call, w \in Payer : Ask(c, w)
    \/ \E c \in Call : Reach(c) \/ Break(c) \/ Answered(c) \/ Bind(c) \/ Age(c)
    \/ \E p \in Page : SavePage(p) \/ DeletePage(p)
    \/ \E s \in Sweeper : SweepStep(s)

\* The ticker of each process comes round again and the sweep's loops end.
SpendFairness == \A s \in Sweeper : WF_spVars(SweepStep(s))

SpendSpec == SpendInit /\ [][SpendNext]_spVars /\ SpendFairness

-----------------------------------------------------------------------------
Priced(p) == {c \in Call : events[c].state = "priced" /\ events[c].page = p}

\* The units billed for the calls of S, and how many they are.
Units(S) == UNION {{c} \X (1..cost[c]) : c \in S}
CostOf(S) == Cardinality(Units(S))

\* VersionCostSplit; an event of before migration 0021 has no revision and is not
\* made any more.
Attributed(p) == CostOf({c \in Priced(p) : events[c].revision <= version[p]})
Pending(p) == CostOf({c \in Priced(p) : events[c].revision > version[p]})

(* A page's own cost is what Lens billed for the priced calls bound to it, each  *)
(* billed and counted once, whatever sweeps overlap, dials are tried again and  *)
(* statements fail; and what the version history shows, with what waits for the *)
(* next save, adds up to it (ai_spend.go PriceAISpend, VersionCostSplit;        *)
(* restart.go RoundTrip).                                                      *)
OwnCostOnce ==
    /\ \A c \in Call : cost[c] <= 1
    /\ \A p \in pages : Attributed(p) + Pending(p) = own[p]

(* A bound call is priced, unless it leaves the window or its page is deleted    *)
(* first (pagecost.go Sync "prices what it can, for every workspace that has    *)
(* anything waiting").                                                         *)
EventuallyPriced ==
    \A c \in Call : events[c].state = "unpriced" ~> (events[c].state # "unpriced" \/ c \in aged)

=============================================================================
