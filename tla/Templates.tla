------------------------------ MODULE Templates -------------------------------
(***************************************************************************)
(* The template library: one template the code ships and those saved from    *)
(* pages, the requests that make a page of one, and the count of its uses    *)
(* (internal/templatelib/store.go, handler.go). A step is one statement.     *)
(***************************************************************************)
EXTENDS Naturals, FiniteSets

CONSTANTS Custom,     \* ids of templates made from pages
          Builtin,    \* the id of one in the code
          User,       \* requests that use a template
          MaxUses, MaxMishaps \* bounds

TemplatesSizes ==
    Builtin \notin Custom /\ IsFiniteSet(User) /\ {MaxUses, MaxMishaps} \subseteq Nat

VARIABLES
    saved,     \* library_templates: which rows there are
    spent,     \* ids of deleted ones
    useCount,  \* use_count of a row; builtinUses of the one in the code
    using,     \* each request's template and how far it is
    minted,    \* pages made of each template
    uncounted, \* history: of them, those a failure or a restart left out of the count
    uses, mishaps

tlVars == <<saved, spent, useCount, using, minted, uncounted, uses, mishaps>>

Template == Custom \cup {Builtin}
Rest == [pc |-> "rest", of |-> Builtin]

TemplatesTypeOK ==
    /\ saved \subseteq Custom /\ spent \subseteq Custom \ saved
    /\ {useCount, minted, uncounted} \subseteq [Template -> 0..MaxUses]
    /\ using \in [User -> [pc : {"rest", "create", "bump"}, of : Template]]
    /\ uses \in 0..MaxUses /\ mishaps \in 0..MaxMishaps

TemplatesInit ==
    /\ saved = {} /\ spent = {}
    /\ useCount = [t \in Template |-> 0]
    /\ minted = [t \in Template |-> 0] /\ uncounted = [t \in Template |-> 0]
    /\ using = [u \in User |-> Rest] /\ uses = 0 /\ mishaps = 0

Mishap == mishaps < MaxMishaps /\ mishaps' = mishaps + 1
More(f, t) == [f EXCEPT ![t] = @ + 1]

\* A page's content is read and copied; later saves of the page do not reach it.
CreateFromPage(t) ==
    /\ t \in Custom \ (saved \cup spent)
    /\ saved' = saved \cup {t}
    /\ UNCHANGED <<spent, useCount, using, minted, uncounted, uses, mishaps>>

\* UseTemplate looks the template up, ...
GetByID(u, t) ==
    /\ using[u].pc = "rest" /\ uses < MaxUses
    /\ t \in saved \cup {Builtin}
    /\ using' = [using EXCEPT ![u] = [pc |-> "create", of |-> t]]
    /\ uses' = uses + 1
    /\ UNCHANGED <<saved, spent, useCount, minted, uncounted, mishaps>>

\* ... makes the page, ...
MintPage(u) ==
    LET t == using[u].of
    IN /\ using[u].pc = "create"
       /\ minted' = More(minted, t)
       /\ using' = [using EXCEPT ![u].pc = "bump"]
       /\ UNCHANGED <<saved, spent, useCount, uncounted, uses, mishaps>>

\* (Create is refused, or fails before or after the page was there)
MintFails(u) ==
    LET t == using[u].of
    IN /\ using[u].pc = "create" /\ Mishap
       /\ using' = [using EXCEPT ![u] = Rest]
       /\ \/ UNCHANGED <<minted, uncounted>>
          \/ minted' = More(minted, t) /\ uncounted' = More(uncounted, t)
       /\ UNCHANGED <<saved, spent, useCount, uses>>

\* ... and counts it: a row that was deleted counts nothing, a failure is logged.
Bump(u) ==
    LET t == using[u].of
    IN /\ using[u].pc = "bump"
       /\ using' = [using EXCEPT ![u] = Rest]
       /\ \/ /\ useCount' = IF t \in spent THEN useCount ELSE More(useCount, t)
             /\ UNCHANGED <<uncounted, mishaps>>
          \/ t # Builtin /\ Mishap /\ uncounted' = More(uncounted, t) /\ UNCHANGED useCount
       /\ UNCHANGED <<saved, spent, minted, uses>>

Delete(t) ==
    /\ t \in saved
    /\ saved' = saved \ {t} /\ spent' = spent \cup {t}
    /\ useCount' = [useCount EXCEPT ![t] = 0]
    /\ UNCHANGED <<using, minted, uncounted, uses, mishaps>>

InFlight(t) == Cardinality({u \in User : using[u] = [pc |-> "bump", of |-> t]})

\* The process restarts: the requests end, and its own counter starts again.
Restart ==
    /\ Mishap
    /\ using' = [u \in User |-> Rest]
    /\ uncounted' = [t \in Template |-> uncounted[t] + InFlight(t)
                                        + IF t = Builtin THEN useCount[t] ELSE 0]
    /\ useCount' = [useCount EXCEPT ![Builtin] = 0]
    /\ UNCHANGED <<saved, spent, minted, uses>>

TemplatesNext ==
    \/ \E t \in Custom : CreateFromPage(t) \/ Delete(t)
    \/ \E u \in User : MintPage(u) \/ MintFails(u) \/ Bump(u)
                       \/ \E t \in Template : GetByID(u, t)
    \/ Restart

-----------------------------------------------------------------------------
(* A template's count is the pages made of it, less those still to be counted   *)
(* and those a failure left out: it never tells of a use that did not happen    *)
(* (store.go UseTemplate "undercounts a use that happened, rather than          *)
(* claiming one that did not").                                                *)
UsesAreCounted ==
    \A t \in saved \cup {Builtin} :
        useCount[t] + InFlight(t) + uncounted[t] = minted[t]
=============================================================================
