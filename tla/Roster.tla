------------------------------- MODULE Roster -------------------------------
(***************************************************************************)
(* workspace_members of one workspace and the two ways it follows Track's    *)
(* roster: the sweep of each process, and the service route a new identity   *)
(* calls (trackintegration/syncer.go, membership/store.go).                  *)
(***************************************************************************)
EXTENDS Naturals, FiniteSets

CONSTANTS Person,
          Loop,       \* the sweeps
          Nudge,      \* calls of the service route
          PageLimit,  \* memberPageLimit
          MaxMoves, MaxMisses \* bounds

RosterSizes == {PageLimit, MaxMoves, MaxMisses} \subseteq Nat

VARIABLES
    listed,   \* Track: who belongs to the workspace
    known,    \* Track: the workspace is in its list
    content,  \* Docs has a space or a page of the workspace
    rows,     \* workspace_members: the source of each person's row
    pulls,    \* the rosters pulled and not yet written
    moves, misses,
    always    \* history: who has been listed from the start

roVars == <<listed, known, content, rows, pulls, moves, misses, always>>

Runner == Loop \cup Nudge
Source == {"none", "track", "manual"}
Idle == [pc |-> "idle", refs |-> {}]

RosterTypeOK ==
    /\ listed \subseteq Person /\ always \subseteq listed
    /\ known \in BOOLEAN /\ content \in BOOLEAN
    /\ rows \in [Person -> Source]
    /\ pulls \in [Runner -> [pc : {"idle", "pull", "write", "over"}, refs : SUBSET Person]]
    /\ moves \in 0..MaxMoves /\ misses \in 0..MaxMisses

RosterInit ==
    /\ listed \in SUBSET Person
    /\ known = TRUE
    /\ content \in BOOLEAN
    /\ rows \in [Person -> {"none", "manual"}]
    /\ Cardinality({p \in Person : rows[p] = "manual"}) <= 1
    /\ pulls = [r \in Runner |-> Idle]
    /\ moves = 0 /\ misses = 0
    /\ always = listed

Miss == misses < MaxMisses /\ misses' = misses + 1
Move == moves < MaxMoves /\ moves' = moves + 1
Goes(r, pc, refs) == pulls' = [pulls EXCEPT ![r] = [pc |-> pc, refs |-> refs]]

-----------------------------------------------------------------------------
(* Track, and what Docs holds of the workspace.                             *)

Join(p) == /\ p \notin listed /\ Move
           /\ listed' = listed \cup {p}
           /\ UNCHANGED <<known, content, rows, pulls, misses, always>>

Leave(p) == /\ p \in listed /\ Move
            /\ listed' = listed \ {p}
            /\ always' = always \ {p}
            /\ UNCHANGED <<known, content, rows, pulls, misses>>

Retire == /\ known /\ Move
          /\ known' = FALSE
          /\ UNCHANGED <<listed, content, rows, pulls, misses, always>>

FirstContent == /\ ~content /\ Move
                /\ content' = TRUE
                /\ UNCHANGED <<listed, known, rows, pulls, misses, always>>

-----------------------------------------------------------------------------
\* enumerateWorkspaces: Track's list, empty or not, is the answer; only when it cannot
\* be had the workspaces with content are asked for, and that can fail too.
Enumerate(r) ==
    /\ r \in Loop /\ pulls[r].pc = "idle"
    /\ \/ known /\ Goes(r, "pull", {}) /\ UNCHANGED misses
       \/ content /\ Miss /\ Goes(r, "pull", {})
       \/ Miss /\ UNCHANGED pulls
    /\ UNCHANGED <<listed, known, content, rows, moves, always>>

\* handleMemberSync
MemberSync(r) ==
    /\ r \in Nudge /\ pulls[r].pc = "idle"
    /\ Goes(r, "pull", {})
    /\ UNCHANGED <<listed, known, content, rows, moves, misses, always>>

After(r) == IF r \in Nudge THEN "over" ELSE "idle"

\* Mutant: a full page is taken for a roster.
AnyPage(page) == TRUE

\* A full page may be a part of the roster.
Whole(page) == Cardinality(page) < PageLimit

\* GetWorkspaceMembers: one page of Track's list, or an error.
Pull(r) ==
    /\ pulls[r].pc = "pull"
    /\ \/ /\ \E page \in SUBSET listed :
                 /\ Cardinality(page) <= PageLimit
                 /\ page = listed \/ Cardinality(page) = PageLimit
                 /\ IF Whole(page) THEN Goes(r, "write", page) ELSE Goes(r, After(r), {})
          /\ UNCHANGED misses
       \/ Miss /\ Goes(r, After(r), {})
    /\ UNCHANGED <<listed, known, content, rows, moves, always>>

\* Mutant: the pull adds and never takes away.
Unpruned(refs) == [p \in Person |-> IF p \in refs /\ rows[p] = "none" THEN "track" ELSE rows[p]]

\* ReconcileWorkspace's transaction; an empty pull changes nothing.
Reconciled(refs) ==
    [p \in Person |-> IF rows[p] = "manual" \/ refs = {} THEN rows[p]
                      ELSE IF p \in refs THEN "track" ELSE "none"]

Reconcile(r) ==
    /\ pulls[r].pc = "write"
    /\ Goes(r, After(r), {})
    /\ \/ rows' = Reconciled(pulls[r].refs) /\ UNCHANGED misses
       \/ Miss /\ UNCHANGED rows
    /\ UNCHANGED <<listed, known, content, moves, always>>

RunnerStep(r) == Enumerate(r) \/ MemberSync(r) \/ Pull(r) \/ Reconcile(r)

RosterNext ==
    \/ \E p \in Person : Join(p) \/ Leave(p)
    \/ Retire \/ FirstContent
    \/ \E r \in Runner : RunnerStep(r)

\* The ticker of each process comes round again, and a request that began ends.
RosterFairness ==
    /\ \A r \in Loop : WF_roVars(RunnerStep(r))
    /\ \A r \in Nudge : WF_roVars(Pull(r) \/ Reconcile(r))

RosterSpec == RosterInit /\ [][RosterNext]_roVars /\ RosterFairness

-----------------------------------------------------------------------------
(* Who is listed in Track all along keeps the row once there is one: pulls that   *)
(* overlap, are empty, fail or come short take nobody's membership away           *)
(* (client.go GetWorkspaceMembers "a full page is not a roster"; syncer.go        *)
(* SyncOneWorkspace "a pull that failed is not evidence that nobody is a member"). *)
NoneLostWhileListed ==
    [][\A p \in always' : rows[p] # "none" => rows'[p] # "none"]_roVars

(* When Track's roster has come to rest, the table comes to it and stays, whatever *)
(* older pulls were still to be written (service_handler.go "a retry, or two       *)
(* logins racing, costs a round-trip and changes nothing").  A roster that is      *)
(* empty, or fills a page, is not taken over.                                    *)
RosterConverges ==
    <>[](known /\ listed # {} /\ Whole(listed) =>
            \A p \in Person : rows[p] # "manual" => (rows[p] = "track" <=> p \in listed))

=============================================================================
