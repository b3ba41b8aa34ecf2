------------------------------- MODULE Access -------------------------------
(***************************************************************************)
(* Who may do what with a space and a page of it: the rows that say so       *)
(* (permission, space, team, membership) and one request that reads them,    *)
(* statement by statement, while other requests change them.                *)
(***************************************************************************)
EXTENDS Naturals, Sequences, SequencesExt

CONSTANTS Member, Team, \* who may ask and be granted, themselves or through a team
          Stranger,     \* the one who created the space where none of Member did
          GrantLevels,  \* the levels grants are made of here
          MaxChanges, MaxTroubles \* bounds

ASSUME AccessAssumption ==
    /\ Stranger \notin Member
    /\ GrantLevels \subseteq {"view", "comment", "edit", "admin"}
    /\ {MaxChanges, MaxTroubles} \subseteq Nat

VARIABLES
    past, \* what the tables have held; the last is what they hold
    ask,  \* the request
    troubles

acVars == <<past, ask, troubles>>

On == {"space", "page"}
Subject == Member \cup Team \cup {"everyone"}

Rank == [none |-> 0, view |-> 1, comment |-> 2, edit |-> 3, admin |-> 4]
Level == DOMAIN Rank
Higher(a, b) == IF Rank[a] >= Rank[b] THEN a ELSE b
AtLeast(a, b) == Rank[a] >= Rank[b]

\* A grant of level "none" is no row.
World == [members : SUBSET Member, creator : Member \cup {Stranger}, private : BOOLEAN,
          there : SUBSET On,
          grants : [On \X Subject -> Level], roster : [Team -> SUBSET Member]]

Now == Last(past)
NoGrants == [s \in Subject |-> "none"]
NoAsk == [pc |-> "none", who |-> "", on |-> "page", need |-> "none", due |-> "none",
          in |-> FALSE, creator |-> FALSE, private |-> FALSE, read |-> NoGrants, spoiled |-> FALSE,
          from |-> 1, till |-> 1, ok |-> FALSE]

AccessTypeOK ==
    /\ past \in Seq(World) /\ Len(past) \in 1..MaxChanges + 1
    /\ ask \in [pc : {"none", "meta", "spaceGrants", "grants", "decide", "done"},
                who : Member \cup {""}, on : On, need : Level, due : Level, in : BOOLEAN,
                creator : BOOLEAN, private : BOOLEAN,
                read : [Subject -> Level], spoiled : BOOLEAN,
                from : Nat, till : Nat, ok : BOOLEAN]

FirstWorld(creator, private, r, x, l) ==
    [members |-> Member, creator |-> creator, private |-> private, there |-> On, roster |-> r,
     grants |-> [y \in On \X Subject |-> IF y = x THEN l ELSE "none"]]

\* At most one grant at first; the others are made while the request runs.
AccessInit ==
    /\ \E creator \in Member \cup {Stranger}, private \in BOOLEAN, r \in [Team -> SUBSET Member],
          x \in On \X Subject, l \in GrantLevels \cup {"none"} :
           /\ x[2] \in Team => l # "admin"
           /\ past = <<FirstWorld(creator, private, r, x, l)>>
    /\ ask = NoAsk /\ troubles = 0

-----------------------------------------------------------------------------
(* The statements other requests end in, while this one has something left to read. *)

TeamGranted(read) == \E t \in Team : read[t] # "none"

Change(w) ==
    /\ ask.pc \notin {"none", "done"}
    /\ ask.pc = "decide" => TeamGranted(ask.read)
    /\ Len(past) <= MaxChanges
    /\ w # Now
    /\ past' = Append(past, w)
    /\ UNCHANGED <<ask, troubles>>

\* Store.Grant: one row a subject; a team gets at most edit.
Grant(on, s, level) ==
    /\ on \in Now.there
    /\ s \in Team => level # "admin"
    /\ Change([Now EXCEPT !.grants[<<on, s>>] = level])

RevokeByID(on, s) == Change([Now EXCEPT !.grants[<<on, s>>] = "none"])

UpdateSpace(private) == "space" \in Now.there /\ Change([Now EXCEPT !.private = private])

\* The pages go with their space; permissions have no foreign key and stay.
DeleteSpace == Change([Now EXCEPT !.there = {}])
DeletePage == Change([Now EXCEPT !.there = @ \ {"page"}])

AddMember(t, m) == m \in Now.members /\ Change([Now EXCEPT !.roster[t] = @ \cup {m}])
RemoveMember(t, m) == Change([Now EXCEPT !.roster[t] = @ \ {m}])

\* ReconcileWorkspace
Reconcile(members) == Change([Now EXCEPT !.members = members])

-----------------------------------------------------------------------------
(* What each door asks for.                                                 *)

\* What the routes require; search is what a result row needs.
RouteNeeds ==
    [get_page |-> "view", get_page_analytics |-> "view", search_docs |-> "view",
     list_pages |-> "view", get_space_tree |-> "view", comment |-> "comment",
     update_page |-> "edit", verify_page |-> "edit", create_page |-> "edit", import |-> "edit",
     share |-> "admin", permit_page |-> "admin", permit_space |-> "admin", update_space |-> "admin"]

OnSpace == {"list_pages", "get_space_tree", "create_page", "import", "permit_space", "update_space"}

\* mcp.Server: writeTools, gatedReadTools, and the tools that filter what they answer.
WriteTools == {"create_page", "update_page", "verify_page"}
GatedReadTools == {"list_pages", "get_page_analytics"}
FilteredTools == {"search_docs", "get_page", "get_space_tree"}
ToolNeeds(op) == IF op \in WriteTools THEN "edit" ELSE "view"

\* spaceauth.Authorizer, where a handler or an engine checks for itself.
CheckedWrites == {"import"}
CheckedReads == {"search_docs", "get_page"}

DoorNeeds(door, op) ==
    CASE door = "rest" -> RouteNeeds[op]
      [] door = "mcp" -> ToolNeeds(op)
      [] door = "check" -> IF op \in CheckedWrites THEN "edit" ELSE "view"

Behind ==
    [rest |-> DOMAIN RouteNeeds \ {"search_docs", "get_space_tree", "import"},
     mcp |-> WriteTools \cup GatedReadTools \cup FilteredTools,
     check |-> CheckedWrites \cup CheckedReads]

-----------------------------------------------------------------------------
(* The request.                                                             *)

Stays == UNCHANGED <<past, troubles>>

Finish(ok) == ask' = [ask EXCEPT !.pc = "done", !.ok = ok, !.till = Len(past)]

Trouble == troubles < MaxTroubles /\ troubles' = troubles + 1 /\ UNCHANGED past

\* authz.Middleware: the memberships are read once, and last for the request.
Middleware(m, op, door) ==
    /\ ask.pc = "none"
    /\ ask' = [NoAsk EXCEPT !.pc = "meta", !.who = m, !.in = m \in Now.members,
                            !.on = IF op \in OnSpace THEN "space" ELSE "page",
                            !.need = DoorNeeds(door, op), !.due = RouteNeeds[op],
                            !.from = Len(past)]
    /\ Stays

\* The resource, in the caller's workspaces, and the caller's member id there.
ReadMeta ==
    /\ ask.pc = "meta"
    /\ IF ask.in /\ ask.on \in Now.there
       THEN ask' = [ask EXCEPT !.pc = IF ask.on = "page" THEN "spaceGrants" ELSE "grants",
                               !.private = Now.private, !.creator = ask.who = Now.creator]
       ELSE Finish(FALSE)
    /\ Stays

Rows(on) == [s \in Subject |-> Now.grants[<<on, s>>]]
Merged(f, g) == [s \in Subject |-> Higher(f[s], g[s])]

\* A page's space grants; a read that fails counts as none.
ReadSpaceGrants ==
    /\ ask.pc = "spaceGrants"
    /\ \/ ask' = [ask EXCEPT !.pc = "grants", !.read = Rows("space")] /\ Stays
       \/ ask' = [ask EXCEPT !.pc = "grants", !.spoiled = TRUE] /\ Trouble

\* Mutant: a grant on the page stands in for those on its space.
OwnGrantsFirst(read, own) == [s \in Subject |-> IF own[s] # "none" THEN own[s] ELSE read[s]]

\* The best of both.
AllGrants(read, own) == Merged(read, own)

\* Store.Check, the grants on the resource itself.
ReadGrants ==
    /\ ask.pc = "grants"
    /\ \/ ask' = [ask EXCEPT !.pc = "decide", !.read = AllGrants(ask.read, Rows(ask.on))] /\ Stays
       \/ ask' = [ask EXCEPT !.pc = "done", !.spoiled = TRUE, !.till = Len(past)] /\ Trouble

\* resolveAccessForTeams
Resolve(who, creator, read, teams, private) ==
    LET Counts(s) == s \in {who, "everyone"} \cup teams
        best == CHOOSE l \in Level :
                    /\ l = "none" \/ \E s \in Subject : Counts(s) /\ read[s] = l
                    /\ \A s \in Subject : Counts(s) => AtLeast(l, read[s])
    IN IF creator THEN "admin"
       ELSE IF best # "none" THEN best
       ELSE IF private THEN "none" ELSE "view"

\* memberTeams, asked only where a team has a grant, and the comparison.
Decide ==
    /\ ask.pc = "decide"
    /\ \/ LET teams == IF TeamGranted(ask.read)
                       THEN {t \in Team : ask.who \in Now.roster[t]} ELSE {}
          IN Finish(AtLeast(Resolve(ask.who, ask.creator, ask.read, teams, ask.private), ask.need))
          /\ Stays
       \/ /\ TeamGranted(ask.read)
          /\ ask' = [ask EXCEPT !.pc = "done", !.spoiled = TRUE, !.till = Len(past)]
          /\ Trouble

AccessNext ==
    \/ \E on \in On, s \in Subject :
           RevokeByID(on, s) \/ \E l \in GrantLevels : Grant(on, s, l)
    \/ \E private \in BOOLEAN : UpdateSpace(private)
    \/ DeleteSpace \/ DeletePage
    \/ \E t \in Team, m \in Member : AddMember(t, m) \/ RemoveMember(t, m)
    \/ \E members \in SUBSET Member : Reconcile(members)
    \/ \E door \in DOMAIN Behind : \E m \in Member, op \in Behind[door] : Middleware(m, op, door)
    \/ ReadMeta \/ ReadSpaceGrants \/ ReadGrants \/ Decide

AccessSpec == AccessInit /\ [][AccessNext]_acVars

-----------------------------------------------------------------------------
\* Grounds that are no grant: the space is open to its workspace, or is one's own.
Open == <<"open", "">>
Own == <<"own", "">>

\* Why a member may do something on a resource that takes a level: the rows that say so,
\* with the teams of another moment.
Grounds(w, roster, who, on, level) ==
    {x \in On \X Subject :
        /\ on = "space" => x[1] = "space"
        /\ AtLeast(w.grants[x], level)
        /\ x[2] \in {who, "everyone"} \/ (x[2] \in Team /\ who \in roster[x[2]])}
        \cup {x \in {Open} : ~w.private /\ level = "view"}
        \cup {x \in {Own} : who = w.creator}

Window == ask.from..ask.till

(* Every door decides by one rule, the level its route takes, whatever grants,     *)
(* teams, settings and memberships change while it reads them: who is let through  *)
(* had a ground at some moment of the request (a team's grant and the place on the *)
(* team may be of two), and who has the same ground all along is let through,      *)
(* unless a read failed; a failed read never lets in (permission/store.go          *)
(* resolveAccess, CheckPage; middleware.go RequireAccess; mcp/server.go callTool). *)
DecidedByRule ==
    ask.pc = "done" =>
        /\ ask.ok => /\ ask.who \in past[ask.from].members
                     /\ \E i, j \in Window :
                            i <= j /\ Grounds(past[i], past[j].roster, ask.who, ask.on, ask.due) # {}
        /\ \/ ask.ok \/ ask.spoiled \/ ask.who \notin past[ask.from].members
           \/ \E i \in Window : ask.on \notin past[i].there
           \/ \A x \in (On \X Subject) \cup {Open, Own} :
                  \E i \in Window : x \notin Grounds(past[i], past[i].roster, ask.who, ask.on, ask.due)

=============================================================================
