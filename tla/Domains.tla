------------------------------- MODULE Domains -------------------------------
(***************************************************************************)
(* Custom domains (customdomain/store.go, middleware.go, handler.go): an     *)
(* admin maps a host name to a space of his workspace, proves by a TXT record *)
(* that the name is his, and from then on anybody reads the space under it.   *)
(* Each step is one statement or one DNS lookup; several admins work at once. *)
(***************************************************************************)
EXTENDS Naturals, FiniteSets

CONSTANTS Host, Space,
          Owner,      \* the workspace of each space
          Admin,      \* requests of admins
          MaxDomains, \* MaxDomainsPerWorkspace
          MaxRows, MaxFlips \* bounds: rows made; changes of spaces and DNS

NoSpace == "none"
Workspace == {Owner[s] : s \in Space}

DomainsSizes ==
    /\ Owner = [s \in Space |-> Owner[s]] /\ NoSpace \notin Space /\ "" \notin Workspace
    /\ MaxDomains \in Nat \ {0} /\ {MaxRows, MaxFlips} \subseteq Nat

VARIABLES
    domains, \* custom_domains, by name
    last,    \* the ids given out
    public,  \* the spaces that are not private
    gone,    \* the spaces deleted
    txt,     \* DNS: the rows whose token each name carries
    admin,   \* each request's step and locals
    guest,   \* one request under a domain
    flips,
    proved,  \* history: the rows whose token their name has carried
    crowded  \* history: two creates of a workspace overlapped

dmVars == <<domains, last, public, gone, txt, admin, guest, flips, proved, crowded>>

NoDomain == [id |-> 0, ws |-> "", space |-> NoSpace, verified |-> FALSE]
Idle == [pc |-> "idle"]
NoGuest == [pc |-> "idle"]

DomainsInit ==
    /\ domains = [h \in Host |-> NoDomain] /\ last = 0
    /\ public = Space /\ gone = {} /\ txt = [h \in Host |-> {}]
    /\ admin = [a \in Admin |-> Idle] /\ guest = NoGuest /\ flips = 0
    /\ proved = {} /\ crowded = {}

-----------------------------------------------------------------------------
Of(w) == {h \in Host : domains[h].ws = w}
Creating(w) == {a \in Admin : admin[a].pc \in {"count", "insert"} /\ admin[a].ws = w}

\* Create: the space is of the workspace and not private.
Create(a, w, h, s) ==
    /\ admin[a].pc = "idle" /\ last < MaxRows
    /\ s # NoSpace => s \in public \ gone /\ Owner[s] = w
    /\ admin' = [admin EXCEPT ![a] = [pc |-> "count", ws |-> w, host |-> h, space |-> s]]
    /\ crowded' = IF Creating(w) # {} THEN crowded \cup {w} ELSE crowded
    /\ UNCHANGED <<domains, last, public, gone, txt, guest, flips, proved>>

Count(a) ==
    /\ admin[a].pc = "count"
    /\ admin' = IF Cardinality(Of(admin[a].ws)) < MaxDomains
                THEN [admin EXCEPT ![a].pc = "insert"] ELSE [admin EXCEPT ![a] = Idle]
    /\ UNCHANGED <<domains, last, public, gone, txt, guest, flips, proved, crowded>>

\* A name is taken once, and the space must be there; that it was public is not
\* asked again.
Insert(a) ==
    LET r == admin[a]
    IN /\ r.pc = "insert"
       /\ admin' = [admin EXCEPT ![a] = Idle]
       /\ IF domains[r.host] = NoDomain /\ r.space \notin gone /\ last < MaxRows
          THEN /\ domains' = [domains EXCEPT ![r.host] = [id |-> last + 1, ws |-> r.ws,
                                                         space |-> r.space, verified |-> FALSE]]
               /\ last' = last + 1
          ELSE UNCHANGED <<domains, last>>
       /\ UNCHANGED <<public, gone, txt, guest, flips, proved, crowded>>

\* Verify: the row of the id, then the name's TXT records, then the row again.
Verify(a, h) ==
    /\ admin[a].pc = "idle" /\ domains[h].id # 0 /\ ~domains[h].verified
    /\ admin' = [admin EXCEPT ![a] = [pc |-> "lookup", id |-> domains[h].id, host |-> h]]
    /\ UNCHANGED <<domains, last, public, gone, txt, guest, flips, proved, crowded>>

LookupTXT(a) ==
    /\ admin[a].pc = "lookup"
    /\ \/ admin[a].id \in txt[admin[a].host] /\ admin' = [admin EXCEPT ![a].pc = "mark"]
       \/ admin' = [admin EXCEPT ![a] = Idle]
    /\ UNCHANGED <<domains, last, public, gone, txt, guest, flips, proved, crowded>>

\* Mutant: the row of the name is marked, whichever it is by now.
NamedRow(a) == {admin[a].host}

Row(a) == {h \in Host : domains[h].id = admin[a].id}

MarkVerified(a) ==
    /\ admin[a].pc = "mark"
    /\ admin' = [admin EXCEPT ![a] = Idle]
    /\ domains' = [h \in Host |-> IF h \in Row(a) THEN [domains[h] EXCEPT !.verified = TRUE]
                                  ELSE domains[h]]
    /\ UNCHANGED <<last, public, gone, txt, guest, flips, proved, crowded>>

Delete(h) ==
    /\ domains[h].id # 0
    /\ domains' = [domains EXCEPT ![h] = NoDomain]
    /\ UNCHANGED <<last, public, gone, txt, admin, guest, flips, proved, crowded>>

-----------------------------------------------------------------------------
\* Whoever holds a name puts a row's token into it, or takes it out.
Publish(h) ==
    /\ flips < MaxFlips /\ domains[h].id # 0
    /\ flips' = flips + 1
    /\ \/ txt' = [txt EXCEPT ![h] = @ \cup {domains[h].id}] /\ proved' = proved \cup {domains[h].id}
       \/ txt' = [txt EXCEPT ![h] = {}] /\ UNCHANGED proved
    /\ UNCHANGED <<domains, last, public, gone, admin, guest, crowded>>

\* Spaces are made private and public, and deleted; a row then maps to none.
ChangeSpace(s) ==
    /\ flips < MaxFlips /\ s \notin gone
    /\ flips' = flips + 1
    /\ \/ public' \in {public \ {s}, public \cup {s}} /\ UNCHANGED <<gone, domains>>
       \/ /\ gone' = gone \cup {s} /\ UNCHANGED public
          /\ domains' = [h \in Host |-> IF domains[h].space = s
                                        THEN [domains[h] EXCEPT !.space = NoSpace] ELSE domains[h]]
    /\ UNCHANGED <<last, txt, admin, guest, proved, crowded>>

-----------------------------------------------------------------------------
\* DomainRouter: a verified name; every other host is the application itself.
DomainRouter(h) ==
    /\ guest.pc = "idle"
    /\ domains[h].verified /\ domains[h].space # NoSpace
    /\ guest' = [pc |-> "servable", space |-> domains[h].space, id |-> domains[h].id,
                 ws |-> domains[h].ws, seen |-> FALSE]
    /\ UNCHANGED <<domains, last, public, gone, txt, admin, flips, proved, crowded>>

\* servable, on every request: a space that is gone, or private since, is not.
servable ==
    /\ guest.pc = "servable"
    /\ guest' = [guest EXCEPT !.pc = IF guest.space \in public \ gone THEN "load" ELSE "refused",
                              !.seen = guest.space \in public \ gone]
    /\ UNCHANGED <<domains, last, public, gone, txt, admin, flips, proved, crowded>>

\* publicIndex, publicPage: the pages of the space, if there are any.
Load ==
    /\ guest.pc = "load"
    /\ guest' = IF guest.space \in gone THEN [guest EXCEPT !.pc = "refused"]
                ELSE [guest EXCEPT !.pc = "shown"]
    /\ UNCHANGED <<domains, last, public, gone, txt, admin, flips, proved, crowded>>

DomainsNext ==
    \/ servable \/ Load
    \/ \E a \in Admin :
          \/ Count(a) \/ Insert(a) \/ LookupTXT(a) \/ MarkVerified(a)
          \/ \E h \in Host : Verify(a, h)
          \/ \E h \in Host, w \in Workspace, s \in Space \cup {NoSpace} : Create(a, w, h, s)
    \/ \E h \in Host : Delete(h) \/ Publish(h) \/ DomainRouter(h)
    \/ \E s \in Space : ChangeSpace(s)

-----------------------------------------------------------------------------
(* What a domain shows is a space of the workspace that proved the name its own   *)
(* in that very row, and was public while it was asked for; a row that took the    *)
(* name over later shows nothing by another's proof (store.go Create, Verify,      *)
(* handler.go servable).                                                        *)
ServedByItsOwner ==
    /\ \A h \in Host : domains[h].verified => domains[h].id \in proved
    /\ guest.pc = "shown" => guest.seen /\ guest.id \in proved /\ Owner[guest.space] = guest.ws

(* A workspace has no more domains than it may, unless it made two at once.       *)
QuotaHolds == \A w \in Workspace : w \notin crowded => Cardinality(Of(w)) <= MaxDomains

DomainsStand == ServedByItsOwner /\ QuotaHolds
=============================================================================
