------------------------------- MODULE Shares -------------------------------
(***************************************************************************)
(* internal/sharing: links by which a page is shown without an account. The  *)
(* token of a link is its nonce signed under the process's key; a visit       *)
(* reads the link, counts itself and loads the page in three steps.          *)
(***************************************************************************)
EXTENDS Naturals, FiniteSets

CONSTANTS Link, Page, \* links, and pages they are for
          Old,        \* the links made before tokens were signed
          Key,        \* the secrets the process may be started with
          MaxClock, MaxVisits, MaxTroubles, MaxRestarts \* bounds

None == "none"
Unsigned == "unsigned"

SharesSizes ==
    /\ Old \subseteq Link
    /\ None \notin Key /\ Unsigned \notin Key /\ None \notin Page
    /\ MaxClock \in Nat
    /\ Page # {}

VARIABLES
    links, \* the table
    there, \* the pages in theirs
    key,   \* the process's
    known, \* the tokens people were given
    clock, visit, visits, troubles, restarts,
    ended  \* links an admin of their page revoked, or whose page was deleted

shVars == <<links, there, key, known, clock, visit, visits, troubles, restarts, ended>>

Token == [link : Link, by : Key \cup {Unsigned}]
Never == MaxClock + 1
Row == [page : Page, expires : 0..Never, password : BOOLEAN, views : 0..MaxVisits]
NoRow == [page |-> None, expires |-> 0, password |-> FALSE, views |-> 0]
NoVisit == [pc |-> "idle"]

SharesTypeOK ==
    /\ links \in [Link -> Row \cup {NoRow}]
    /\ there \subseteq Page /\ key \in Key \cup {None} /\ known \subseteq Token
    /\ clock \in 0..MaxClock /\ {visits, troubles, restarts} \subseteq Nat
    /\ ended \subseteq Link
    /\ visit.pc \in {"idle", "read", "count", "load", "shown", "refused"}

\* The links of before are there, and so are their tokens, which are their nonces.
SharesInit ==
    /\ links = [l \in Link |->
                   IF l \in Old THEN [page |-> CHOOSE p \in Page : TRUE, expires |-> Never,
                                     password |-> FALSE, views |-> 0]
                   ELSE NoRow]
    /\ known = [link : Old, by : {Unsigned}]
    /\ there = Page
    /\ key \in Key \cup {None}
    /\ clock = 0 /\ visit = NoVisit /\ visits = 0 /\ troubles = 0 /\ restarts = 0
    /\ ended = {}

-----------------------------------------------------------------------------
(* The handler's routes for an admin of the page.                           *)

\* What a link is presented as: its token under the key of now.
Present(l) == [link |-> l, by |-> IF key = None THEN Unsigned ELSE key]

\* The row Store.Create inserts.
NewRow(p, expires, password) ==
    [page |-> p, expires |-> expires, password |-> password, views |-> 0]

\* Handler.Create, Store.Create
Create(l, p, expires, password) ==
    /\ key # None
    /\ p \in there
    /\ links[l] = NoRow /\ l \notin ended
    /\ links' = [links EXCEPT ![l] = NewRow(p, expires, password)]
    /\ known' = known \cup {Present(l)}
    /\ UNCHANGED <<there, key, clock, visit, visits, troubles, restarts, ended>>

LinksOf(p) == {l \in Link : links[l] # NoRow /\ links[l].page = p}

\* Handler.List, ListByPage: the links of a page, each under the key of now.
List(p) ==
    /\ p \in there
    /\ known' = known \cup {Present(l) : l \in LinksOf(p)}
    /\ UNCHANGED <<links, there, key, clock, visit, visits, troubles, restarts, ended>>

\* Mutant: the link is deleted by its id alone.
AnyLink(l, p) == links[l] # NoRow

\* A link is revoked through its own page only.
Revocable(l, p) == l \in LinksOf(p)

\* Handler.Revoke, Store.Revoke
Revoke(l, p) ==
    /\ p \in there
    /\ Revocable(l, p)
    /\ links' = [links EXCEPT ![l] = NoRow]
    /\ ended' = ended \cup (LinksOf(p) \cap {l})
    /\ UNCHANGED <<there, key, known, clock, visit, visits, troubles, restarts>>

\* The foreign key's cascade takes a page's links with it.
DeletePage(p) ==
    /\ there' = there \ {p}
    /\ links' = [l \in Link |-> IF l \in LinksOf(p) THEN NoRow ELSE links[l]]
    /\ ended' = ended \cup LinksOf(p)
    /\ UNCHANGED <<key, known, clock, visit, visits, troubles, restarts>>

\* WithSigningSecret, as the process starts; a visit in flight is gone.
Restart(k) ==
    /\ restarts < MaxRestarts
    /\ key' = k /\ visit' = NoVisit /\ restarts' = restarts + 1
    /\ UNCHANGED <<links, there, known, clock, visits, troubles, ended>>

Tick == clock < MaxClock /\ clock' = clock + 1
        /\ UNCHANGED <<links, there, key, known, visit, visits, troubles, restarts, ended>>

-----------------------------------------------------------------------------
(* A visit.                                                                 *)

\* A nonce made since tokens are signed carries a prefix.
Prefixed(l) == l \notin Old

\* Mutant: a token without a signature is left to the lookup.
NonceOfBare(t) == t.by \in {Unsigned, key}

\* nonceOf: a signature under the key of now, or a bare nonce without the prefix.
NonceOf(t) == IF t.by = Unsigned THEN ~Prefixed(t.link) ELSE t.by = key

\* A token people were given, or one whose signature got lost on the way.
Presentable == known \cup [link : {t.link : t \in known}, by : {Unsigned}]

\* Given out, under the key of now or before keys, and its link not ended.
Stands(t) ==
    /\ t \in known
    /\ t.by = key \/ (t.by = Unsigned /\ t.link \in Old)
    /\ t.link \notin ended

\* Handler.Public
Visit(t, password) ==
    /\ visit.pc = "idle"
    /\ visits < MaxVisits /\ visits' = visits + 1
    /\ visit' = [pc |-> "read", token |-> t, password |-> password, row |-> NoRow,
                 from |-> clock, stood |-> Stands(t)]
    /\ UNCHANGED <<links, there, key, known, clock, troubles, restarts, ended>>

Opens(row, password) == row # NoRow /\ clock <= row.expires /\ (row.password => password)

\* Validate: the signature, the link, its expiry, its password.
Validate ==
    /\ visit.pc = "read"
    /\ visit' = IF NonceOf(visit.token) /\ Opens(links[visit.token.link], visit.password)
                THEN [visit EXCEPT !.pc = "count", !.row = links[visit.token.link]]
                ELSE [visit EXCEPT !.pc = "refused"]
    /\ UNCHANGED <<links, there, key, known, clock, visits, troubles, restarts, ended>>

\* The link counts the visit; that failing does not fail the read.
CountView ==
    /\ visit.pc = "count"
    /\ visit' = [visit EXCEPT !.pc = "load"]
    /\ LET l == visit.token.link IN
       \/ /\ links' = IF links[l] = NoRow THEN links ELSE [links EXCEPT ![l].views = @ + 1]
          /\ UNCHANGED troubles
       \/ /\ troubles < MaxTroubles /\ troubles' = troubles + 1
          /\ UNCHANGED links
    /\ UNCHANGED <<there, key, known, clock, visits, restarts, ended>>

\* The page is loaded by the id the link had; it may be gone by now.
Load ==
    /\ visit.pc = "load"
    /\ visit' = [visit EXCEPT !.pc = IF visit.row.page \in there THEN "shown" ELSE "refused"]
    /\ UNCHANGED <<links, there, key, known, clock, visits, troubles, restarts, ended>>

Leave ==
    /\ visit.pc \in {"shown", "refused"}
    /\ visit' = NoVisit
    /\ UNCHANGED <<links, there, key, known, clock, visits, troubles, restarts, ended>>

SharesNext ==
    \/ \E l \in Link, p \in Page, e \in 0..Never, password \in BOOLEAN : Create(l, p, e, password)
    \/ \E p \in Page : List(p) \/ DeletePage(p) \/ \E l \in Link : Revoke(l, p)
    \/ \E k \in Key \cup {None} : Restart(k)
    \/ \E t \in Presentable, password \in BOOLEAN : Visit(t, password)
    \/ Tick \/ Validate \/ CountView \/ Load \/ Leave

SharesSpec == SharesInit /\ [][SharesNext]_shVars

-----------------------------------------------------------------------------
(* A page is shown to whoever presents a token that was given out for a link of it *)
(* and still stood when the visit began (not revoked through its page, not of an   *)
(* earlier key, not expired, with its password), and to them it is shown, unless   *)
(* the link ended, ran out or its page went while the visit was served             *)
(* (sharing/store.go nonceOf, Validate, Revoke; handler.go Public).                *)
ShownWhileItStands ==
    LET l == visit.token.link IN
    /\ visit.pc = "shown" =>
           visit.stood /\ visit.from <= visit.row.expires /\ (visit.row.password => visit.password)
    /\ visit.pc = "refused" /\ visit.stood =>
           \/ l \in ended \/ links[l].page \notin there
           \/ clock > links[l].expires
           \/ links[l].password /\ ~visit.password

=============================================================================
