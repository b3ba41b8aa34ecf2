--------------------------- MODULE DeliveryProofs ---------------------------
(***************************************************************************)
(* What TLAPS proves about Delivery: the webhook and mail outboxes, the     *)
(* comment panel, the custom domains, and the messages and the transform of *)
(* a live session, for any number of endpoints, mails, comments, names,      *)
(* processes, requests, connections and changes.                            *)
(***************************************************************************)
EXTENDS Delivery, OrderLemmas

vars == <<focus, whVars, mailVars, cmVars, liveVars, tfVars, dmVars>>

(* A behaviour of Delivery is, in each part, one of that part alone. *)
LEMMA PartSteps ==
    ASSUME [Next]_vars
    PROVE  /\ W!WebhooksNext \/ UNCHANGED whVars
           /\ M!MailNext \/ UNCHANGED mailVars
           /\ C!CommentsNext \/ UNCHANGED cmVars
           /\ L!MessagesNext \/ UNCHANGED liveVars
           /\ T!TransformNext \/ UNCHANGED tfVars
           /\ D!DomainsNext \/ UNCHANGED dmVars
BY DEF Next, vars, whVars, mailVars, cmVars, liveVars, tfVars, dmVars

-----------------------------------------------------------------------------
(* The domains.                                                             *)

LEMMA DomainSizes ==
    /\ MaxDomains \in Nat \ {0} /\ "none" \notin Space /\ "" \notin D!Workspace
    /\ \A s \in Space : Owner[s] \in D!Workspace
BY DeliveryAssumption DEF D!DomainsSizes, D!NoSpace, D!Workspace

LEMMA DomainsCount == \A S : D!Cardinality(S) = Cardinality(S)
BY DEF D!Cardinality, Cardinality

LEMMA QuotaIsNat == MaxDomains \in Nat
BY DomainSizes

DomainType == [id : Nat, ws : D!Workspace \cup {""}, space : Space \cup {"none"},
               verified : BOOLEAN]
CreatingType == [pc : {"count", "insert"}, ws : D!Workspace, host : Host,
                 space : Space \cup {"none"}]
VerifyingType == [pc : {"lookup", "mark"}, id : Nat, host : Host]
AdminType == [pc : {"idle"}] \cup CreatingType \cup VerifyingType
GuestType == [pc : {"servable", "load", "refused", "shown"}, space : Space, id : Nat,
              ws : D!Workspace \cup {""}, seen : BOOLEAN]

DomainsTyped ==
    /\ domains \in [Host -> DomainType]
    /\ last \in Nat
    /\ proved \subseteq Nat
    /\ txt \in [Host -> SUBSET proved]
    /\ admin \in [Admin -> AdminType]
    /\ guest \in [pc : {"idle"}] \cup GuestType

(* A row is verified by its own token, and maps to a space of its workspace. *)
RowStands(d) == /\ d.verified => d.id \in proved
                /\ d.space # "none" => Owner[d.space] = d.ws

(* So is what a request has read of it. *)
AdminStands(r) == /\ r.pc \in {"count", "insert"} /\ r.space # "none" => Owner[r.space] = r.ws
                  /\ r.pc = "mark" => r.id \in proved

GuestStands(g) == /\ g.pc \in {"servable", "load", "shown"} =>
                        g.id \in proved /\ Owner[g.space] = g.ws
                  /\ g.pc \in {"load", "shown"} => g.seen

ProofsInv == /\ DomainsTyped
             /\ \A h \in Host : RowStands(domains[h])
             /\ \A a \in Admin : AdminStands(admin[a])
             /\ GuestStands(guest)

LEMMA NoDomainTyped == D!NoDomain \in DomainType /\ ~ D!NoDomain.verified /\ D!NoDomain.space = "none"
                       /\ D!NoDomain.ws = ""
BY DEF D!NoDomain, D!NoSpace, DomainType

LEMMA IdleTyped == D!Idle \in AdminType /\ D!Idle.pc = "idle"
BY DEF D!Idle, AdminType

LEMMA ProofsStart == D!DomainsInit => ProofsInv
<1> SUFFICES ASSUME D!DomainsInit PROVE ProofsInv
  OBVIOUS
<1>1. DomainsTyped
  <2>1. domains \in [Host -> DomainType] /\ admin \in [Admin -> AdminType]
    BY NoDomainTyped, IdleTyped DEF D!DomainsInit
  <2> QED
    BY <2>1 DEF DomainsTyped, D!DomainsInit, D!NoGuest
<1>2. \A h \in Host : RowStands(domains[h])
  BY NoDomainTyped DEF RowStands, D!DomainsInit
<1>3. \A a \in Admin : AdminStands(admin[a])
  BY IdleTyped DEF AdminStands, D!DomainsInit
<1>4. GuestStands(guest)
  BY DEF GuestStands, D!DomainsInit, D!NoGuest
<1> QED
  BY <1>1, <1>2, <1>3, <1>4 DEF ProofsInv

(* A request of an admin goes on. *)
LEMMA AdminGoes ==
    ASSUME ProofsInv, NEW a \in Admin, NEW o \in AdminType, AdminStands(o),
           admin' = [admin EXCEPT ![a] = o],
           UNCHANGED <<domains, last, proved, txt, guest>>
    PROVE  ProofsInv'
<1>1. admin'[a] = o /\ \A b \in Admin \ {a} : admin'[b] = admin[b]
  BY DEF ProofsInv, DomainsTyped
<1>2. DomainsTyped'
  BY DEF ProofsInv, DomainsTyped
<1>3. \A b \in Admin : AdminStands(admin[b])'
  BY <1>1 DEF ProofsInv, AdminStands
<1>4. (\A h \in Host : RowStands(domains[h])')  /\ GuestStands(guest)'
  BY DEF ProofsInv, RowStands, GuestStands
<1> QED
  BY <1>2, <1>3, <1>4 DEF ProofsInv

(* Rows come, go and change; requests end; nothing proved is forgotten. *)
LEMMA RowsGo ==
    ASSUME ProofsInv, DomainsTyped', proved \subseteq proved', UNCHANGED guest,
           \A h \in Host : RowStands(domains[h])',
           \A a \in Admin : admin'[a] = admin[a] \/ admin'[a] = D!Idle
    PROVE  ProofsInv'
<1>1. \A a \in Admin : AdminStands(admin[a])'
  BY IdleTyped DEF ProofsInv, AdminStands
<1>2. GuestStands(guest)'
  BY DEF ProofsInv, GuestStands
<1> QED
  BY <1>1, <1>2 DEF ProofsInv

LEMMA CreateDomainKeeps ==
    ASSUME ProofsInv, NEW a \in Admin, NEW w \in D!Workspace, NEW h \in Host,
           NEW s \in Space \cup {D!NoSpace}, D!Create(a, w, h, s)
    PROVE  ProofsInv'
<1> DEFINE o == [pc |-> "count", ws |-> w, host |-> h, space |-> s]
<1>1. /\ admin' = [admin EXCEPT ![a] = o] /\ UNCHANGED <<domains, last, proved, txt, guest>>
      /\ s # "none" => Owner[s] = w
  BY DEF D!Create, D!NoSpace
<1>2. o \in AdminType /\ AdminStands(o)
  BY <1>1 DEF AdminType, CreatingType, AdminStands, D!NoSpace
<1> QED
  BY <1>1, <1>2, AdminGoes

LEMMA CountKeeps ==
    ASSUME ProofsInv, NEW a \in Admin, D!Count(a)
    PROVE  ProofsInv'
<1> DEFINE o == [admin[a] EXCEPT !.pc = "insert"]
<1>1. /\ UNCHANGED <<domains, last, proved, txt, guest>> /\ admin[a].pc = "count"
      /\ \/ admin' = [admin EXCEPT ![a] = o] \/ admin' = [admin EXCEPT ![a] = D!Idle]
  BY DEF D!Count, ProofsInv, DomainsTyped
<1>2. admin[a] \in CreatingType /\ AdminStands(admin[a])
  BY <1>1 DEF ProofsInv, DomainsTyped, AdminType, VerifyingType
<1>3. o \in AdminType /\ AdminStands(o)
  BY <1>1, <1>2 DEF AdminType, CreatingType, AdminStands
<1>4. AdminStands(D!Idle)
  BY IdleTyped DEF AdminStands
<1> HIDE DEF o
<1> QED
  BY <1>1, <1>3, <1>4, IdleTyped, AdminGoes

LEMMA InsertKeeps ==
    ASSUME ProofsInv, NEW a \in Admin, D!Insert(a)
    PROVE  ProofsInv'
<1> DEFINE r == admin[a]
           d == [id |-> last + 1, ws |-> r.ws, space |-> r.space, verified |-> FALSE]
<1>1. /\ r.pc = "insert" /\ admin' = [admin EXCEPT ![a] = D!Idle]
      /\ UNCHANGED <<proved, txt, guest>>
      /\ \/ domains' = [domains EXCEPT ![r.host] = d] /\ last' = last + 1
         \/ UNCHANGED <<domains, last>>
  BY DEF D!Insert
<1>2. r \in CreatingType /\ AdminStands(r)
  BY <1>1 DEF ProofsInv, DomainsTyped, AdminType, VerifyingType
<1>3. d \in DomainType /\ ~ d.verified /\ (d.space # "none" => Owner[d.space] = d.ws)
  <2>1. r.ws \in D!Workspace /\ r.space \in Space \cup {"none"} /\ last + 1 \in Nat
    BY <1>2 DEF CreatingType, ProofsInv, DomainsTyped
  <2>2. r.space # "none" => Owner[r.space] = r.ws
    BY <1>1, <1>2 DEF AdminStands
  <2> QED
    BY <2>1, <2>2 DEF DomainType
<1> HIDE DEF d
<1>4. r.host \in Host
  BY <1>2 DEF CreatingType
<1>5. DomainsTyped'
  <2>1. domains' \in [Host -> DomainType] /\ last' \in Nat
    BY <1>1, <1>3, <1>4 DEF ProofsInv, DomainsTyped
  <2>2. admin' \in [Admin -> AdminType]
    BY <1>1, IdleTyped DEF ProofsInv, DomainsTyped
  <2> QED
    BY <1>1, <2>1, <2>2 DEF ProofsInv, DomainsTyped
<1>6. ASSUME NEW h \in Host PROVE RowStands(domains[h])'
  <2>1. domains'[h] = domains[h] \/ domains'[h] = d
    BY <1>1, <1>4 DEF ProofsInv, DomainsTyped
  <2> QED
    BY <1>1, <1>3, <2>1 DEF RowStands, ProofsInv
<1>7. \A b \in Admin : admin'[b] = admin[b] \/ admin'[b] = D!Idle
  BY <1>1 DEF ProofsInv, DomainsTyped
<1> QED
  BY <1>1, <1>5, <1>6, <1>7, RowsGo

LEMMA VerifyKeeps ==
    ASSUME ProofsInv, NEW a \in Admin, NEW h \in Host, D!Verify(a, h)
    PROVE  ProofsInv'
<1> DEFINE o == [pc |-> "lookup", id |-> domains[h].id, host |-> h]
<1>1. /\ admin' = [admin EXCEPT ![a] = o] /\ UNCHANGED <<domains, last, proved, txt, guest>>
  BY DEF D!Verify
<1>2. o \in AdminType /\ AdminStands(o)
  BY DEF AdminType, VerifyingType, AdminStands, ProofsInv, DomainsTyped, DomainType
<1> QED
  BY <1>1, <1>2, AdminGoes

LEMMA LookupKeeps ==
    ASSUME ProofsInv, NEW a \in Admin, D!LookupTXT(a)
    PROVE  ProofsInv'
<1> DEFINE o == [admin[a] EXCEPT !.pc = "mark"]
<1>1. /\ UNCHANGED <<domains, last, proved, txt, guest>> /\ admin[a].pc = "lookup"
      /\ \/ admin' = [admin EXCEPT ![a] = o] /\ admin[a].id \in txt[admin[a].host]
         \/ admin' = [admin EXCEPT ![a] = D!Idle]
  BY DEF D!LookupTXT, ProofsInv, DomainsTyped
<1>2. admin[a] \in VerifyingType
  BY <1>1 DEF ProofsInv, DomainsTyped, AdminType, CreatingType
<1>3. admin[a].id \in txt[admin[a].host] => o \in AdminType /\ AdminStands(o)
  BY <1>1, <1>2 DEF AdminType, VerifyingType, AdminStands, ProofsInv, DomainsTyped
<1>4. AdminStands(D!Idle)
  BY IdleTyped DEF AdminStands
<1> HIDE DEF o
<1> QED
  BY <1>1, <1>3, <1>4, IdleTyped, AdminGoes

(* A row is marked by its id, which is of what was found under the name. *)
LEMMA MarkVerifiedKeeps ==
    ASSUME ProofsInv, NEW a \in Admin, D!MarkVerified(a)
    PROVE  ProofsInv'
<1>1. /\ admin[a].pc = "mark" /\ admin' = [admin EXCEPT ![a] = D!Idle]
      /\ UNCHANGED <<last, proved, txt, guest>>
      /\ domains' = [h \in Host |-> IF domains[h].id = admin[a].id
                                    THEN [domains[h] EXCEPT !.verified = TRUE] ELSE domains[h]]
  BY DEF D!MarkVerified, D!Row
<1>2. admin[a].id \in proved
  BY <1>1 DEF ProofsInv, AdminStands
<1>3. \A h \in Host : /\ domains[h] \in DomainType /\ domains'[h] \in DomainType
                      /\ domains'[h].id = domains[h].id /\ domains'[h].ws = domains[h].ws
                      /\ domains'[h].space = domains[h].space
                      /\ domains'[h].verified => domains[h].verified \/ domains[h].id = admin[a].id
  BY <1>1 DEF ProofsInv, DomainsTyped, DomainType
<1>4. DomainsTyped'
  <2>1. domains' \in [Host -> DomainType]
    BY <1>1, <1>3
  <2>2. admin' \in [Admin -> AdminType]
    BY <1>1, IdleTyped DEF ProofsInv, DomainsTyped
  <2> QED
    BY <1>1, <2>1, <2>2 DEF ProofsInv, DomainsTyped
<1>5. \A h \in Host : RowStands(domains[h])'
  BY <1>1, <1>2, <1>3 DEF RowStands, ProofsInv
<1>6. \A b \in Admin : admin'[b] = admin[b] \/ admin'[b] = D!Idle
  BY <1>1 DEF ProofsInv, DomainsTyped
<1> QED
  BY <1>1, <1>4, <1>5, <1>6, RowsGo

LEMMA DeleteDomainKeeps ==
    ASSUME ProofsInv, NEW h \in Host, D!Delete(h)
    PROVE  ProofsInv'
<1>1. domains' = [domains EXCEPT ![h] = D!NoDomain]
      /\ UNCHANGED <<last, proved, txt, admin, guest>>
  BY DEF D!Delete
<1>2. DomainsTyped'
  BY <1>1, NoDomainTyped DEF ProofsInv, DomainsTyped
<1>3. ASSUME NEW k \in Host PROVE RowStands(domains[k])'
  <2>1. domains'[k] = domains[k] \/ domains'[k] = D!NoDomain
    BY <1>1 DEF ProofsInv, DomainsTyped
  <2>2. RowStands(domains[k])
    BY DEF ProofsInv
  <2>3. CASE domains'[k] = domains[k]
    BY <1>1, <2>2, <2>3 DEF RowStands
  <2>4. CASE domains'[k] = D!NoDomain
    <3>1. ~ domains'[k].verified /\ domains'[k].space = "none"
      BY <2>4, NoDomainTyped
    <3> QED
      BY <3>1 DEF RowStands
  <2> QED
    BY <2>1, <2>3, <2>4
<1> QED
  BY <1>1, <1>2, <1>3, RowsGo

LEMMA PublishKeeps ==
    ASSUME ProofsInv, NEW h \in Host, D!Publish(h)
    PROVE  ProofsInv'
<1>1. /\ UNCHANGED <<domains, last, admin, guest>>
      /\ \/ txt' = [txt EXCEPT ![h] = @ \cup {domains[h].id}] /\ proved' = proved \cup {domains[h].id}
         \/ txt' = [txt EXCEPT ![h] = {}] /\ proved' = proved
  BY DEF D!Publish
<1>2. domains[h].id \in Nat
  BY DEF ProofsInv, DomainsTyped, DomainType
<1>3. DomainsTyped'
  <2>1. txt' \in [Host -> SUBSET proved'] /\ proved' \subseteq Nat
    BY <1>1, <1>2 DEF ProofsInv, DomainsTyped
  <2> QED
    BY <1>1, <2>1 DEF ProofsInv, DomainsTyped
<1>4. \A k \in Host : RowStands(domains[k])'
  BY <1>1 DEF RowStands, ProofsInv
<1> QED
  BY <1>1, <1>3, <1>4, RowsGo

LEMMA ChangeSpaceKeeps ==
    ASSUME ProofsInv, NEW s \in Space, D!ChangeSpace(s)
    PROVE  ProofsInv'
<1>1. /\ UNCHANGED <<last, proved, txt, admin, guest>>
      /\ \/ domains' = domains
         \/ domains' = [h \in Host |-> IF domains[h].space = s
                                       THEN [domains[h] EXCEPT !.space = "none"] ELSE domains[h]]
  BY DEF D!ChangeSpace, D!NoSpace
<1>2. \A h \in Host : /\ domains'[h] \in DomainType
                      /\ domains'[h].id = domains[h].id /\ domains'[h].ws = domains[h].ws
                      /\ domains'[h].space \in {domains[h].space, "none"}
                      /\ domains'[h].verified = domains[h].verified
  <2> SUFFICES ASSUME NEW h \in Host
               PROVE  /\ domains'[h] \in DomainType
                      /\ domains'[h].id = domains[h].id /\ domains'[h].ws = domains[h].ws
                      /\ domains'[h].space \in {domains[h].space, "none"}
                      /\ domains'[h].verified = domains[h].verified
    OBVIOUS
  <2>1. domains[h] \in DomainType
    BY DEF ProofsInv, DomainsTyped
  <2>2. domains'[h] = domains[h] \/ domains'[h] = [domains[h] EXCEPT !.space = "none"]
    BY <1>1
  <2> QED
    BY <2>1, <2>2 DEF DomainType
<1>3. DomainsTyped'
  <2>1. domains' \in [Host -> DomainType]
    BY <1>1, <1>2 DEF ProofsInv, DomainsTyped
  <2> QED
    BY <1>1, <2>1 DEF ProofsInv, DomainsTyped
<1>4. \A h \in Host : RowStands(domains[h])'
  BY <1>1, <1>2 DEF RowStands, ProofsInv
<1> QED
  BY <1>1, <1>3, <1>4, RowsGo

LEMMA GuestKeeps ==
    ASSUME ProofsInv, D!servable \/ D!Load \/ \E h \in Host : D!DomainRouter(h)
    PROVE  ProofsInv'
<1>1. UNCHANGED <<domains, last, proved, txt, admin>>
  BY DEF D!servable, D!Load, D!DomainRouter
<1>2. guest' \in GuestType /\ GuestStands(guest')
  <2>1. CASE D!servable \/ D!Load
    <3>1. guest.pc \in {"servable", "load"} /\ guest \in GuestType /\ GuestStands(guest)
      BY <2>1 DEF D!servable, D!Load, ProofsInv, DomainsTyped
    <3>2. /\ guest' \in GuestType /\ guest'.id = guest.id /\ guest'.ws = guest.ws
          /\ guest'.space = guest.space
          /\ guest'.pc \in {"load", "shown"} => guest'.seen
      <4>1. CASE D!servable
        <5>1. PICK pc \in {"load", "refused"}, seen \in BOOLEAN :
                  guest' = [guest EXCEPT !.pc = pc, !.seen = seen] /\ (pc = "load" => seen)
          <6>1. CASE guest.space \in public \ gone
            <7>1. guest' = [guest EXCEPT !.pc = "load", !.seen = TRUE]
              BY <4>1, <6>1 DEF D!servable
            <7> QED
              BY <7>1
          <6>2. CASE ~ (guest.space \in public \ gone)
            <7>1. guest' = [guest EXCEPT !.pc = "refused", !.seen = FALSE]
              <8>1. (guest.space \in public \ gone) = FALSE
                BY <6>2
              <8>2. guest' = [guest EXCEPT !.pc = "refused", !.seen = (guest.space \in public \ gone)]
                BY <4>1, <6>2 DEF D!servable
              <8> QED
                BY <8>1, <8>2, Zenon
            <7> QED
              BY <7>1
          <6> QED
            BY <6>1, <6>2
        <5> QED
          BY <5>1, <3>1 DEF GuestType
      <4>2. CASE D!Load
        <5>1. guest.pc = "load" /\ guest.seen
          BY <4>2, <3>1 DEF D!Load, GuestStands
        <5>2. \E pc \in {"refused", "shown"} : guest' = [guest EXCEPT !.pc = pc]
          BY <4>2 DEF D!Load
        <5> QED
          BY <5>1, <5>2, <3>1 DEF GuestType
      <4> QED
        BY <2>1, <4>1, <4>2
    <3> QED
      BY <3>1, <3>2 DEF GuestStands
  <2>2. ASSUME NEW h \in Host, D!DomainRouter(h)
        PROVE  guest' \in GuestType /\ GuestStands(guest')
    <3>1. /\ domains[h].verified /\ domains[h].space # "none"
          /\ guest' = [pc |-> "servable", space |-> domains[h].space, id |-> domains[h].id,
                       ws |-> domains[h].ws, seen |-> FALSE]
      BY <2>2 DEF D!DomainRouter, D!NoSpace
    <3>2. domains[h] \in DomainType /\ RowStands(domains[h])
      BY DEF ProofsInv, DomainsTyped
    <3> QED
      BY <3>1, <3>2 DEF DomainType, GuestType, RowStands, GuestStands
  <2> QED
    BY <2>1, <2>2
<1>3. DomainsTyped'
  BY <1>1, <1>2 DEF ProofsInv, DomainsTyped
<1>4. GuestStands(guest)'
  BY <1>1, <1>2 DEF GuestStands
<1> QED
  BY <1>1, <1>3, <1>4 DEF ProofsInv, RowStands, AdminStands

LEMMA ProofsStay == ASSUME ProofsInv, UNCHANGED dmVars PROVE ProofsInv'
BY DEF dmVars, ProofsInv, DomainsTyped, RowStands, AdminStands, GuestStands

LEMMA ProofsStep == ProofsInv /\ [Next]_vars => ProofsInv'
<1> SUFFICES ASSUME ProofsInv, [Next]_vars PROVE ProofsInv'
  OBVIOUS
<1>1. CASE UNCHANGED dmVars
  BY <1>1, ProofsStay
<1>2. CASE D!servable \/ D!Load
  BY <1>2, GuestKeeps
<1>3. ASSUME NEW a \in Admin, D!Count(a) \/ D!Insert(a) \/ D!LookupTXT(a) \/ D!MarkVerified(a)
      PROVE  ProofsInv'
  BY <1>3, CountKeeps, InsertKeeps, LookupKeeps, MarkVerifiedKeeps
<1>4. ASSUME NEW a \in Admin, NEW h \in Host, D!Verify(a, h) PROVE ProofsInv'
  BY <1>4, VerifyKeeps
<1>5. ASSUME NEW a \in Admin, NEW h \in Host, NEW w \in D!Workspace,
             NEW s \in Space \cup {D!NoSpace}, D!Create(a, w, h, s)
      PROVE  ProofsInv'
  BY <1>5, CreateDomainKeeps
<1>6. ASSUME NEW h \in Host, D!Delete(h) \/ D!Publish(h) \/ D!DomainRouter(h) PROVE ProofsInv'
  BY <1>6, DeleteDomainKeeps, PublishKeeps, GuestKeeps
<1>7. ASSUME NEW s \in Space, D!ChangeSpace(s) PROVE ProofsInv'
  BY <1>7, ChangeSpaceKeeps
<1> QED
  BY PartSteps, <1>1, <1>2, <1>3, <1>4, <1>5, <1>6, <1>7 DEF D!DomainsNext

LEMMA ProofsShow == ProofsInv => D!ServedByItsOwner
BY DEF ProofsInv, D!ServedByItsOwner, RowStands, GuestStands

(* A workspace of whose creates no two overlapped: there is room for the row that   *)
(* is to be inserted, which is the only one.                                     *)
QuotaStands(w) ==
    /\ IsFiniteSet(D!Of(w))
    /\ w \notin crowded =>
        /\ Cardinality(D!Of(w)) <= MaxDomains
        /\ \A a, b \in D!Creating(w) : a = b
        /\ \A a \in D!Creating(w) : admin[a].pc = "insert" => Cardinality(D!Of(w)) < MaxDomains

QuotaInv == \A w \in D!Workspace : QuotaStands(w)

LEMMA QuotaStart == D!DomainsInit => QuotaInv
<1> SUFFICES ASSUME D!DomainsInit, NEW w \in D!Workspace PROVE QuotaStands(w)
  BY DEF QuotaInv
<1>1. D!Of(w) = {}
  BY DomainSizes DEF D!Of, D!DomainsInit, D!NoDomain
<1>2. D!Creating(w) = {}
  BY DEF D!Creating, D!DomainsInit, D!Idle
<1>3. IsFiniteSet(D!Of(w)) /\ Cardinality(D!Of(w)) = 0
  BY <1>1, FS_EmptySet
<1> QED
  BY <1>2, <1>3, QuotaIsNat DEF QuotaStands

(* Rows go, or stay with their workspace, and creates go no further. *)
LEMMA QuotaWaits ==
    ASSUME QuotaInv, NEW w \in D!Workspace,
           \A h \in Host : domains'[h].ws = w => domains[h].ws = w,
           \A a \in Admin : /\ admin'[a].pc \in {"count", "insert"}
                            /\ admin'[a].ws = w
                            => admin'[a] = admin[a],
           crowded' = crowded
    PROVE  QuotaStands(w)'
<1>1. D!Of(w)' \subseteq D!Of(w) /\ IsFiniteSet(D!Of(w))
  BY DEF D!Of, QuotaInv, QuotaStands
<1>2. /\ IsFiniteSet(D!Of(w)') /\ Cardinality(D!Of(w)') <= Cardinality(D!Of(w))
      /\ Cardinality(D!Of(w)') \in Nat /\ Cardinality(D!Of(w)) \in Nat
  BY <1>1, FS_Subset, FS_CardinalityType
<1>3. \A a \in D!Creating(w)' : a \in D!Creating(w) /\ admin'[a] = admin[a]
  BY DEF D!Creating
<1>4. w \notin crowded =>
        /\ Cardinality(D!Of(w)) <= MaxDomains
        /\ \A a, b \in D!Creating(w) : a = b
        /\ \A a \in D!Creating(w) : admin[a].pc = "insert" => Cardinality(D!Of(w)) < MaxDomains
  BY DEF QuotaInv, QuotaStands
<1>5. w \notin crowded' =>
        /\ Cardinality(D!Of(w)') <= MaxDomains
        /\ \A a, b \in D!Creating(w)' : a = b
        /\ \A a \in D!Creating(w)' : admin'[a].pc = "insert" => Cardinality(D!Of(w)') < MaxDomains
  <2> SUFFICES ASSUME w \notin crowded'
               PROVE  /\ Cardinality(D!Of(w)') <= MaxDomains
                      /\ \A a, b \in D!Creating(w)' : a = b
                      /\ \A a \in D!Creating(w)' :
                            admin'[a].pc = "insert" => Cardinality(D!Of(w)') < MaxDomains
    OBVIOUS
  <2>1. Cardinality(D!Of(w)') <= MaxDomains
    BY <1>2, <1>4, QuotaIsNat
  <2>2. \A a, b \in D!Creating(w)' : a = b
    BY <1>3, <1>4
  <2>3. ASSUME NEW a \in D!Creating(w)', admin'[a].pc = "insert"
        PROVE  Cardinality(D!Of(w)') < MaxDomains
    <3>1. Cardinality(D!Of(w)) < MaxDomains
      BY <1>3, <1>4, <2>3
    <3> QED
      BY <1>2, <3>1, QuotaIsNat
  <2> QED
    BY <2>1, <2>2, <2>3
<1> QED
  BY <1>2, <1>5 DEF QuotaStands

LEMMA QuotaCreate ==
    ASSUME DomainsTyped, QuotaInv, NEW a \in Admin, NEW v \in D!Workspace, NEW h \in Host,
           NEW s \in Space \cup {D!NoSpace}, D!Create(a, v, h, s), NEW w \in D!Workspace
    PROVE  QuotaStands(w)'
<1> DEFINE o == [pc |-> "count", ws |-> v, host |-> h, space |-> s]
<1>1. /\ admin' = [admin EXCEPT ![a] = o] /\ domains' = domains /\ o.pc = "count" /\ o.ws = v
      /\ crowded' = IF D!Creating(v) # {} THEN crowded \cup {v} ELSE crowded
  BY DEF D!Create
<1> HIDE DEF o
<1>2. admin'[a] = o /\ \A b \in Admin : b # a => admin'[b] = admin[b]
  BY <1>1 DEF DomainsTyped
<1>3. CASE v # w
  <2>1. \A b \in Admin : admin'[b].ws = w => admin'[b] = admin[b]
    BY <1>1, <1>2, <1>3
  <2>2. w \in crowded' <=> w \in crowded
    BY <1>1, <1>3
  <2>3. D!Creating(w)' \subseteq D!Creating(w) /\ \A b \in D!Creating(w)' : admin'[b] = admin[b]
    BY <2>1 DEF D!Creating
  <2>4. D!Of(w)' = D!Of(w)
    BY <1>1 DEF D!Of
  <2> QED
    BY <2>2, <2>3, <2>4 DEF QuotaInv, QuotaStands
<1>4. CASE v = w /\ D!Creating(w) # {}
  <2>1. D!Of(w)' = D!Of(w) /\ w \in crowded'
    BY <1>1, <1>4 DEF D!Of
  <2> QED
    BY <2>1 DEF QuotaInv, QuotaStands
<1>5. CASE v = w /\ D!Creating(w) = {}
  <2>1. D!Of(w)' = D!Of(w) /\ crowded' = crowded
    BY <1>1, <1>5 DEF D!Of
  <2>2. \A b \in D!Creating(w)' : b = a
    BY <1>2, <1>5 DEF D!Creating
  <2>3. admin'[a].pc # "insert"
    BY <1>1, <1>2
  <2> QED
    BY <2>1, <2>2, <2>3 DEF QuotaInv, QuotaStands
<1> QED
  BY <1>3, <1>4, <1>5

LEMMA QuotaCount ==
    ASSUME DomainsTyped, QuotaInv, NEW a \in Admin, D!Count(a), NEW w \in D!Workspace
    PROVE  QuotaStands(w)'
<1> DEFINE o == [admin[a] EXCEPT !.pc = "insert"]
<1>1. /\ domains' = domains /\ crowded' = crowded /\ admin[a].pc = "count"
      /\ \/ admin' = [admin EXCEPT ![a] = o] /\ Cardinality(D!Of(admin[a].ws)) < MaxDomains
         \/ admin' = [admin EXCEPT ![a] = D!Idle]
  <2>1. [admin EXCEPT ![a].pc = "insert"] = [admin EXCEPT ![a] = o]
    BY DEF DomainsTyped
  <2>2. /\ UNCHANGED <<domains, crowded>> /\ admin[a].pc = "count"
        /\ admin' = IF Cardinality(D!Of(admin[a].ws)) < MaxDomains
                    THEN [admin EXCEPT ![a].pc = "insert"] ELSE [admin EXCEPT ![a] = D!Idle]
    BY DomainsCount DEF D!Count
  <2> HIDE DEF o
  <2> QED
    BY <2>1, <2>2, Zenon
<1>2. admin[a] \in CreatingType /\ o.pc = "insert" /\ o.ws = admin[a].ws
  BY <1>1 DEF DomainsTyped, AdminType, VerifyingType, CreatingType
<1> HIDE DEF o
<1>3. D!Of(w)' = D!Of(w)
  BY <1>1 DEF D!Of
<1>4. CASE admin' = [admin EXCEPT ![a] = D!Idle]
  <2>1. \A b \in Admin : admin'[b].pc \in {"count", "insert"} => admin'[b] = admin[b]
    BY <1>4, IdleTyped DEF DomainsTyped
  <2> QED
    BY <1>1, <2>1, QuotaWaits
<1>5. CASE admin' = [admin EXCEPT ![a] = o] /\ Cardinality(D!Of(admin[a].ws)) < MaxDomains
  <2>1. admin'[a] = o /\ \A b \in Admin : b # a => admin'[b] = admin[b]
    BY <1>5 DEF DomainsTyped
  <2>2. D!Creating(w)' = D!Creating(w)
    BY <1>1, <1>2, <2>1 DEF D!Creating
  <2>3. \A b \in D!Creating(w) : admin'[b].pc = "insert" =>
            admin[b].pc = "insert" \/ Cardinality(D!Of(w)) < MaxDomains
    BY <1>5, <2>1 DEF D!Creating
  <2> QED
    BY <1>1, <1>3, <2>2, <2>3 DEF QuotaInv, QuotaStands
<1> QED
  BY <1>1, <1>4, <1>5

LEMMA QuotaInsert ==
    ASSUME DomainsTyped, QuotaInv, NEW a \in Admin, D!Insert(a), NEW w \in D!Workspace
    PROVE  QuotaStands(w)'
<1> DEFINE r == admin[a]
           d == [id |-> last + 1, ws |-> r.ws, space |-> r.space, verified |-> FALSE]
<1>1. /\ r.pc = "insert" /\ admin' = [admin EXCEPT ![a] = D!Idle] /\ crowded' = crowded
      /\ domains' = [domains EXCEPT ![r.host] = d] \/ domains' = domains
  BY DEF D!Insert
<1>2. r \in CreatingType /\ d.ws = r.ws
  BY <1>1 DEF DomainsTyped, AdminType, VerifyingType
<1> HIDE DEF d
<1>3. \A b \in Admin : admin'[b].pc \in {"count", "insert"} => admin'[b] = admin[b] /\ b # a
  BY <1>1, IdleTyped DEF DomainsTyped
<1>4. CASE r.ws # w \/ domains' = domains
  <2>1. \A h \in Host : domains'[h].ws = w => domains[h].ws = w
    BY <1>1, <1>2, <1>4 DEF DomainsTyped
  <2> QED
    BY <1>1, <1>3, <2>1, QuotaWaits
<1>5. CASE r.ws = w /\ domains' = [domains EXCEPT ![r.host] = d]
  <2>1. D!Of(w)' = D!Of(w) \cup {r.host}
    <3>1. r.host \in Host
      BY <1>2 DEF CreatingType
    <3> QED
      BY <1>2, <1>5, <3>1 DEF D!Of, DomainsTyped
  <2>2. IsFiniteSet(D!Of(w)) /\ Cardinality(D!Of(w)) \in Nat
    BY FS_CardinalityType DEF QuotaInv, QuotaStands
  <2>3. IsFiniteSet(D!Of(w)') /\ Cardinality(D!Of(w)') <= Cardinality(D!Of(w)) + 1
    <3>1. IsFiniteSet(D!Of(w) \cup {r.host})
          /\ Cardinality(D!Of(w) \cup {r.host}) \in {Cardinality(D!Of(w)), Cardinality(D!Of(w)) + 1}
      BY <2>2, FS_AddElement
    <3> QED
      BY <2>1, <2>2, <3>1
  <2>4. a \in D!Creating(w)
    BY <1>1, <1>5 DEF D!Creating
  <2>5. w \notin crowded => D!Creating(w)' = {} /\ Cardinality(D!Of(w)) < MaxDomains
    <3>1. \A b \in D!Creating(w)' : b \in D!Creating(w) /\ b # a
      BY <1>3 DEF D!Creating
    <3> QED
      BY <1>1, <2>4, <3>1 DEF QuotaInv, QuotaStands
  <2>6. Cardinality(D!Of(w)') \in Nat
    BY <2>3, FS_CardinalityType
  <2>7. w \notin crowded => Cardinality(D!Of(w)') <= MaxDomains
    BY <2>2, <2>3, <2>5, <2>6, QuotaIsNat
  <2> QED
    BY <1>1, <2>3, <2>5, <2>7 DEF QuotaStands
<1> QED
  BY <1>1, <1>4, <1>5

(* No other step adds a row to a workspace. *)
LEMMA OthersWait ==
    ASSUME DomainsTyped, QuotaInv, NEW w \in D!Workspace,
           \/ D!servable \/ D!Load
           \/ \E a \in Admin : D!LookupTXT(a) \/ D!MarkVerified(a) \/ \E h \in Host : D!Verify(a, h)
           \/ \E h \in Host : D!Delete(h) \/ D!Publish(h) \/ D!DomainRouter(h)
           \/ \E s \in Space : D!ChangeSpace(s)
    PROVE  QuotaStands(w)'
<1>1. crowded' = crowded
  BY DEF D!servable, D!Load, D!LookupTXT, D!MarkVerified, D!Verify, D!Delete, D!Publish,
         D!DomainRouter, D!ChangeSpace
<1>2. \A h \in Host : domains'[h].ws = w => domains[h].ws = w
  <2>1. CASE UNCHANGED domains
    BY <2>1
  <2>2. ASSUME NEW k \in Host, D!Delete(k) PROVE \A h \in Host : domains'[h].ws = w => domains[h].ws = w
    BY <2>2, NoDomainTyped, DomainSizes DEF D!Delete, DomainsTyped
  <2>3. ASSUME NEW a \in Admin, D!MarkVerified(a)
        PROVE  \A h \in Host : domains'[h].ws = w => domains[h].ws = w
    BY <2>3 DEF D!MarkVerified, DomainsTyped, DomainType
  <2>4. ASSUME NEW s \in Space, D!ChangeSpace(s)
        PROVE  \A h \in Host : domains'[h].ws = w => domains[h].ws = w
    BY <2>4 DEF D!ChangeSpace, DomainsTyped, DomainType
  <2> QED
    BY <2>1, <2>2, <2>3, <2>4
       DEF D!servable, D!Load, D!LookupTXT, D!Verify, D!Publish, D!DomainRouter
<1>3. \A b \in Admin : admin'[b].pc \in {"count", "insert"} => admin'[b] = admin[b]
  <2>1. CASE UNCHANGED admin
    BY <2>1
  <2>2. ASSUME NEW a \in Admin, D!LookupTXT(a) \/ D!MarkVerified(a) \/ \E h \in Host : D!Verify(a, h)
        PROVE  \A b \in Admin : admin'[b].pc \in {"count", "insert"} => admin'[b] = admin[b]
    <3>1. \A b \in Admin : b # a => admin'[b] = admin[b]
      BY <2>2 DEF D!LookupTXT, D!MarkVerified, D!Verify, DomainsTyped
    <3>2. admin[a] \in VerifyingType \/ \E h \in Host : D!Verify(a, h)
      BY <2>2 DEF D!LookupTXT, D!MarkVerified, DomainsTyped, AdminType, CreatingType
    <3>3. admin'[a].pc \notin {"count", "insert"}
      BY <2>2, <3>2, IdleTyped
         DEF D!LookupTXT, D!MarkVerified, D!Verify, DomainsTyped, VerifyingType
    <3> QED
      BY <3>1, <3>3
  <2> QED
    BY <2>1, <2>2 DEF D!servable, D!Load, D!Delete, D!Publish, D!DomainRouter, D!ChangeSpace
<1> QED
  BY <1>1, <1>2, <1>3, QuotaWaits

DomainsInv == ProofsInv /\ QuotaInv

LEMMA DomainsStep == DomainsInv /\ [Next]_vars => DomainsInv'
<1> SUFFICES ASSUME DomainsInv, [Next]_vars PROVE DomainsInv'
  OBVIOUS
<1>1. ProofsInv'
  BY ProofsStep DEF DomainsInv
<1>2. DomainsTyped /\ QuotaInv
  BY DEF DomainsInv, ProofsInv
<1>3. CASE UNCHANGED dmVars
  <2>1. UNCHANGED <<domains, admin, crowded>>
    BY <1>3 DEF dmVars
  <2> SUFFICES ASSUME NEW w \in D!Workspace PROVE QuotaStands(w)'
    BY <1>1 DEF DomainsInv, QuotaInv, D!Workspace
  <2> QED
    BY <1>2, <2>1, QuotaWaits
<1>4. CASE D!DomainsNext
  <2> SUFFICES ASSUME NEW w \in D!Workspace PROVE QuotaStands(w)'
    BY <1>1 DEF DomainsInv, QuotaInv, D!Workspace
  <2> QED
    BY <1>2, <1>4, QuotaCreate, QuotaCount, QuotaInsert, OthersWait DEF D!DomainsNext
<1> QED
  BY PartSteps, <1>1, <1>3, <1>4 DEF DomainsInv

LEMMA DomainsShow == DomainsInv => DomainsStand
<1>1. DomainsInv => D!ServedByItsOwner
  BY ProofsShow DEF DomainsInv
<1>2. ASSUME DomainsInv, NEW w \in D!Workspace, w \notin crowded
      PROVE  Cardinality(D!Of(w)) <= MaxDomains
  BY <1>2 DEF DomainsInv, QuotaInv, QuotaStands
<1> QED
  BY <1>1, <1>2, DomainsCount DEF DomainsStand, D!DomainsStand, D!QuotaHolds

(* A name shows what the workspace that proved it made public, and a workspace has   *)
(* no more names than it may, unless two of its creates overlapped                *)
(* (customdomain/store.go Create, Verify, handler.go servable).                    *)
THEOREM DomainsHold == Spec => []DomainsStand
<1>1. Init => DomainsInv
  BY ProofsStart, QuotaStart DEF Init, DomainsInv
<1>2. DomainsInv /\ [Next]_vars => DomainsInv'
  BY DomainsStep
<1> QED
  BY <1>1, <1>2, DomainsShow, PTL DEF Spec, vars

-----------------------------------------------------------------------------
(* The comment panel.                                                       *)

LEMMA CommentSizes == MaxComments \in Nat
BY DeliveryAssumption DEF C!CommentsSizes

LEMMA CommentsCount == \A S : C!Cardinality(S) = Cardinality(S)
BY DEF C!Cardinality, Cardinality

Id == 1..MaxComments
CommentRow == [thread : Id, parent : Id \cup {0}, author : Author \cup {""}, resolved : BOOLEAN]
LocalType == [op : {"idle", "reply", "resolve", "unresolve", "delete"},
              id : Id \cup {0}, thread : Id \cup {0}, by : Author \cup {""}]

PanelTyped ==
    /\ comments \in [Id -> CommentRow \cup {C!Gone}]
    /\ cmMade \in 0..MaxComments
    /\ serving \in [Request -> LocalType]

(* A thread is a head and what answers it, directly or not: whichever comments are    *)
(* deleted with all that answer them, what is left has the comment it answers and its *)
(* head.                                                                         *)
ThreadsStand ==
    /\ \A c \in C!There : c <= cmMade
    /\ \A c \in C!There : /\ comments[c].thread \in C!There
                          /\ comments[comments[c].thread].parent = 0
                          /\ comments[c].parent = 0 => comments[c].thread = c
    /\ \A c \in C!There : comments[c].parent # 0 =>
            /\ comments[c].parent \in C!There
            /\ comments[comments[c].parent].thread = comments[c].thread
    /\ \A S \in SUBSET Id : C!Whole(S) =>
            \A c \in C!There : comments[c].thread \in S => c \in S

(* Nobody replied to a resolved thread: all of it is resolved or none. *)
MarksStand == late = {} =>
    \A c \in C!There : comments[c].resolved = comments[comments[c].thread].resolved

(* What a request read of a comment is so while the comment is there. *)
LocalStands(l) == l.op # "idle" =>
    /\ l.id \in 1..cmMade /\ l.thread \in Id
    /\ l.id \in C!There => comments[l.id].thread = l.thread

PanelInv == /\ PanelTyped /\ ThreadsStand /\ MarksStand
            /\ \A r \in Request : LocalStands(serving[r])

LEMMA ThereAre ==
    ASSUME PanelTyped
    PROVE  /\ C!There \subseteq Id
           /\ \A c \in Id : c \in C!There <=> comments[c] \in CommentRow
           /\ \A c \in Id : c \notin C!There <=> comments[c] = C!Gone
<1>1. C!Gone \notin CommentRow
  BY DEF C!Gone, CommentRow, Id
<1> QED
  BY <1>1 DEF PanelTyped, C!There, C!Id, Id

LEMMA ThereAreAfter ==
    ASSUME PanelTyped'
    PROVE  /\ C!There' \subseteq Id
           /\ \A c \in Id : c \in C!There' <=> comments'[c] \in CommentRow
           /\ \A c \in Id : c \notin C!There' <=> comments'[c] = C!Gone
<1>1. C!Gone \notin CommentRow
  BY DEF C!Gone, CommentRow, Id
<1> QED
  BY <1>1 DEF PanelTyped, C!There, C!Id, Id

LEMMA FreeTyped == C!Free \in LocalType /\ C!Free.op = "idle"
BY DEF C!Free, LocalType

LEMMA PanelStart == C!CommentsInit => PanelInv
<1> SUFFICES ASSUME C!CommentsInit PROVE PanelInv
  OBVIOUS
<1>1. PanelTyped
  BY CommentSizes, FreeTyped DEF PanelTyped, C!CommentsInit, C!Id, Id
<1>2. C!There = {}
  BY DEF C!CommentsInit, C!There, C!Id
<1>3. \A r \in Request : LocalStands(serving[r])
  BY FreeTyped DEF C!CommentsInit, LocalStands
<1> QED
  BY <1>1, <1>2, <1>3 DEF PanelInv, ThreadsStand, MarksStand

(* A comment is added that heads a thread or answers one that is there. *)
LEMMA CommentAdded ==
    ASSUME PanelInv, PanelTyped', cmMade < MaxComments, cmMade' = cmMade + 1,
           NEW n, n = cmMade + 1, NEW o \in CommentRow,
           comments' = [comments EXCEPT ![n] = o],
           \/ o.parent = 0 /\ o.thread = n
           \/ o.parent \in C!There /\ comments[o.parent].thread = o.thread
    PROVE  ThreadsStand'
<1>1. n \in Id /\ n \notin C!There
  BY CommentSizes DEF PanelInv, PanelTyped, ThreadsStand, Id
<1>2. comments'[n] = o /\ \A c \in Id : c # n => comments'[c] = comments[c]
  BY <1>1 DEF PanelInv, PanelTyped
<1>3. C!There' = C!There \cup {n} /\ C!There \subseteq Id
  <2>1. /\ C!There \subseteq Id /\ C!There' \subseteq Id
        /\ \A c \in Id : c \in C!There <=> comments[c] \in CommentRow
        /\ \A c \in Id : c \in C!There' <=> comments'[c] \in CommentRow
    BY ThereAre, ThereAreAfter DEF PanelInv
  <2> QED
    BY <1>1, <1>2, <2>1
<1>4. \A c \in C!There : comments'[c] = comments[c]
  BY <1>1, <1>2, <1>3
<1>5. \A c \in C!There' : c <= cmMade'
  BY <1>3, CommentSizes DEF PanelInv, PanelTyped, ThreadsStand, Id
<1>6. ASSUME NEW c \in C!There'
      PROVE  /\ comments'[c].thread \in C!There'
             /\ comments'[comments'[c].thread].parent = 0
             /\ comments'[c].parent = 0 => comments'[c].thread = c
             /\ comments'[c].parent # 0 =>
                    /\ comments'[c].parent \in C!There'
                    /\ comments'[comments'[c].parent].thread = comments'[c].thread
  <2>1. CASE c \in C!There
    BY <1>3, <1>4, <2>1 DEF PanelInv, ThreadsStand
  <2>2. CASE c = n
    <3>1. comments'[c] = o /\ n # 0
      BY <1>1, <1>2, <2>2 DEF Id
    <3>2. CASE o.parent = 0 /\ o.thread = n
      BY <1>3, <2>2, <3>1, <3>2
    <3>3. CASE o.parent \in C!There /\ comments[o.parent].thread = o.thread
      <4>1. o.thread \in C!There /\ comments[o.thread].parent = 0 /\ o.parent \in Id
        BY <1>3, <3>3 DEF PanelInv, ThreadsStand
      <4>2. /\ comments'[o.thread] = comments[o.thread] /\ comments'[o.parent] = comments[o.parent]
            /\ o.parent # 0
        BY <1>4, <3>3, <4>1 DEF Id
      <4> QED
        BY <1>3, <3>1, <3>3, <4>1, <4>2
    <3> QED
      BY <3>2, <3>3
  <2> QED
    BY <1>3, <2>1, <2>2
<1>7. ASSUME NEW S \in SUBSET Id, C!Whole(S)', NEW c \in C!There', comments'[c].thread \in S
      PROVE  c \in S
  <2>1. C!Whole(S)
    BY <1>3, <1>4, <1>7 DEF C!Whole
  <2>2. CASE c \in C!There
    BY <1>4, <1>7, <2>1, <2>2 DEF PanelInv, ThreadsStand
  <2>3. CASE c = n /\ o.parent \in C!There
    <3>1. o.parent \in S
      <4>1. comments[o.parent].thread \in S
        <5>1. comments'[n].thread = o.thread
          BY <1>2, <1>1
        <5>2. o.parent # 0
          BY <1>3, <2>3 DEF Id
        <5>3. comments[o.parent].thread = o.thread
          <6>1. CASE o.parent = 0 /\ o.thread = n
            BY <5>2, <6>1
          <6> QED
            BY <6>1
        <5> QED
          BY <1>7, <2>3, <5>1, <5>3
      <4> QED
        BY <2>1, <2>3, <4>1 DEF PanelInv, ThreadsStand
    <3> QED
      BY <1>2, <1>7, <2>3, <3>1 DEF C!Whole
  <2>4. CASE c = n /\ o.thread = n
    BY <1>2, <1>7, <2>4
  <2> QED
    BY <1>3, <2>2, <2>3, <2>4
<1> QED
  BY <1>5, <1>6, <1>7 DEF ThreadsStand

(* The requests: those that wait still hold what they read. *)
LEMMA LocalsStay ==
    ASSUME PanelInv, PanelTyped', cmMade <= cmMade',
           \A c \in C!There' : c <= cmMade => c \in C!There /\ comments'[c].thread = comments[c].thread,
           \A r \in Request : serving'[r] = serving[r] \/ serving'[r] = C!Free
    PROVE  \A r \in Request : LocalStands(serving[r])'
<1> SUFFICES ASSUME NEW r \in Request, serving'[r].op # "idle" PROVE LocalStands(serving[r])'
  BY DEF LocalStands
<1>1. serving'[r] = serving[r] /\ LocalStands(serving[r])
  BY FreeTyped DEF PanelInv
<1>2. serving[r].id \in 1..cmMade /\ serving[r].thread \in Id
  BY <1>1 DEF LocalStands
<1>3. serving'[r].id \in 1..cmMade'
  BY <1>1, <1>2, CommentSizes DEF PanelInv, PanelTyped
<1>4. serving'[r].id \in C!There' => comments'[serving'[r].id].thread = serving'[r].thread
  BY <1>1, <1>2 DEF LocalStands
<1> QED
  BY <1>1, <1>2, <1>3, <1>4 DEF LocalStands

LEMMA CreateCommentKeeps ==
    ASSUME PanelInv, NEW a \in Author, C!Create(a)
    PROVE  PanelInv'
<1> DEFINE n == cmMade + 1
           o == [thread |-> n, parent |-> 0, author |-> a, resolved |-> FALSE]
<1>1. /\ cmMade < MaxComments /\ cmMade' = n /\ comments' = [comments EXCEPT ![n] = o]
      /\ UNCHANGED <<serving, late>>
  BY DEF C!Create, C!NoParent
<1>2. n \in Id /\ o \in CommentRow /\ o.parent = 0 /\ o.thread = n /\ o.resolved = FALSE
  <2>1. n \in Id
    BY <1>1, CommentSizes DEF PanelInv, PanelTyped, Id
  <2> QED
    BY <2>1 DEF CommentRow
<1> HIDE DEF o
<1>3. comments'[n] = o /\ \A c \in Id : c # n => comments'[c] = comments[c]
  BY <1>1, <1>2 DEF PanelInv, PanelTyped
<1>4. PanelTyped'
  BY <1>1, <1>2, CommentSizes DEF PanelInv, PanelTyped
<1>5. ThreadsStand'
  BY <1>1, <1>2, <1>4, CommentAdded
<1>6. \A c \in C!There' : c = n \/ (c \in C!There /\ comments'[c] = comments[c] /\ c # n)
  BY <1>3, <1>4, ThereAre, ThereAreAfter DEF PanelInv
<1>7. n \notin C!There
  BY CommentSizes DEF PanelInv, PanelTyped, ThreadsStand
<1>8. MarksStand'
  <2> SUFFICES ASSUME late = {}, NEW c \in C!There'
               PROVE  comments'[c].resolved = comments'[comments'[c].thread].resolved
    BY <1>1 DEF MarksStand
  <2>1. CASE c = n
    BY <1>2, <1>3, <2>1
  <2>2. CASE c \in C!There /\ comments'[c] = comments[c]
    <3>1. comments[c].thread \in C!There
      BY <2>2 DEF PanelInv, ThreadsStand
    <3>2. comments'[comments[c].thread] = comments[comments[c].thread]
      BY <1>3, <1>7, <3>1, ThereAre DEF PanelInv
    <3> QED
      BY <2>2, <3>2 DEF PanelInv, MarksStand
  <2> QED
    BY <1>6, <2>1, <2>2
<1>9. \A r \in Request : LocalStands(serving[r])'
  <2>1. \A c \in C!There' : c <= cmMade => c \in C!There /\ comments'[c].thread = comments[c].thread
    BY <1>6, CommentSizes DEF PanelInv, PanelTyped
  <2>2. cmMade <= cmMade'
    BY <1>1, CommentSizes DEF PanelInv, PanelTyped
  <2> QED
    BY <1>1, <1>4, <2>1, <2>2, LocalsStay
<1> QED
  BY <1>4, <1>5, <1>8, <1>9 DEF PanelInv

LEMMA BeginKeeps ==
    ASSUME PanelInv, NEW r \in Request, NEW op \in {"reply", "resolve", "unresolve", "delete"},
           NEW c \in C!Id, NEW a \in Author, C!Begin(r, op, c, a)
    PROVE  PanelInv'
<1> DEFINE l == [op |-> op, id |-> c, thread |-> comments[c].thread, by |-> a]
<1>1. /\ c \in C!There /\ serving' = [serving EXCEPT ![r] = l]
      /\ UNCHANGED <<comments, cmMade, late>>
  BY DEF C!Begin
<1>2. /\ comments[c] \in CommentRow /\ c \in Id /\ c <= cmMade
  BY <1>1, ThereAre DEF PanelInv, ThreadsStand
<1>3. l \in LocalType /\ l.id = c /\ l.thread = comments[c].thread /\ l.thread \in Id
  BY <1>2 DEF LocalType, CommentRow
<1> HIDE DEF l
<1>4. serving'[r] = l /\ \A q \in Request : q # r => serving'[q] = serving[q]
  BY <1>1 DEF PanelInv, PanelTyped
<1>5. PanelTyped'
  BY <1>1, <1>3 DEF PanelInv, PanelTyped
<1>6. C!There' = C!There
  BY <1>1 DEF C!There
<1>7. ThreadsStand' /\ MarksStand'
  BY <1>1, <1>6 DEF PanelInv, ThreadsStand, MarksStand, C!Whole
<1>8. ASSUME NEW q \in Request PROVE LocalStands(serving[q])'
  <2>1. CASE q = r
    <3>1. c \in 1..cmMade'
      BY <1>1, <1>2, CommentSizes DEF Id, PanelInv, PanelTyped
    <3> QED
      BY <1>1, <1>3, <1>4, <2>1, <3>1 DEF LocalStands
  <2>2. CASE q # r
    BY <1>1, <1>4, <1>6, <2>2 DEF PanelInv, LocalStands
  <2> QED
    BY <2>1, <2>2
<1> QED
  BY <1>5, <1>7, <1>8 DEF PanelInv

LEMMA ReplyKeeps ==
    ASSUME PanelInv, NEW r \in Request, C!Reply(r)
    PROVE  PanelInv'
<1> DEFINE l == serving[r]
           t == l.thread
           n == cmMade + 1
           o == [thread |-> t, parent |-> l.id, author |-> l.by, resolved |-> FALSE]
<1>1. /\ l.op = "reply" /\ serving' = [serving EXCEPT ![r] = C!Free]
      /\ \/ /\ l.id \in C!There /\ cmMade < MaxComments /\ cmMade' = n
            /\ comments' = [comments EXCEPT ![n] = o]
            /\ late' = IF comments[t].resolved THEN late \cup {t} ELSE late
         \/ UNCHANGED <<comments, cmMade, late>>
  BY DEF C!Reply
<1>2. /\ l \in LocalType /\ l.id \in Id /\ t \in Id
      /\ l.id \in C!There => comments[l.id].thread = t
  BY <1>1, CommentSizes DEF PanelInv, PanelTyped, LocalStands, Id
<1>3. \A q \in Request : serving'[q] = serving[q] \/ serving'[q] = C!Free
  BY <1>1 DEF PanelInv, PanelTyped
<1>4. serving' \in [Request -> LocalType]
  BY <1>1, FreeTyped DEF PanelInv, PanelTyped
<1>5. CASE UNCHANGED <<comments, cmMade, late>>
  <2>1. C!There' = C!There
    BY <1>5 DEF C!There
  <2>2. PanelTyped'
    BY <1>4, <1>5 DEF PanelInv, PanelTyped
  <2>3. ThreadsStand' /\ MarksStand'
    BY <1>5, <2>1 DEF PanelInv, ThreadsStand, MarksStand, C!Whole
  <2>4. cmMade <= cmMade'
    BY <1>5, CommentSizes DEF PanelInv, PanelTyped
  <2> QED
    BY <1>3, <1>5, <2>1, <2>2, <2>3, <2>4, LocalsStay DEF PanelInv
<1>6. CASE /\ l.id \in C!There /\ cmMade < MaxComments /\ cmMade' = n
           /\ comments' = [comments EXCEPT ![n] = o]
           /\ late' = IF comments[t].resolved THEN late \cup {t} ELSE late
  <2>1. n \in Id /\ o \in CommentRow /\ o.parent = l.id /\ o.thread = t /\ o.resolved = FALSE
    <3>1. n \in Id
      BY <1>6, CommentSizes DEF PanelInv, PanelTyped, Id
    <3>2. l.by \in Author \cup {""} /\ l.id \in Id \cup {0}
      BY <1>2 DEF LocalType
    <3> QED
      BY <1>2, <3>1, <3>2 DEF CommentRow
  <2> HIDE DEF o
  <2>2. comments'[n] = o /\ \A c \in Id : c # n => comments'[c] = comments[c]
    BY <1>6, <2>1 DEF PanelInv, PanelTyped
  <2>3. PanelTyped'
    BY <1>4, <1>6, <2>1, CommentSizes DEF PanelInv, PanelTyped
  <2>4. ThreadsStand'
    BY <1>2, <1>6, <2>1, <2>3, CommentAdded
  <2>5. \A c \in C!There' : c = n \/ (c \in C!There /\ comments'[c] = comments[c] /\ c # n)
    BY <2>2, <2>3, ThereAre, ThereAreAfter DEF PanelInv
  <2>6. n \notin C!There
    BY CommentSizes DEF PanelInv, PanelTyped, ThreadsStand
  <2>7. t \in C!There /\ comments'[t] = comments[t]
    <3>1. t \in C!There
      BY <1>2, <1>6 DEF PanelInv, ThreadsStand
    <3> QED
      BY <1>2, <2>2, <2>6, <3>1
  <2>8. MarksStand'
    <3> SUFFICES ASSUME late' = {}, NEW c \in C!There'
                 PROVE  comments'[c].resolved = comments'[comments'[c].thread].resolved
      BY DEF MarksStand
    <3>1. late = {} /\ ~ comments[t].resolved
      BY <1>6
    <3>2. CASE c = n
      <4>1. comments[t] \in CommentRow
        BY <1>2, <2>7, ThereAre DEF PanelInv
      <4>2. comments[t].resolved = FALSE
        BY <3>1, <4>1 DEF CommentRow
      <4> QED
        BY <2>1, <2>2, <2>7, <3>2, <4>2
    <3>3. CASE c \in C!There /\ comments'[c] = comments[c]
      <4>1. comments[c].thread \in C!There
        BY <3>3 DEF PanelInv, ThreadsStand
      <4>2. comments'[comments[c].thread] = comments[comments[c].thread]
        BY <2>2, <2>6, <4>1, ThereAre DEF PanelInv
      <4> QED
        BY <3>1, <3>3, <4>2 DEF PanelInv, MarksStand
    <3> QED
      BY <2>5, <3>2, <3>3
  <2>9. \A q \in Request : LocalStands(serving[q])'
    <3>1. \A c \in C!There' : c <= cmMade => c \in C!There /\ comments'[c].thread = comments[c].thread
      BY <2>5, CommentSizes DEF PanelInv, PanelTyped
    <3>2. cmMade <= cmMade'
      BY <1>6, CommentSizes DEF PanelInv, PanelTyped
    <3> QED
      BY <1>3, <2>3, <3>1, <3>2, LocalsStay
  <2> QED
    BY <2>3, <2>4, <2>8, <2>9 DEF PanelInv
<1> QED
  BY <1>1, <1>5, <1>6

(* Resolve and Unresolve mark all of a thread, its head too. *)
LEMMA MarkKeeps ==
    ASSUME PanelInv, NEW r \in Request, NEW op \in {"resolve", "unresolve"}, NEW b \in BOOLEAN,
           C!Mark(r, op, b)
    PROVE  PanelInv'
<1> DEFINE k == serving[r].id
           marked(x) == k \in C!There /\ x \in C!There /\ comments[x].thread = comments[k].thread
<1>1. /\ serving[r].op = op /\ serving' = [serving EXCEPT ![r] = C!Free]
      /\ comments' = [x \in Id |-> IF marked(x) THEN [comments[x] EXCEPT !.resolved = b]
                                   ELSE comments[x]]
      /\ UNCHANGED <<cmMade, late>>
  BY DEF C!Mark, C!Id, Id
<1>2. ASSUME NEW x \in Id
      PROVE  /\ comments'[x] \in CommentRow \cup {C!Gone}
             /\ comments'[x] \in CommentRow <=> comments[x] \in CommentRow
             /\ comments'[x].thread = comments[x].thread /\ comments'[x].parent = comments[x].parent
             /\ marked(x) => comments'[x].resolved = b
             /\ ~ marked(x) => comments'[x] = comments[x]
  <2>1. CASE marked(x)
    <3>1. comments[x] \in CommentRow
      BY <2>1, ThereAre DEF PanelInv
    <3>2. comments'[x] = [comments[x] EXCEPT !.resolved = b]
      BY <1>1, <2>1
    <3> QED
      BY <2>1, <3>1, <3>2 DEF CommentRow
  <2>2. CASE ~ marked(x)
    BY <1>1, <2>2 DEF PanelInv, PanelTyped
  <2> QED
    BY <2>1, <2>2
<1>3. PanelTyped'
  BY <1>1, <1>2, FreeTyped DEF PanelInv, PanelTyped
<1>4. C!There' = C!There /\ C!There \subseteq Id
  BY <1>2, <1>3, ThereAre, ThereAreAfter DEF PanelInv
<1>5. ThreadsStand'
  <2>1. \A S : C!Whole(S)' <=> C!Whole(S)
    BY <1>2, <1>4 DEF C!Whole
  <2>2. \A c \in C!There : /\ comments'[c].thread = comments[c].thread
                           /\ comments'[c].parent = comments[c].parent
    BY <1>2, <1>4
  <2>3. \A c \in C!There' : c <= cmMade'
    BY <1>1, <1>4 DEF PanelInv, ThreadsStand
  <2>4. ASSUME NEW c \in C!There
        PROVE  /\ comments'[c].thread \in C!There
               /\ comments'[comments'[c].thread].parent = 0
               /\ comments'[c].parent = 0 => comments'[c].thread = c
               /\ comments'[c].parent # 0 =>
                      /\ comments'[c].parent \in C!There
                      /\ comments'[comments'[c].parent].thread = comments'[c].thread
    BY <2>2 DEF PanelInv, ThreadsStand
  <2>5. ASSUME NEW S \in SUBSET Id, C!Whole(S), NEW c \in C!There, comments'[c].thread \in S
        PROVE  c \in S
    BY <2>2, <2>5 DEF PanelInv, ThreadsStand
  <2> QED
    BY <1>4, <2>1, <2>3, <2>4, <2>5 DEF ThreadsStand
<1>6. MarksStand'
  <2> SUFFICES ASSUME late = {}, NEW c \in C!There
               PROVE  comments'[c].resolved = comments'[comments'[c].thread].resolved
    BY <1>1, <1>4 DEF MarksStand
  <2>1. /\ comments'[c].thread = comments[c].thread /\ comments[c].thread \in C!There
        /\ comments[comments[c].thread].thread = comments[c].thread
        /\ comments[c].thread \in Id /\ c \in Id
    BY <1>2, <1>4 DEF PanelInv, ThreadsStand
  <2>2. marked(c) <=> marked(comments[c].thread)
    BY <2>1
  <2>3. comments[c].resolved = comments[comments[c].thread].resolved
    BY DEF PanelInv, MarksStand
  <2> QED
    BY <1>2, <2>1, <2>2, <2>3
<1>7. \A q \in Request : LocalStands(serving[q])'
  <2>1. \A q \in Request : serving'[q] = serving[q] \/ serving'[q] = C!Free
    BY <1>1 DEF PanelInv, PanelTyped
  <2>2. cmMade <= cmMade'
    BY <1>1, CommentSizes DEF PanelInv, PanelTyped
  <2> QED
    BY <1>2, <1>3, <1>4, <2>1, <2>2, LocalsStay
<1> QED
  BY <1>3, <1>5, <1>6, <1>7 DEF PanelInv

(* What goes with a comment: all that answer what goes, and no head but its own. *)
LEMMA BelowIsWhole ==
    ASSUME PanelInv, NEW k \in Id
    PROVE  /\ C!Below(k) \subseteq Id /\ k \in C!Below(k) /\ C!Whole(C!Below(k))
           /\ \A c \in C!Below(k) : c # k => comments[c].parent # 0
<1>1. C!Below(k) \subseteq Id /\ k \in C!Below(k)
  BY DEF C!Below, C!Id, Id
<1>2. C!Whole(C!Below(k))
  <2> SUFFICES ASSUME NEW x \in C!There, comments[x].parent \in C!Below(k),
                      NEW S \in SUBSET Id, k \in S, C!Whole(S)
               PROVE  x \in S
    BY ThereAre DEF PanelInv, C!Whole, C!Below, C!Id, Id
  <2>1. comments[x].parent \in S
    BY DEF C!Below, C!Id, Id
  <2> QED
    BY <2>1 DEF C!Whole
<1>3. ASSUME NEW c \in C!Below(k), c # k, comments[c].parent = 0 PROVE FALSE
  <2> DEFINE S == C!Below(k) \ {c}
  <2>1. S \in SUBSET Id /\ k \in S
    BY <1>1, <1>3
  <2>2. C!Whole(S)
    <3> SUFFICES ASSUME NEW x \in C!There, comments[x].parent \in S PROVE x \in S
      BY DEF C!Whole
    <3>1. x \in C!Below(k)
      BY <1>2 DEF C!Whole
    <3>2. comments[x].parent # 0
      BY <1>1 DEF Id
    <3> QED
      BY <1>3, <3>1, <3>2
  <2>3. c \in S
    BY <2>1, <2>2 DEF C!Below, C!Id, Id
  <2> QED
    BY <2>3
<1> QED
  BY <1>1, <1>2, <1>3

LEMMA DeleteCommentKeeps ==
    ASSUME PanelInv, NEW r \in Request, C!Delete(r)
    PROVE  PanelInv'
<1> DEFINE k == serving[r].id
           fell == C!Below(k)
<1>1. /\ serving[r].op = "delete" /\ serving' = [serving EXCEPT ![r] = C!Free]
      /\ comments' = [x \in Id |-> IF x \in fell THEN C!Gone ELSE comments[x]]
      /\ UNCHANGED <<cmMade, late>>
  BY DEF C!Delete, C!Id, Id
<1>2. k \in Id
  BY <1>1, CommentSizes DEF PanelInv, PanelTyped, LocalStands, Id
<1>3. /\ fell \subseteq Id /\ k \in fell /\ C!Whole(fell)
      /\ \A c \in fell : c # k => comments[c].parent # 0
  BY <1>2, BelowIsWhole
<1> HIDE DEF fell
<1>4. PanelTyped'
  BY <1>1, FreeTyped DEF PanelInv, PanelTyped
<1>5. C!There' = C!There \ fell /\ C!There \subseteq Id
  <2>1. \A c \in Id : comments'[c] = C!Gone <=> c \in fell \/ comments[c] = C!Gone
    BY <1>1
  <2> QED
    BY <1>4, <2>1, ThereAre, ThereAreAfter DEF PanelInv
<1>6. \A c \in C!There' : comments'[c] = comments[c]
  BY <1>1, <1>5
<1>7. \A c \in C!There' : comments[c].thread \in C!There'
  <2> SUFFICES ASSUME NEW c \in C!There, c \notin fell, comments[c].thread \in fell PROVE FALSE
    BY <1>5 DEF PanelInv, ThreadsStand
  <2>1. comments[c].thread = k
    BY <1>3 DEF PanelInv, ThreadsStand
  <2> QED
    BY <1>3, <2>1 DEF PanelInv, ThreadsStand
<1>8. \A c \in C!There' : comments[c].parent # 0 => comments[c].parent \in C!There'
  BY <1>3, <1>5 DEF PanelInv, ThreadsStand, C!Whole
<1>9. ASSUME NEW S \in SUBSET Id, C!Whole(S)', NEW c \in C!There', comments'[c].thread \in S
      PROVE  c \in S
  <2>1. C!Whole(S \cup fell)
    BY <1>3, <1>5, <1>6, <1>9 DEF C!Whole
  <2>2. S \cup fell \in SUBSET Id /\ comments[c].thread \in S \cup fell
    BY <1>3, <1>6, <1>9
  <2>3. c \in S \cup fell
    BY <1>5, <2>1, <2>2 DEF PanelInv, ThreadsStand
  <2> QED
    BY <1>5, <2>3
<1>10. ThreadsStand'
  <2>1. \A c \in C!There' : /\ c \in C!There /\ comments'[comments[c].thread] = comments[comments[c].thread]
                            /\ comments[c].parent # 0 =>
                                  comments'[comments[c].parent] = comments[comments[c].parent]
    BY <1>5, <1>6, <1>7, <1>8
  <2>2. \A c \in C!There' : c <= cmMade'
    BY <1>1, <2>1 DEF PanelInv, ThreadsStand
  <2> QED
    BY <1>6, <1>7, <1>8, <1>9, <2>1, <2>2 DEF PanelInv, ThreadsStand
<1>11. MarksStand'
  <2> SUFFICES ASSUME late = {}, NEW c \in C!There'
               PROVE  comments'[c].resolved = comments'[comments'[c].thread].resolved
    BY <1>1 DEF MarksStand
  <2>1. c \in C!There /\ comments'[comments'[c].thread] = comments[comments[c].thread]
    BY <1>5, <1>6, <1>7
  <2> QED
    BY <1>6, <2>1 DEF PanelInv, MarksStand
<1>12. \A q \in Request : LocalStands(serving[q])'
  <2>1. \A q \in Request : serving'[q] = serving[q] \/ serving'[q] = C!Free
    BY <1>1 DEF PanelInv, PanelTyped
  <2>2. cmMade <= cmMade'
    BY <1>1, CommentSizes DEF PanelInv, PanelTyped
  <2> QED
    BY <1>4, <1>5, <1>6, <2>1, <2>2, LocalsStay
<1> QED
  BY <1>4, <1>10, <1>11, <1>12 DEF PanelInv

LEMMA PanelStep == PanelInv /\ [Next]_vars => PanelInv'
<1> SUFFICES ASSUME PanelInv, [Next]_vars PROVE PanelInv'
  OBVIOUS
<1>1. CASE UNCHANGED cmVars
  BY <1>1 DEF cmVars, PanelInv, PanelTyped, ThreadsStand, MarksStand, LocalStands, C!There, C!Whole
<1>2. ASSUME NEW a \in Author, C!Create(a) PROVE PanelInv'
  BY <1>2, CreateCommentKeeps
<1>3. ASSUME NEW r \in Request, NEW op \in {"reply", "resolve", "unresolve", "delete"},
             NEW c \in C!Id, NEW a \in Author, C!Begin(r, op, c, a)
      PROVE  PanelInv'
  BY <1>3, BeginKeeps
<1>4. ASSUME NEW r \in Request, C!Reply(r) \/ C!Resolve(r) \/ C!Unresolve(r) \/ C!Delete(r)
      PROVE  PanelInv'
  <2>1. CASE C!Reply(r)
    BY <2>1, ReplyKeeps
  <2>2. CASE C!Resolve(r)
    BY <2>2, MarkKeeps DEF C!Resolve
  <2>3. CASE C!Unresolve(r)
    BY <2>3, MarkKeeps DEF C!Unresolve
  <2>4. CASE C!Delete(r)
    BY <2>4, DeleteCommentKeeps
  <2> QED
    BY <1>4, <2>1, <2>2, <2>3, <2>4
<1> QED
  BY PartSteps, <1>1, <1>2, <1>3, <1>4 DEF C!CommentsNext

(* Every comment has its head in the list, so only the heads are threads of it. *)
LEMMA PanelShows == PanelInv => ListingAgreesWithStats
<1> SUFFICES ASSUME PanelInv PROVE C!ListingAgreesWithStats
  BY DEF ListingAgreesWithStats
<1> DEFINE heads == {c \in C!There : C!Head(c)}
           closed == {c \in C!There : C!Head(c) /\ comments[c].resolved}
<1>1. C!ListByPage(TRUE) = heads
  <2>1. C!Rows(TRUE) = C!There
    BY DEF C!Rows
  <2>2. \A c \in C!There : comments[c].thread \in heads
    BY DEF PanelInv, ThreadsStand, C!Head, C!NoParent
  <2> QED
    BY <2>1, <2>2 DEF C!ListByPage, C!Stray
<1>2. late = {} => C!ListByPage(FALSE) = heads \ closed
  <2> SUFFICES ASSUME late = {} PROVE C!ListByPage(FALSE) = heads \ closed
    OBVIOUS
  <2> DEFINE rows1 == C!Rows(FALSE)
             open == {c \in rows1 : C!Head(c)}
  <2>1. C!ListByPage(FALSE) = open \cup {c \in rows1 \ open : C!Stray(c, open)}
    BY DEF C!ListByPage
  <2>2. rows1 = {c \in C!There : ~ comments[c].resolved}
    BY DEF C!Rows
  <2>3. open = heads \ closed
    BY <2>2
  <2>4. \A c \in rows1 : comments[c].thread \in open
    BY <2>2 DEF PanelInv, ThreadsStand, MarksStand, C!Head, C!NoParent
  <2>5. \A c \in rows1 : ~ C!Stray(c, open)
    BY <2>4 DEF C!Stray
  <2> HIDE DEF open, rows1
  <2> QED
    BY <2>1, <2>3, <2>5
<1>3. /\ IsFiniteSet(heads)
      /\ Cardinality(heads \ closed) = Cardinality(heads) - Cardinality(closed)
  <2>1. IsFiniteSet(1..MaxComments)
    BY CommentSizes, FS_Interval
  <2>2. heads \in SUBSET (1..MaxComments)
    BY ThereAre DEF PanelInv, Id
  <2>3. IsFiniteSet(heads)
    BY <2>1, <2>2, FS_Subset
  <2>4. heads \cap closed = closed
    OBVIOUS
  <2> HIDE DEF heads, closed
  <2> QED
    BY <2>3, <2>4, FS_Difference
<1> HIDE DEF heads, closed
<1>4. C!Total = Cardinality(heads) /\ C!Resolved = Cardinality(closed)
  BY CommentsCount DEF C!Total, C!Resolved, heads, closed
<1> QED
  BY <1>1, <1>2, <1>3, <1>4, CommentsCount DEF C!ListingAgreesWithStats, C!Open

(* The panel lists as many threads as its badge counts, whatever deletions, replies   *)
(* and marks overlap (comment/store.go ListByPage, GetStats).                      *)
THEOREM PanelAgrees == Spec => []ListingAgreesWithStats
<1>1. Init => PanelInv
  BY PanelStart DEF Init
<1>2. PanelInv /\ [Next]_vars => PanelInv'
  BY PanelStep
<1> QED
  BY <1>1, <1>2, PanelShows, PTL DEF Spec, vars
-----------------------------------------------------------------------------
(* The webhooks.                                                            *)

LEMMA HookSizes == Backoff \in Nat
BY DeliveryAssumption DEF W!WebhooksSizes

KeyType == [hook : Hook, msg : Msg, n : 1..Backoff + 1]
DeliveryType == [key : KeyType, claimed : BOOLEAN]
HandType == [key : KeyType, pc : {"post", "record", "retry"}, ok : BOOLEAN, blocked : BOOLEAN]
EndpointType == [state : {"new", "live", "gone"}, events : SUBSET W!Events]

OutboxTyped ==
    /\ hooks \in [Hook -> EndpointType]
    /\ rows \subseteq DeliveryType
    /\ sending \in [Instance -> SUBSET HandType]
    /\ posts \in [KeyType -> Nat]
    /\ made \subseteq KeyType
    /\ emitted \subseteq Msg

\* Two attempts at one event for one endpoint.
Alike(k, t) == k.hook = t.hook /\ k.msg = t.msg

Before(t) == [t EXCEPT !.n = @ - 1]

(* The attempt an event has come to, due or in a hand: none after it is a row, was     *)
(* sent or given up, and the one before it was; if it is new, neither was it.          *)
Frontier(t, new) ==
    /\ t.msg \in emitted
    /\ \A q \in rows : Alike(q.key, t) => q.key.n <= t.n
    /\ \A k \in KeyType : Alike(k, t) /\ (k \in made \/ posts[k] # 0) =>
            k.n <= t.n /\ (new => k # t)
    /\ t.n > 1 => Before(t) \in made

(* A row is of a live endpoint; one that is due is all there is of its event.         *)
RowHolds(r) ==
    /\ W!Live(r.key.hook) /\ r.key.msg \in emitted
    /\ \A q \in rows : q.key = r.key => q = r
    /\ ~ r.claimed =>
        /\ Frontier(r.key, TRUE)
        /\ <<r.key.hook, r.key.msg>> \notin answered
        /\ \A i \in Instance : \A a \in sending[i] : ~ Alike(a.key, r.key)

(* So is an attempt in a hand; its row is there as long as the endpoint is.           *)
HandHolds(i, a) ==
    /\ Frontier(a.key, a.pc = "post")
    /\ hooks[a.key.hook].state # "new"
    /\ W!Live(a.key.hook) => \E r \in rows : r.key = a.key
    /\ a.pc # "post" => a.key \in made
    /\ a.ok => a.pc = "record" /\ <<a.key.hook, a.key.msg>> \in answered
    /\ a.blocked => a.pc = "record" /\ <<a.key.hook, a.key.msg>> \in refused
    /\ a.pc = "retry" => a.key.n <= Backoff
    /\ <<a.key.hook, a.key.msg>> \in answered => a.ok
    /\ \A j \in Instance : \A b \in sending[j] : Alike(b.key, a.key) => j = i /\ b = a

KeyHolds(k) ==
    /\ posts[k] <= 1
    /\ posts[k] # 0 => k.msg \in emitted /\ (k.n > 1 => Before(k) \in made)
    /\ k \in made => k.msg \in emitted

Waits(h, m) == \E r \in rows : r.key.hook = h /\ r.key.msg = m /\ ~ r.claimed
Held(h, m) == \E i \in Instance : \E a \in sending[i] : a.key.hook = h /\ a.key.msg = m

EventHolds(h, m) ==
    /\ <<h, m>> \in answered => m \in emitted
    /\ <<h, m>> \in owed => m \in emitted /\ hooks[h].state # "new"
    /\ W!Live(h) /\ <<h, m>> \in owed /\ <<h, m>> \notin answered /\ <<h, m>> \notin refused
         /\ <<h, m>> \notin forgotten =>
            Waits(h, m) \/ Held(h, m) \/ [hook |-> h, msg |-> m, n |-> Backoff + 1] \in made

OutboxInv ==
    /\ OutboxTyped
    /\ \A r \in rows : RowHolds(r)
    /\ \A i \in Instance : \A a \in sending[i] : HandHolds(i, a)
    /\ \A k \in KeyType : KeyHolds(k)
    /\ \A h \in Hook, m \in Msg : EventHolds(h, m)

LEMMA KeyFacts ==
    /\ \A k \in KeyType : k.hook \in Hook /\ k.msg \in Msg /\ k.n \in Nat /\ k.n >= 1
                          /\ k.n <= Backoff + 1
    /\ \A k, t \in KeyType : Alike(k, t) /\ k.n = t.n => k = t
    /\ \A k \in KeyType, n \in 1..Backoff + 1 : /\ [k EXCEPT !.n = n] \in KeyType
                                               /\ [k EXCEPT !.n = n].hook = k.hook
                                               /\ [k EXCEPT !.n = n].msg = k.msg
                                               /\ [k EXCEPT !.n = n].n = n
<1>1. \A k \in KeyType : k.hook \in Hook /\ k.msg \in Msg /\ k.n \in Nat /\ k.n >= 1
                         /\ k.n <= Backoff + 1
  BY HookSizes DEF KeyType
<1>2. \A k, t \in KeyType : Alike(k, t) /\ k.n = t.n => k = t
  BY DEF KeyType, Alike
<1>3. \A k \in KeyType, n \in 1..Backoff + 1 : /\ [k EXCEPT !.n = n] \in KeyType
                                              /\ [k EXCEPT !.n = n].hook = k.hook
                                              /\ [k EXCEPT !.n = n].msg = k.msg
                                              /\ [k EXCEPT !.n = n].n = n
  BY DEF KeyType
<1> QED
  BY <1>1, <1>2, <1>3

LEMMA AlikeIs ==
    /\ \A k, t, u : Alike(k, t) /\ Alike(t, u) => Alike(k, u)
    /\ \A k, t : Alike(k, t) => Alike(t, k)
    /\ \A k, t : Alike(k, t) <=> W!Of(k) = W!Of(t)
    /\ \A k : W!Of(k) = <<k.hook, k.msg>>
BY DEF Alike, W!Of

LEMMA RowKey == OutboxTyped => \A r \in rows : r \in DeliveryType /\ r.key \in KeyType /\ r.claimed \in BOOLEAN
BY DEF OutboxTyped, DeliveryType

LEMMA HandKey ==
    OutboxTyped => \A i \in Instance : \A a \in sending[i] : a \in HandType /\ a.key \in KeyType
BY DEF OutboxTyped, HandType

LEMMA OutboxStart == W!WebhooksInit => OutboxInv
<1> SUFFICES ASSUME W!WebhooksInit PROVE OutboxInv
  OBVIOUS
<1>1. W!Key = KeyType
  BY DEF W!Key, W!Attempt, KeyType
<1>2. OutboxTyped
  <2>1. hooks \in [Hook -> EndpointType]
    BY DEF W!WebhooksInit, W!Endpoint, EndpointType
  <2> QED
    BY <1>1, <2>1 DEF W!WebhooksInit, OutboxTyped
<1>3. \A k \in KeyType : KeyHolds(k)
  BY <1>1 DEF W!WebhooksInit, KeyHolds
<1>4. \A h \in Hook, m \in Msg : EventHolds(h, m)
  BY DEF W!WebhooksInit, EventHolds
<1>5. rows = {} /\ \A i \in Instance : sending[i] = {}
  BY DEF W!WebhooksInit
<1> QED
  BY <1>2, <1>3, <1>4, <1>5 DEF OutboxInv

(* What happens to other events leaves an event where it is. *)
LEMMA FrontierStays ==
    ASSUME NEW t, NEW new, Frontier(t, new),
           emitted \subseteq emitted', made \subseteq made',
           \A q \in rows' : Alike(q.key, t) => \E p \in rows : p.key = q.key,
           \A k \in KeyType : Alike(k, t) => (k \in made' => k \in made) /\ posts'[k] = posts[k]
    PROVE  Frontier(t, new)'
BY DEF Frontier

(* The rows change only by being claimed, or going with their endpoint. *)
LEMMA RowStays ==
    ASSUME OutboxInv, OutboxTyped', NEW r \in rows',
           r \in rows, W!Live(r.key.hook)',
           emitted \subseteq emitted', made \subseteq made',
           \A q \in rows' : q.key = r.key => q \in rows,
           ~ r.claimed =>
               /\ \A q \in rows' : Alike(q.key, r.key) => \E p \in rows : p.key = q.key
               /\ \A k \in KeyType : Alike(k, r.key) => (k \in made' => k \in made) /\ posts'[k] = posts[k]
               /\ <<r.key.hook, r.key.msg>> \notin answered' \ answered
               /\ \A i \in Instance : \A a \in sending'[i] :
                        Alike(a.key, r.key) => \E b \in sending[i] : Alike(b.key, r.key)
    PROVE  RowHolds(r)'
<1>1. RowHolds(r)
  BY DEF OutboxInv
<1>2. \A q \in rows' : q.key = r.key => q = r
  BY <1>1 DEF RowHolds
<1>3. ASSUME ~ r.claimed
      PROVE  /\ Frontier(r.key, TRUE)'
             /\ <<r.key.hook, r.key.msg>> \notin answered'
             /\ \A i \in Instance : \A a \in sending'[i] : ~ Alike(a.key, r.key)
  <2>1. Frontier(r.key, TRUE) /\ <<r.key.hook, r.key.msg>> \notin answered
        /\ \A i \in Instance : \A a \in sending[i] : ~ Alike(a.key, r.key)
    BY <1>1, <1>3 DEF RowHolds
  <2>2. \A q \in rows' : Alike(q.key, r.key) => \E p \in rows : p.key = q.key
    BY <1>3
  <2>3. Frontier(r.key, TRUE)'
    BY <1>3, <2>1, <2>2, FrontierStays
  <2> QED
    BY <1>3, <2>1, <2>3
<1>4. r.key.msg \in emitted'
  BY <1>1 DEF RowHolds
<1> QED
  BY <1>2, <1>3, <1>4 DEF RowHolds

(* A hand that is not moved. *)
LEMMA HandStays ==
    ASSUME OutboxInv, OutboxTyped', NEW i \in Instance, NEW a \in sending[i], a \in sending'[i],
           hooks'[a.key.hook].state # "new", W!Live(a.key.hook)' => W!Live(a.key.hook),
           emitted \subseteq emitted', made \subseteq made', refused \subseteq refused',
           <<a.key.hook, a.key.msg>> \in answered' <=> <<a.key.hook, a.key.msg>> \in answered,
           \A q \in rows' : Alike(q.key, a.key) => \E p \in rows : p.key = q.key,
           W!Live(a.key.hook)' => \A q \in rows : q.key = a.key => \E p \in rows' : p.key = q.key,
           \A k \in KeyType : Alike(k, a.key) => (k \in made' => k \in made) /\ posts'[k] = posts[k],
           \A j \in Instance : \A b \in sending'[j] : Alike(b.key, a.key) => b \in sending[j]
    PROVE  HandHolds(i, a)'
<1>1. HandHolds(i, a)
  BY DEF OutboxInv
<1>2. Frontier(a.key, a.pc = "post")'
  BY <1>1, FrontierStays DEF HandHolds
<1>3. \A j \in Instance : \A b \in sending'[j] : Alike(b.key, a.key) => j = i /\ b = a
  BY <1>1 DEF HandHolds
<1>4. W!Live(a.key.hook)' => \E r \in rows' : r.key = a.key
  BY <1>1 DEF HandHolds
<1> QED
  BY <1>1, <1>2, <1>3, <1>4 DEF HandHolds

LEMMA OutboxStays ==
    ASSUME OutboxInv, UNCHANGED whVars
    PROVE  OutboxInv'
<1>1. UNCHANGED <<hooks, rows, sending, emitted, owed, posts, made, refused, answered, forgotten>>
  BY DEF whVars
<1> QED
  BY <1>1 DEF OutboxInv, OutboxTyped, RowHolds, HandHolds, KeyHolds, EventHolds, Frontier, Waits,
              Held, W!Live

LEMMA CreateHookKeeps ==
    ASSUME OutboxInv, NEW h \in Hook, NEW events \in SUBSET W!Events, W!Create(h, events)
    PROVE  OutboxInv'
<1> DEFINE e == [state |-> "live", events |-> events]
<1>1. /\ hooks[h].state = "new" /\ hooks' = [hooks EXCEPT ![h] = e]
      /\ UNCHANGED <<rows, sending, emitted, owed, posts, made, refused, answered, forgotten>>
  BY DEF W!Create, W!Registered, W!Endpoint, W!whHistory
<1>2. e \in EndpointType /\ e.state = "live"
  BY DEF EndpointType
<1> HIDE DEF e
<1>3. hooks'[h] = e /\ \A k \in Hook : k # h => hooks'[k] = hooks[k]
  BY <1>1 DEF OutboxInv, OutboxTyped
<1>4. OutboxTyped'
  BY <1>1, <1>2 DEF OutboxInv, OutboxTyped
<1>5. \A r \in rows' : RowHolds(r)'
  <2> SUFFICES ASSUME NEW r \in rows PROVE RowHolds(r)'
    BY <1>1
  <2>1. W!Live(r.key.hook) /\ r.key.hook \in Hook
    BY RowKey, KeyFacts DEF OutboxInv, RowHolds
  <2>2. W!Live(r.key.hook)'
    BY <1>1, <1>3, <2>1 DEF W!Live
  <2> QED
    BY <1>1, <1>4, <2>2, RowStays
<1>6. \A i \in Instance : \A a \in sending'[i] : HandHolds(i, a)'
  <2> SUFFICES ASSUME NEW i \in Instance, NEW a \in sending[i] PROVE HandHolds(i, a)'
    BY <1>1
  <2>1. hooks[a.key.hook].state # "new" /\ a.key.hook \in Hook
    BY HandKey, KeyFacts DEF OutboxInv, HandHolds
  <2>2. hooks'[a.key.hook] = hooks[a.key.hook]
    BY <1>1, <1>3, <2>1
  <2>3. hooks'[a.key.hook].state # "new" /\ (W!Live(a.key.hook)' => W!Live(a.key.hook))
    BY <2>1, <2>2 DEF W!Live
  <2> QED
    BY <1>1, <1>4, <2>3, HandStays
<1>7. \A k \in KeyType : KeyHolds(k)'
  BY <1>1 DEF OutboxInv, KeyHolds
<1>8. \A g \in Hook, m \in Msg : EventHolds(g, m)'
  <2> SUFFICES ASSUME NEW g \in Hook, NEW m \in Msg PROVE EventHolds(g, m)'
    OBVIOUS
  <2>1. EventHolds(g, m)
    BY DEF OutboxInv
  <2>2. <<g, m>> \in owed => hooks'[g] = hooks[g]
    BY <1>1, <1>3, <2>1 DEF EventHolds
  <2> QED
    BY <1>1, <2>1, <2>2 DEF EventHolds, Waits, Held, W!Live
<1> QED
  BY <1>4, <1>5, <1>6, <1>7, <1>8 DEF OutboxInv

LEMMA DeleteHookKeeps ==
    ASSUME OutboxInv, NEW h \in Hook, W!Delete(h)
    PROVE  OutboxInv'
<1> DEFINE e == [state |-> "gone", events |-> {}]
<1>1. /\ hooks' = [hooks EXCEPT ![h] = e] /\ rows' = {r \in rows : r.key.hook # h}
      /\ UNCHANGED <<sending, emitted, owed, posts, made, refused, answered, forgotten>>
  BY DEF W!Delete, W!Endpoint, W!whHistory
<1>2. e \in EndpointType /\ e.state = "gone"
  BY DEF EndpointType
<1> HIDE DEF e
<1>3. hooks'[h] = e /\ \A k \in Hook : k # h => hooks'[k] = hooks[k]
  BY <1>1 DEF OutboxInv, OutboxTyped
<1>4. OutboxTyped'
  BY <1>1, <1>2 DEF OutboxInv, OutboxTyped
<1>5. \A r \in rows' : RowHolds(r)'
  <2> SUFFICES ASSUME NEW r \in rows', r \in rows, r.key.hook # h PROVE RowHolds(r)'
    BY <1>1
  <2>1. W!Live(r.key.hook) /\ r.key.hook \in Hook
    BY RowKey, KeyFacts DEF OutboxInv, RowHolds
  <2>2. W!Live(r.key.hook)'
    BY <1>3, <2>1 DEF W!Live
  <2> QED
    BY <1>1, <1>4, <2>2, RowStays
<1>6. \A i \in Instance : \A a \in sending'[i] : HandHolds(i, a)'
  <2> SUFFICES ASSUME NEW i \in Instance, NEW a \in sending[i] PROVE HandHolds(i, a)'
    BY <1>1
  <2>1. hooks[a.key.hook].state # "new" /\ a.key.hook \in Hook
    BY HandKey, KeyFacts DEF OutboxInv, HandHolds
  <2>2. hooks'[a.key.hook].state # "new" /\ (W!Live(a.key.hook)' => W!Live(a.key.hook) /\ a.key.hook # h)
    BY <1>2, <1>3, <2>1 DEF W!Live
  <2>3. W!Live(a.key.hook)' => \A q \in rows : q.key = a.key => \E p \in rows' : p.key = q.key
    BY <1>1, <2>2
  <2>4. \A q \in rows' : Alike(q.key, a.key) => \E p \in rows : p.key = q.key
    BY <1>1
  <2> QED
    BY <1>1, <1>4, <2>2, <2>3, <2>4, HandStays
<1>7. \A k \in KeyType : KeyHolds(k)'
  BY <1>1 DEF OutboxInv, KeyHolds
<1>8. \A g \in Hook, m \in Msg : EventHolds(g, m)'
  <2> SUFFICES ASSUME NEW g \in Hook, NEW m \in Msg PROVE EventHolds(g, m)'
    OBVIOUS
  <2>1. EventHolds(g, m)
    BY DEF OutboxInv
  <2>2. /\ hooks[g].state # "new" => hooks'[g].state # "new"
        /\ W!Live(g)' => W!Live(g) /\ g # h
    BY <1>2, <1>3 DEF W!Live
  <2>3. g # h /\ Waits(g, m) => Waits(g, m)'
    BY <1>1 DEF Waits
  <2> QED
    BY <1>1, <2>1, <2>2, <2>3 DEF EventHolds, Held
<1> QED
  BY <1>4, <1>5, <1>6, <1>7, <1>8 DEF OutboxInv

LEMMA EmitKeeps ==
    ASSUME OutboxInv, NEW m \in Msg, W!Emit(m)
    PROVE  OutboxInv'
<1> DEFINE first(h) == [key |-> [hook |-> h, msg |-> m, n |-> 1], claimed |-> FALSE]
           subs == W!Subscribed(m)
<1>1. /\ m \notin emitted /\ emitted' = emitted \cup {m} /\ owed' = owed \cup (subs \X {m})
      /\ UNCHANGED <<hooks, sending, posts, made, refused, answered>>
      /\ \/ rows' = rows \cup {first(h) : h \in subs} /\ forgotten' = forgotten
         \/ rows' = rows /\ forgotten' = forgotten \cup (subs \X {m})
  BY DEF W!Emit
<1>2. subs \subseteq Hook /\ \A h \in subs : W!Live(h)
  BY DEF W!Subscribed
<1> HIDE DEF subs
<1>3. \A h \in subs : /\ first(h) \in DeliveryType /\ first(h).key \in KeyType
                      /\ first(h).key.hook = h /\ first(h).key.msg = m /\ first(h).key.n = 1
                      /\ ~ first(h).claimed
  BY <1>2, HookSizes DEF DeliveryType, KeyType
<1>4. \A r \in rows' : r \in rows \/ \E h \in subs : r = first(h)
  BY <1>1
<1>5. \A g, h : g = h => first(g) = first(h)
  OBVIOUS
<1> HIDE DEF first
<1>6. OutboxTyped'
  BY <1>1, <1>3, <1>4 DEF OutboxInv, OutboxTyped
<1>7. /\ \A r \in rows : r.key.msg # m
      /\ \A i \in Instance : \A a \in sending[i] : a.key.msg # m
      /\ \A k \in KeyType : k \in made \/ posts[k] # 0 => k.msg # m
      /\ \A h \in Hook : <<h, m>> \notin answered /\ <<h, m>> \notin owed
  <2>1. \A r \in rows : r.key.msg # m
    BY <1>1 DEF OutboxInv, RowHolds
  <2>2. \A i \in Instance : \A a \in sending[i] : a.key.msg # m
    BY <1>1 DEF OutboxInv, HandHolds, Frontier
  <2>3. \A k \in KeyType : k \in made \/ posts[k] # 0 => k.msg # m
    BY <1>1 DEF OutboxInv, KeyHolds
  <2>4. \A h \in Hook : <<h, m>> \notin answered /\ <<h, m>> \notin owed
    BY <1>1 DEF OutboxInv, EventHolds
  <2> QED
    BY <2>1, <2>2, <2>3, <2>4
<1>8. \A r \in rows' : RowHolds(r)'
  <2>1. ASSUME NEW r \in rows PROVE RowHolds(r)'
    <3>1. W!Live(r.key.hook)'
      BY <1>1 DEF OutboxInv, RowHolds, W!Live
    <3>2. \A q \in rows' : Alike(q.key, r.key) => q \in rows
      BY <1>3, <1>4, <1>7 DEF Alike
    <3>3. \A q \in rows' : q.key = r.key => q \in rows
      BY <3>2 DEF Alike
    <3> QED
      BY <1>1, <1>6, <3>1, <3>2, <3>3, RowStays
  <2>2. ASSUME NEW h \in subs, first(h) \in rows' PROVE RowHolds(first(h))'
    <3>1. W!Live(first(h).key.hook)' /\ first(h).key.msg \in emitted'
      BY <1>1, <1>2, <1>3 DEF W!Live
    <3>2. \A q \in rows' : Alike(q.key, first(h).key) => q = first(h)
      <4> SUFFICES ASSUME NEW q \in rows', Alike(q.key, first(h).key) PROVE q = first(h)
        OBVIOUS
      <4>1. q.key.msg = m /\ q.key.hook = h
        BY <1>3 DEF Alike
      <4>2. PICK g \in subs : q = first(g)
        BY <1>4, <1>7, <4>1
      <4>3. g = h
        BY <1>3, <4>1, <4>2
      <4> QED
        BY <1>5, <4>2, <4>3
    <3>3. \A q \in rows' : q.key = first(h).key => q = first(h)
      BY <3>2 DEF Alike
    <3>4. \A k \in KeyType : Alike(k, first(h).key) => k \notin made' /\ posts'[k] = 0
      BY <1>1, <1>3, <1>7 DEF Alike
    <3>5. Frontier(first(h).key, TRUE)'
      BY <1>3, <3>1, <3>2, <3>4 DEF Frontier
    <3>6. \A i \in Instance : \A a \in sending'[i] : ~ Alike(a.key, first(h).key)
      BY <1>1, <1>3, <1>7 DEF Alike
    <3>7. <<first(h).key.hook, first(h).key.msg>> \notin answered'
      BY <1>1, <1>2, <1>3, <1>7
    <3> QED
      BY <3>1, <3>3, <3>5, <3>6, <3>7 DEF RowHolds
  <2> QED
    BY <1>4, <2>1, <2>2
<1>9. \A i \in Instance : \A a \in sending'[i] : HandHolds(i, a)'
  <2> SUFFICES ASSUME NEW i \in Instance, NEW a \in sending[i] PROVE HandHolds(i, a)'
    BY <1>1
  <2>1. hooks'[a.key.hook].state # "new" /\ (W!Live(a.key.hook)' => W!Live(a.key.hook))
    BY <1>1 DEF OutboxInv, HandHolds, W!Live
  <2>2. \A q \in rows' : Alike(q.key, a.key) => q \in rows
    BY <1>3, <1>4, <1>7 DEF Alike
  <2>3. \A q \in rows : q.key = a.key => \E p \in rows' : p.key = q.key
    BY <1>1
  <2> QED
    BY <1>1, <1>6, <2>1, <2>2, <2>3, HandStays
<1>10. \A k \in KeyType : KeyHolds(k)'
  BY <1>1 DEF OutboxInv, KeyHolds
<1>11. \A h \in Hook, e \in Msg : EventHolds(h, e)'
  <2> SUFFICES ASSUME NEW h \in Hook, NEW e \in Msg PROVE EventHolds(h, e)'
    OBVIOUS
  <2>1. EventHolds(h, e)
    BY DEF OutboxInv
  <2>2. Waits(h, e) => Waits(h, e)'
    BY <1>1 DEF Waits
  <2>3. W!Live(h)' = W!Live(h) /\ Held(h, e)' = Held(h, e)
    BY <1>1 DEF W!Live, Held
  <2>4. <<h, e>> \in owed' => <<h, e>> \in owed \/ (e = m /\ h \in subs)
    BY <1>1
  <2>5. CASE <<h, e>> \in owed \/ <<h, e>> \notin owed'
    BY <1>1, <2>1, <2>2, <2>3, <2>5 DEF EventHolds
  <2>6. CASE e = m /\ h \in subs
    <3>1. hooks'[h].state # "new" /\ e \in emitted' /\ <<h, e>> \notin answered'
      BY <1>1, <1>2, <1>7, <2>6 DEF W!Live
    <3>2. CASE rows' = rows \cup {first(g) : g \in subs}
      <4>1. first(h) \in rows'
        BY <2>6, <3>2
      <4>2. Waits(h, e)'
        BY <1>3, <2>6, <4>1 DEF Waits
      <4> QED
        BY <3>1, <4>2 DEF EventHolds
    <3>3. CASE forgotten' = forgotten \cup (subs \X {m})
      <4>1. <<h, e>> \in forgotten'
        BY <2>6, <3>3
      <4> QED
        BY <3>1, <4>1 DEF EventHolds
    <3> QED
      BY <1>1, <3>2, <3>3
  <2> QED
    BY <2>4, <2>5, <2>6
<1> QED
  BY <1>6, <1>8, <1>9, <1>10, <1>11 DEF OutboxInv

(* Of an event at most one attempt is due. *)
LEMMA DueAlone ==
    ASSUME OutboxInv, NEW r \in rows, NEW s \in rows, ~ r.claimed, ~ s.claimed, Alike(r.key, s.key)
    PROVE  r = s
<1>1. Frontier(r.key, TRUE) /\ Frontier(s.key, TRUE) /\ r.key \in KeyType /\ s.key \in KeyType
  BY RowKey DEF OutboxInv, RowHolds
<1>2. Alike(s.key, r.key)
  BY AlikeIs
<1>3. r.key.n <= s.key.n /\ s.key.n <= r.key.n /\ r.key.n \in Nat /\ s.key.n \in Nat
  BY <1>1, <1>2, KeyFacts DEF Frontier
<1>4. r.key = s.key
  BY <1>1, <1>3, KeyFacts
<1> QED
  BY <1>4 DEF OutboxInv, RowHolds

LEMMA ClaimKeeps ==
    ASSUME OutboxInv, NEW i \in Instance, W!Claim(i)
    PROVE  OutboxInv'
<1> DEFINE taken(s) == [key |-> s.key, claimed |-> TRUE]
           hand(s) == [key |-> s.key, pc |-> "post", ok |-> FALSE, blocked |-> FALSE]
<1>1. PICK R \in SUBSET {r \in rows : ~ r.claimed} :
          /\ sending[i] = {} /\ rows' = (rows \ R) \cup W!Stamped(R)
          /\ \/ sending' = [sending EXCEPT ![i] = W!Claimed(R)] /\ forgotten' = forgotten
             \/ sending' = sending /\ forgotten' = forgotten \cup {W!Of(k) : k \in W!Keys(R)}
          /\ UNCHANGED <<hooks, emitted, owed, posts, made, refused, answered>>
  BY DEF W!Claim, W!Due, W!Idle
<1>2. /\ \A q : q \in W!Stamped(R) <=> \E s \in R : q = taken(s)
      /\ \A a : a \in W!Claimed(R) <=> \E s \in R : a = hand(s)
  <2>1. \A k : k \in W!Keys(R) <=> \E s \in R : k = s.key
    BY DEF W!Keys
  <2>2. \A q : q \in W!Stamped(R) <=> \E k \in W!Keys(R) : q = [key |-> k, claimed |-> TRUE]
    <3>1. \A q \in W!Stamped(R) : q.key \in W!Keys(R) /\ q = [key |-> q.key, claimed |-> TRUE]
      <4> SUFFICES ASSUME NEW q \in [key : W!Keys(R), claimed : {TRUE}]
                   PROVE  q.key \in W!Keys(R) /\ q = [key |-> q.key, claimed |-> TRUE]
        BY DEF W!Stamped
      <4>1. q.key \in W!Keys(R) /\ q.claimed = TRUE
        OBVIOUS
      <4>2. q = [key |-> q.key, claimed |-> q.claimed]
        OBVIOUS
      <4> QED
        BY <4>1, <4>2, Zenon
    <3>2. \A k \in W!Keys(R) : [key |-> k, claimed |-> TRUE] \in W!Stamped(R)
      BY DEF W!Stamped
    <3> QED
      BY <3>1, <3>2
  <2>3. \A a : a \in W!Claimed(R) <=> \E k \in W!Keys(R) :
                    a = [key |-> k, pc |-> "post", ok |-> FALSE, blocked |-> FALSE]
    <3>1. \A a \in W!Claimed(R) :
              a.key \in W!Keys(R)
              /\ a = [key |-> a.key, pc |-> "post", ok |-> FALSE, blocked |-> FALSE]
      <4> SUFFICES ASSUME NEW a \in [key : W!Keys(R), pc : {"post"}, ok : {FALSE}, blocked : {FALSE}]
                   PROVE  a.key \in W!Keys(R)
                          /\ a = [key |-> a.key, pc |-> "post", ok |-> FALSE, blocked |-> FALSE]
        BY DEF W!Claimed
      <4>1. a.key \in W!Keys(R) /\ a.pc = "post" /\ a.ok = FALSE /\ a.blocked = FALSE
        OBVIOUS
      <4>2. a = [key |-> a.key, pc |-> a.pc, ok |-> a.ok, blocked |-> a.blocked]
        OBVIOUS
      <4> QED
        BY <4>1, <4>2, Zenon
    <3>2. \A k \in W!Keys(R) :
              [key |-> k, pc |-> "post", ok |-> FALSE, blocked |-> FALSE] \in W!Claimed(R)
      BY DEF W!Claimed
    <3> QED
      BY <3>1, <3>2
  <2> QED
    BY <2>1, <2>2, <2>3
<1>3. \A s \in R : /\ s \in rows /\ ~ s.claimed /\ s.key \in KeyType
                   /\ taken(s) \in DeliveryType /\ taken(s).key = s.key /\ taken(s).claimed
                   /\ hand(s) \in HandType /\ hand(s).key = s.key /\ hand(s).pc = "post"
                   /\ hand(s).ok = FALSE /\ hand(s).blocked = FALSE
  BY RowKey DEF OutboxInv, DeliveryType, HandType
<1>4. \A s, q : s.key = q.key => taken(s) = taken(q) /\ hand(s) = hand(q)
  OBVIOUS
<1> HIDE DEF taken, hand
<1>5. /\ \A r \in rows' : (r \in rows /\ r \notin R) \/ \E s \in R : r = taken(s)
      /\ \A s \in R : taken(s) \in rows'
      /\ \A r \in rows : \E q \in rows' : q.key = r.key
      /\ \A r \in rows' : \E q \in rows : q.key = r.key
  <2>1. /\ \A r \in rows' : (r \in rows /\ r \notin R) \/ \E s \in R : r = taken(s)
        /\ \A s \in R : taken(s) \in rows'
    BY <1>1, <1>2
  <2>2. \A r \in rows : \E q \in rows' : q.key = r.key
    <3> SUFFICES ASSUME NEW r \in rows PROVE \E q \in rows' : q.key = r.key
      OBVIOUS
    <3>1. CASE r \in R
      BY <1>3, <2>1, <3>1
    <3>2. CASE r \notin R
      BY <1>1, <3>2
    <3> QED
      BY <3>1, <3>2
  <2> QED
    BY <1>3, <2>1, <2>2
<1>6. \A j \in Instance : \A a \in sending'[j] :
          a \in sending[j] \/ (j = i /\ \E s \in R : a = hand(s))
  BY <1>1, <1>2 DEF OutboxInv, OutboxTyped
<1>7. \A s \in R : \A r \in rows : ~ r.claimed /\ Alike(r.key, s.key) => r = s
  BY <1>3, DueAlone
<1>8. \A s \in R : \A j \in Instance : \A a \in sending[j] : ~ Alike(a.key, s.key)
  BY <1>3 DEF OutboxInv, RowHolds
<1>9. OutboxTyped'
  <2>1. rows' \subseteq DeliveryType
    BY <1>3, <1>5 DEF OutboxInv, OutboxTyped
  <2>2. W!Claimed(R) \subseteq HandType
    BY <1>2, <1>3
  <2>3. sending' \in [Instance -> SUBSET HandType]
    BY <1>1, <2>2 DEF OutboxInv, OutboxTyped
  <2> QED
    BY <1>1, <2>1, <2>3 DEF OutboxInv, OutboxTyped
<1>10. \A r \in rows' : RowHolds(r)'
  <2>1. ASSUME NEW r \in rows', r \in rows, r \notin R PROVE RowHolds(r)'
    <3>1. W!Live(r.key.hook)'
      BY <1>1, <2>1 DEF OutboxInv, RowHolds, W!Live
    <3>2. \A q \in rows' : q.key = r.key => q \in rows
      <4> SUFFICES ASSUME NEW s \in R, s.key = r.key PROVE FALSE
        BY <1>3, <1>5
      <4> QED
        BY <1>3, <2>1 DEF OutboxInv, RowHolds
    <3>3. ASSUME ~ r.claimed, NEW j \in Instance, NEW a \in sending'[j], Alike(a.key, r.key)
          PROVE  a \in sending[j]
      <4> SUFFICES ASSUME NEW s \in R, a = hand(s) PROVE FALSE
        BY <1>6
      <4>1. Alike(r.key, s.key)
        BY <1>3, <3>3, AlikeIs
      <4> QED
        BY <1>7, <2>1, <3>3, <4>1
    <3> QED
      BY <1>1, <1>5, <1>9, <2>1, <3>1, <3>2, <3>3, RowStays
  <2>2. ASSUME NEW s \in R PROVE RowHolds(taken(s))'
    <3>0. W!Live(s.key.hook) /\ s.key.msg \in emitted
      BY <1>3 DEF OutboxInv, RowHolds
    <3>1. W!Live(taken(s).key.hook)' /\ taken(s).key.msg \in emitted'
      BY <1>1, <1>3, <3>0 DEF W!Live
    <3>2. \A q \in rows' : q.key = taken(s).key => q = taken(s)
      <4> SUFFICES ASSUME NEW q \in rows', q.key = s.key PROVE q = taken(s)
        BY <1>3
      <4>1. CASE q \in rows /\ q \notin R
        BY <1>3, <4>1 DEF OutboxInv, RowHolds
      <4>2. ASSUME NEW t \in R, q = taken(t) PROVE q = taken(s)
        BY <1>3, <1>4, <4>2
      <4> QED
        BY <1>5, <4>1, <4>2
    <3> QED
      BY <1>3, <3>1, <3>2 DEF RowHolds
  <2> QED
    BY <1>5, <2>1, <2>2
<1>11. \A j \in Instance : \A a \in sending'[j] : HandHolds(j, a)'
  <2>1. ASSUME NEW j \in Instance, NEW a \in sending'[j], a \in sending[j] PROVE HandHolds(j, a)'
    <3>1. hooks'[a.key.hook].state # "new" /\ (W!Live(a.key.hook)' => W!Live(a.key.hook))
      BY <1>1, <2>1 DEF OutboxInv, HandHolds, W!Live
    <3>2. \A k \in Instance : \A b \in sending'[k] : Alike(b.key, a.key) => b \in sending[k]
      <4> SUFFICES ASSUME NEW s \in R, Alike(hand(s).key, a.key) PROVE FALSE
        BY <1>6
      <4> QED
        BY <1>3, <1>8, <2>1, AlikeIs
    <3> QED
      BY <1>1, <1>5, <1>9, <2>1, <3>1, <3>2, HandStays
  <2>2. ASSUME NEW s \in R, hand(s) \in sending'[i] PROVE HandHolds(i, hand(s))'
    <3>1. /\ Frontier(s.key, TRUE) /\ W!Live(s.key.hook)
          /\ <<s.key.hook, s.key.msg>> \notin answered
      BY <1>3 DEF OutboxInv, RowHolds
    <3>2. Frontier(s.key, TRUE)'
      BY <1>1, <1>5, <3>1, FrontierStays
    <3>3. \A j \in Instance : \A b \in sending'[j] : Alike(b.key, hand(s).key) => j = i /\ b = hand(s)
      <4> SUFFICES ASSUME NEW j \in Instance, NEW b \in sending'[j], Alike(b.key, s.key)
                   PROVE  j = i /\ b = hand(s)
        BY <1>3
      <4>1. PICK t \in R : j = i /\ b = hand(t)
        BY <1>6, <1>8
      <4>2. t = s
        BY <1>3, <1>7, <4>1
      <4> QED
        BY <4>1, <4>2
    <3>4. hooks'[s.key.hook].state # "new" /\ \E r \in rows' : r.key = s.key
      BY <1>1, <1>3, <1>5, <3>1 DEF W!Live
    <3> QED
      BY <1>1, <1>3, <3>1, <3>2, <3>3, <3>4 DEF HandHolds
  <2> QED
    BY <1>6, <2>1, <2>2
<1>12. \A k \in KeyType : KeyHolds(k)'
  BY <1>1 DEF OutboxInv, KeyHolds
<1>13. \A h \in Hook, m \in Msg : EventHolds(h, m)'
  <2> SUFFICES ASSUME NEW h \in Hook, NEW m \in Msg PROVE EventHolds(h, m)'
    OBVIOUS
  <2>1. EventHolds(h, m)
    BY DEF OutboxInv
  <2>2. Held(h, m) => Held(h, m)'
    BY <1>1 DEF Held, OutboxInv, OutboxTyped
  <2>3. Waits(h, m) => Waits(h, m)' \/ Held(h, m)' \/ <<h, m>> \in forgotten'
    <3> SUFFICES ASSUME NEW r \in rows, r.key.hook = h, r.key.msg = m, ~ r.claimed
                 PROVE  Waits(h, m)' \/ Held(h, m)' \/ <<h, m>> \in forgotten'
      BY DEF Waits
    <3>1. CASE r \notin R
      BY <1>1, <3>1 DEF Waits
    <3>2. CASE r \in R /\ sending' = [sending EXCEPT ![i] = W!Claimed(R)]
      <4>1. hand(r) \in sending'[i]
        BY <1>2, <3>2 DEF OutboxInv, OutboxTyped
      <4> QED
        BY <1>3, <3>2, <4>1 DEF Held
    <3>3. CASE r \in R /\ forgotten' = forgotten \cup {W!Of(k) : k \in W!Keys(R)}
      BY <3>3 DEF W!Keys, W!Of
    <3> QED
      BY <1>1, <3>1, <3>2, <3>3
  <2>4. W!Live(h)' = W!Live(h) /\ forgotten \subseteq forgotten'
    BY <1>1 DEF W!Live
  <2> QED
    BY <1>1, <2>1, <2>2, <2>3, <2>4 DEF EventHolds
<1> QED
  BY <1>9, <1>10, <1>11, <1>12, <1>13 DEF OutboxInv

(* One hand is put down, or goes on. *)
LEMMA HandMoves ==
    ASSUME OutboxInv, NEW i \in Instance, NEW a \in sending[i], NEW B, W!Replace(i, a, B)
    PROVE  /\ \A j \in Instance : \A c \in sending'[j] :
                  (j = i /\ c \in B) \/ (c \in sending[j] /\ ~ Alike(c.key, a.key))
           /\ \A j \in Instance : \A c \in sending[j] : ~ Alike(c.key, a.key) => c \in sending'[j]
           /\ B \subseteq sending'[i]
           /\ B \subseteq HandType => sending' \in [Instance -> SUBSET HandType]
<1>1. sending' = [sending EXCEPT ![i] = (sending[i] \ {a}) \cup B]
  BY DEF W!Replace
<1>2. /\ sending'[i] = (sending[i] \ {a}) \cup B
      /\ \A j \in Instance : j # i => sending'[j] = sending[j]
  BY <1>1 DEF OutboxInv, OutboxTyped
<1>3. \A j \in Instance : \A c \in sending[j] : Alike(c.key, a.key) => j = i /\ c = a
  BY DEF OutboxInv, HandHolds
<1>4. Alike(a.key, a.key)
  BY DEF Alike
<1>5. B \subseteq HandType => sending' \in [Instance -> SUBSET HandType]
  BY <1>1 DEF OutboxInv, OutboxTyped
<1> QED
  BY <1>2, <1>3, <1>4, <1>5

LEMMA PostKeeps ==
    ASSUME OutboxInv, NEW i \in Instance, NEW a \in sending[i], W!Post(i, a)
    PROVE  OutboxInv'
<1> DEFINE k == a.key
           p == <<k.hook, k.msg>>
           over(ok, blocked) == [a EXCEPT !.pc = "record", !.ok = ok, !.blocked = blocked]
<1>1. PICK ok \in BOOLEAN, blocked \in BOOLEAN :
          /\ a.pc = "post" /\ made' = made \cup {k}
          /\ W!Replace(i, a, {over(ok, blocked)})
          /\ posts' = [posts EXCEPT ![k] = @ + 1] \/ posts' = posts
          /\ answered' = IF ok THEN answered \cup {p} ELSE answered
          /\ refused' = IF blocked THEN refused \cup {p} ELSE refused
          /\ ~ (ok /\ blocked)
          /\ UNCHANGED <<hooks, rows, emitted, owed, forgotten>>
  <2>1. /\ a.pc = "post" /\ made' = made \cup {k}
        /\ UNCHANGED <<hooks, rows, emitted, owed, forgotten>>
    BY DEF W!Post
  <2>2. \/ /\ posts' = [posts EXCEPT ![k] = @ + 1] /\ refused' = refused
           /\ \E ok \in BOOLEAN : /\ answered' = IF ok THEN answered \cup {p} ELSE answered
                                  /\ W!Replace(i, a, {over(ok, FALSE)})
        \/ /\ refused' = refused \cup {p} /\ W!Replace(i, a, {over(FALSE, TRUE)})
           /\ UNCHANGED <<posts, answered>>
        \/ /\ W!Replace(i, a, {over(FALSE, FALSE)})
           /\ UNCHANGED <<posts, answered, refused>>
    BY DEF W!Post, W!Of
  <2> HIDE DEF over
  <2>3. CASE /\ posts' = [posts EXCEPT ![k] = @ + 1] /\ refused' = refused
             /\ \E ok \in BOOLEAN : /\ answered' = IF ok THEN answered \cup {p} ELSE answered
                                    /\ W!Replace(i, a, {over(ok, FALSE)})
    BY <2>1, <2>3
  <2>4. CASE /\ refused' = refused \cup {p} /\ W!Replace(i, a, {over(FALSE, TRUE)})
             /\ UNCHANGED <<posts, answered>>
    BY <2>1, <2>4
  <2>5. CASE /\ W!Replace(i, a, {over(FALSE, FALSE)})
             /\ UNCHANGED <<posts, answered, refused>>
    BY <2>1, <2>5
  <2> QED
    BY <2>2, <2>3, <2>4, <2>5
<1> DEFINE b == over(ok, blocked)
<1>2. /\ k \in KeyType /\ HandHolds(i, a) /\ Frontier(k, TRUE) /\ posts[k] = 0 /\ p \notin answered
  <2>1. k \in KeyType /\ HandHolds(i, a)
    BY HandKey DEF OutboxInv
  <2>2. Frontier(k, TRUE) /\ p \notin answered
    BY <1>1, <2>1 DEF HandHolds
  <2>3. Alike(k, k)
    BY DEF Alike
  <2> QED
    BY <2>1, <2>2, <2>3 DEF Frontier
<1>3. /\ b \in HandType /\ b.key = k /\ b.pc = "record" /\ b.ok = ok /\ b.blocked = blocked
  BY HandKey DEF OutboxInv, HandType
<1> HIDE DEF b
<1>4. W!Replace(i, a, {b})
  BY <1>1 DEF b
<1> HIDE DEF over
<1>5. /\ \A j \in Instance : \A c \in sending'[j] :
             (j = i /\ c = b) \/ (c \in sending[j] /\ ~ Alike(c.key, k))
      /\ \A j \in Instance : \A c \in sending[j] : ~ Alike(c.key, k) => c \in sending'[j]
      /\ b \in sending'[i]
      /\ sending' \in [Instance -> SUBSET HandType]
  BY <1>3, <1>4, HandMoves
<1>6. /\ \A t \in KeyType : t # k => (t \in made' <=> t \in made) /\ posts'[t] = posts[t]
      /\ posts'[k] \in {0, 1} /\ k \in made' /\ posts' \in [KeyType -> Nat]
  BY <1>1, <1>2 DEF OutboxInv, OutboxTyped
<1>7. /\ \A t \in KeyType : ~ Alike(t, k) => t # k /\ <<t.hook, t.msg>> # p
      /\ \A t \in KeyType : <<t.hook, t.msg>> # p => ~ Alike(t, k)
  BY DEF Alike
<1>8. OutboxTyped'
  BY <1>1, <1>2, <1>5, <1>6 DEF OutboxInv, OutboxTyped
<1>9. \A r \in rows' : RowHolds(r)'
  <2> SUFFICES ASSUME NEW r \in rows PROVE RowHolds(r)'
    BY <1>1
  <2>1. W!Live(r.key.hook)' /\ r.key \in KeyType
    BY <1>1, RowKey DEF OutboxInv, RowHolds, W!Live
  <2>2. ~ r.claimed => ~ Alike(r.key, k)
    BY AlikeIs DEF OutboxInv, RowHolds
  <2>3. ~ r.claimed => \A t \in KeyType : Alike(t, r.key) =>
            (t \in made' => t \in made) /\ posts'[t] = posts[t]
    BY <1>6, <2>2, AlikeIs
  <2>4. ~ r.claimed => <<r.key.hook, r.key.msg>> \notin answered' \ answered
    BY <1>1, <1>7, <2>1, <2>2
  <2>5. ~ r.claimed => \A j \in Instance : \A c \in sending'[j] :
            Alike(c.key, r.key) => \E d \in sending[j] : Alike(d.key, r.key)
    BY <1>3, <1>5, <2>2, AlikeIs
  <2> QED
    BY <1>1, <1>8, <2>1, <2>3, <2>4, <2>5, RowStays
<1>10. \A j \in Instance : \A c \in sending'[j] : HandHolds(j, c)'
  <2>1. ASSUME NEW j \in Instance, NEW c \in sending'[j], c \in sending[j], ~ Alike(c.key, k)
        PROVE  HandHolds(j, c)'
    <3>1. c.key \in KeyType
      BY <2>1, HandKey DEF OutboxInv
    <3>2. /\ hooks'[c.key.hook].state # "new" /\ (W!Live(c.key.hook)' => W!Live(c.key.hook))
      BY <1>1, <2>1 DEF OutboxInv, HandHolds, W!Live
    <3>3. \A t \in KeyType : Alike(t, c.key) => (t \in made' => t \in made) /\ posts'[t] = posts[t]
      BY <1>6, <2>1, AlikeIs
    <3>4. <<c.key.hook, c.key.msg>> \in answered' <=> <<c.key.hook, c.key.msg>> \in answered
      BY <1>1, <1>7, <2>1, <3>1
    <3>5. \A g \in Instance : \A d \in sending'[g] : Alike(d.key, c.key) => d \in sending[g]
      BY <1>3, <1>5, <2>1, AlikeIs
    <3>6. made \subseteq made' /\ refused \subseteq refused' /\ rows' = rows
      BY <1>1
    <3> QED
      BY <1>1, <1>8, <2>1, <3>2, <3>3, <3>4, <3>5, <3>6, HandStays
  <2>2. HandHolds(i, b)'
    <3>1. Frontier(k, FALSE)'
      <4>1. k.n \in Nat
        BY <1>2, KeyFacts
      <4> QED
        BY <1>1, <1>2, <1>6, <4>1 DEF Frontier
    <3>2. \A j \in Instance : \A c \in sending'[j] : Alike(c.key, k) => j = i /\ c = b
      BY <1>5
    <3>3. hooks'[k.hook].state # "new" /\ (W!Live(k.hook)' => \E r \in rows' : r.key = k)
      BY <1>1, <1>2 DEF HandHolds, W!Live
    <3>4. (ok => p \in answered') /\ (blocked => p \in refused') /\ (p \in answered' => ok)
      BY <1>1, <1>2
    <3> QED
      BY <1>3, <1>6, <3>1, <3>2, <3>3, <3>4 DEF HandHolds
  <2> QED
    BY <1>5, <2>1, <2>2
<1>11. \A t \in KeyType : KeyHolds(t)'
  <2> SUFFICES ASSUME NEW t \in KeyType PROVE KeyHolds(t)'
    OBVIOUS
  <2>1. CASE t = k
    BY <1>1, <1>2, <1>6, <2>1 DEF KeyHolds, Frontier
  <2>2. CASE t # k
    BY <1>1, <1>6, <2>2 DEF OutboxInv, KeyHolds
  <2> QED
    BY <2>1, <2>2
<1>12. \A h \in Hook, m \in Msg : EventHolds(h, m)'
  <2> SUFFICES ASSUME NEW h \in Hook, NEW m \in Msg PROVE EventHolds(h, m)'
    OBVIOUS
  <2>1. EventHolds(h, m)
    BY DEF OutboxInv
  <2>2. <<h, m>> \in answered' => m \in emitted
    <3>1. k.msg \in emitted
      BY <1>2 DEF Frontier
    <3> QED
      BY <1>1, <2>1, <3>1 DEF EventHolds
  <2>3. Held(h, m) => Held(h, m)'
    <3> SUFFICES ASSUME NEW j \in Instance, NEW c \in sending[j], c.key.hook = h, c.key.msg = m
                 PROVE  Held(h, m)'
      BY DEF Held
    <3>1. CASE Alike(c.key, k)
      BY <1>3, <1>5, <3>1 DEF Alike, Held
    <3>2. CASE ~ Alike(c.key, k)
      BY <1>5, <3>2 DEF Held
    <3> QED
      BY <3>1, <3>2
  <2>4. /\ W!Live(h)' = W!Live(h) /\ Waits(h, m)' = Waits(h, m) /\ made \subseteq made'
        /\ answered \subseteq answered' /\ refused \subseteq refused'
    BY <1>1 DEF W!Live, Waits
  <2> QED
    BY <1>1, <2>1, <2>2, <2>3, <2>4 DEF EventHolds
<1> QED
  BY <1>8, <1>9, <1>10, <1>11, <1>12 DEF OutboxInv

LEMMA RecordKeeps ==
    ASSUME OutboxInv, NEW i \in Instance, NEW a \in sending[i], W!Record(i, a)
    PROVE  OutboxInv'
<1> DEFINE b == [a EXCEPT !.pc = "retry"]
           B == IF W!Retries(a) THEN {b} ELSE {}
<1>1. /\ a.pc = "record" /\ W!Replace(i, a, B)
      /\ UNCHANGED <<hooks, rows, emitted, owed, posts, made, refused, answered, forgotten>>
  BY DEF W!Record, W!whHistory
<1>2. HandHolds(i, a) /\ a \in HandType /\ a.key \in KeyType
  BY HandKey DEF OutboxInv
<1>3. W!Retries(a) => ~ a.ok /\ ~ a.blocked /\ a.key.n <= Backoff
  BY DEF W!Retries
<1>4. b \in HandType /\ b.key = a.key /\ b.pc = "retry" /\ b.ok = a.ok /\ b.blocked = a.blocked
  BY <1>2 DEF HandType
<1> HIDE DEF b
<1>5. /\ \A j \in Instance : \A c \in sending'[j] :
             (j = i /\ c = b /\ W!Retries(a)) \/ (c \in sending[j] /\ ~ Alike(c.key, a.key))
      /\ \A j \in Instance : \A c \in sending[j] : ~ Alike(c.key, a.key) => c \in sending'[j]
      /\ W!Retries(a) => b \in sending'[i]
      /\ sending' \in [Instance -> SUBSET HandType]
  BY <1>1, <1>4, HandMoves
<1>6. OutboxTyped'
  BY <1>1, <1>5 DEF OutboxInv, OutboxTyped
<1>7. \A r \in rows' : RowHolds(r)'
  <2> SUFFICES ASSUME NEW r \in rows PROVE RowHolds(r)'
    BY <1>1
  <2>1. W!Live(r.key.hook)'
    BY <1>1 DEF OutboxInv, RowHolds, W!Live
  <2>2. \A j \in Instance : \A c \in sending'[j] :
            Alike(c.key, r.key) => \E d \in sending[j] : Alike(d.key, r.key)
    BY <1>4, <1>5
  <2> QED
    BY <1>1, <1>6, <2>1, <2>2, RowStays
<1>8. \A j \in Instance : \A c \in sending'[j] : HandHolds(j, c)'
  <2>1. ASSUME NEW j \in Instance, NEW c \in sending'[j], c \in sending[j], ~ Alike(c.key, a.key)
        PROVE  HandHolds(j, c)'
    <3>1. /\ hooks'[c.key.hook].state # "new" /\ (W!Live(c.key.hook)' => W!Live(c.key.hook))
      BY <1>1, <2>1 DEF OutboxInv, HandHolds, W!Live
    <3>2. \A g \in Instance : \A d \in sending'[g] : Alike(d.key, c.key) => d \in sending[g]
      BY <1>4, <1>5, <2>1, AlikeIs
    <3> QED
      BY <1>1, <1>6, <2>1, <3>1, <3>2, HandStays
  <2>2. ASSUME W!Retries(a), b \in sending'[i] PROVE HandHolds(i, b)'
    <3>1. Frontier(a.key, FALSE)'
      BY <1>1, <1>2 DEF HandHolds, Frontier
    <3>2. \A j \in Instance : \A c \in sending'[j] : Alike(c.key, a.key) => j = i /\ c = b
      BY <1>5
    <3>3. /\ hooks'[a.key.hook].state # "new" /\ (W!Live(a.key.hook)' => \E r \in rows' : r.key = a.key)
          /\ a.key \in made' /\ <<a.key.hook, a.key.msg>> \notin answered'
      BY <1>1, <1>2, <1>3, <2>2 DEF HandHolds, W!Live
    <3> QED
      BY <1>3, <1>4, <2>2, <3>1, <3>2, <3>3 DEF HandHolds
  <2> QED
    BY <1>5, <2>1, <2>2
<1>9. \A k \in KeyType : KeyHolds(k)'
  BY <1>1 DEF OutboxInv, KeyHolds
<1>10. \A h \in Hook, m \in Msg : EventHolds(h, m)'
  <2> SUFFICES ASSUME NEW h \in Hook, NEW m \in Msg PROVE EventHolds(h, m)'
    OBVIOUS
  <2>1. EventHolds(h, m)
    BY DEF OutboxInv
  <2>2. Held(h, m) =>
            \/ Held(h, m)' \/ <<h, m>> \in answered \/ <<h, m>> \in refused
            \/ [hook |-> h, msg |-> m, n |-> Backoff + 1] \in made
    <3> SUFFICES ASSUME NEW j \in Instance, NEW c \in sending[j], c.key.hook = h, c.key.msg = m
                 PROVE  \/ Held(h, m)' \/ <<h, m>> \in answered \/ <<h, m>> \in refused
                        \/ [hook |-> h, msg |-> m, n |-> Backoff + 1] \in made
      BY DEF Held
    <3>1. CASE ~ Alike(c.key, a.key)
      BY <1>5, <3>1 DEF Held
    <3>2. CASE Alike(c.key, a.key)
      <4>1. a.key.hook = h /\ a.key.msg = m
        BY <3>2 DEF Alike
      <4>2. CASE W!Retries(a)
        BY <1>4, <1>5, <4>1, <4>2 DEF Held
      <4>3. CASE a.ok \/ a.blocked
        BY <1>2, <4>1, <4>3 DEF HandHolds
      <4>4. CASE ~ (a.key.n <= Backoff)
        <5>1. a.key.n = Backoff + 1
          BY <1>2, <4>4, KeyFacts, HookSizes
        <5>2. a.key = [hook |-> h, msg |-> m, n |-> Backoff + 1]
          BY <1>2, <4>1, <5>1 DEF KeyType
        <5> QED
          BY <1>1, <1>2, <5>2 DEF HandHolds
      <4> QED
        BY <4>2, <4>3, <4>4 DEF W!Retries
    <3> QED
      BY <3>1, <3>2
  <2>3. W!Live(h)' = W!Live(h) /\ Waits(h, m)' = Waits(h, m)
    BY <1>1 DEF W!Live, Waits
  <2> QED
    BY <1>1, <2>1, <2>2, <2>3 DEF EventHolds
<1> QED
  BY <1>6, <1>7, <1>8, <1>9, <1>10 DEF OutboxInv

LEMMA RetryKeeps ==
    ASSUME OutboxInv, NEW i \in Instance, NEW a \in sending[i], W!Retry(i, a)
    PROVE  OutboxInv'
<1> DEFINE k == a.key
           next == [k EXCEPT !.n = @ + 1]
           row == [key |-> next, claimed |-> FALSE]
<1>1. /\ a.pc = "retry" /\ W!Replace(i, a, {})
      /\ \/ rows' = IF k \in W!Keys(rows) /\ next \notin W!Keys(rows) THEN rows \cup {row} ELSE rows
         \/ rows' = rows /\ forgotten' = forgotten \cup {<<k.hook, k.msg>>}
      /\ forgotten \subseteq forgotten'
      /\ UNCHANGED <<hooks, emitted, owed, posts, made, refused, answered>>
  BY DEF W!Retry, W!Next1, W!Of
<1>2. /\ HandHolds(i, a) /\ a \in HandType /\ k \in KeyType /\ k.n \in Nat /\ k.n <= Backoff
      /\ k \in made
  <2>1. HandHolds(i, a) /\ a \in HandType /\ k \in KeyType
    BY HandKey DEF OutboxInv
  <2> QED
    BY <1>1, <2>1, KeyFacts DEF HandHolds
<1>3. /\ next \in KeyType /\ next.hook = k.hook /\ next.msg = k.msg /\ next.n = k.n + 1
      /\ Before(next) = k
  <2>1. k.n + 1 \in 1..Backoff + 1
    BY <1>2, HookSizes
  <2>2. next \in KeyType /\ next.hook = k.hook /\ next.msg = k.msg /\ next.n = k.n + 1
    BY <1>2, <2>1 DEF KeyType
  <2> QED
    <3>1. Before(next) = [k EXCEPT !.n = (k.n + 1) - 1]
      BY <1>2, <2>2 DEF Before, KeyType
    <3>2. (k.n + 1) - 1 = k.n
      BY <1>2
    <3>3. [k EXCEPT !.n = k.n] = k
      BY <1>2 DEF KeyType
    <3> QED
      BY <2>2, <3>1, <3>2, <3>3
<1> HIDE DEF next
<1>4. row \in DeliveryType /\ row.key = next /\ row.claimed = FALSE
  BY <1>3 DEF DeliveryType
<1> HIDE DEF row
<1>5. /\ \A j \in Instance : \A c \in sending'[j] : c \in sending[j] /\ ~ Alike(c.key, k)
      /\ \A j \in Instance : \A c \in sending[j] : ~ Alike(c.key, k) => c \in sending'[j]
      /\ sending' \in [Instance -> SUBSET HandType]
  BY <1>1, HandMoves
<1>6. /\ \A r \in rows' : \/ r \in rows
                       \/ /\ r = row /\ row \notin rows
                          /\ next \notin W!Keys(rows) /\ k \in W!Keys(rows)
      /\ rows \subseteq rows'
  <2>1. row \in rows => next \in W!Keys(rows)
    BY <1>4 DEF W!Keys
  <2>2. CASE k \in W!Keys(rows) /\ next \notin W!Keys(rows) /\ rows' = rows \cup {row}
    BY <2>1, <2>2
  <2>3. CASE rows' = rows
    BY <2>3
  <2> QED
    BY <1>1, <2>2, <2>3
<1>7. /\ Alike(next, k) /\ Alike(k, next) /\ \A r \in rows : r.key \in W!Keys(rows)
      /\ \A q \in W!Keys(rows) : \E r \in rows : r.key = q
  BY <1>3 DEF Alike, W!Keys
<1>8. OutboxTyped'
  BY <1>1, <1>4, <1>5, <1>6 DEF OutboxInv, OutboxTyped
<1>9. \A r \in rows' : RowHolds(r)'
  <2>1. ASSUME NEW r \in rows PROVE RowHolds(r)'
    <3>1. W!Live(r.key.hook)' /\ r \in rows'
      BY <1>1, <1>6 DEF OutboxInv, RowHolds, W!Live
    <3>2. \A q \in rows' : q.key = r.key => q \in rows
      BY <1>4, <1>6, <1>7
    <3>3. ~ r.claimed => ~ Alike(r.key, k)
      BY AlikeIs DEF OutboxInv, RowHolds
    <3>4. ~ r.claimed => \A q \in rows' : Alike(q.key, r.key) => q \in rows
      BY <1>4, <1>6, <1>7, <3>3, AlikeIs
    <3> QED
      BY <1>1, <1>5, <1>8, <3>1, <3>2, <3>4, RowStays
  <2>2. ASSUME row \in rows', row \notin rows, next \notin W!Keys(rows), k \in W!Keys(rows)
        PROVE  RowHolds(row)'
    <3>1. PICK r \in rows : r.key = k
      BY <1>7, <2>2
    <3>2. W!Live(next.hook)' /\ next.msg \in emitted'
      BY <1>1, <1>3, <3>1 DEF OutboxInv, RowHolds, W!Live
    <3>3. \A q \in rows' : q.key = next => q = row
      BY <1>6, <1>7, <2>2
    <3>4. Frontier(k, FALSE)
      BY <1>1, <1>2 DEF HandHolds
    <3>5. \A q \in rows' : Alike(q.key, next) => q.key.n <= next.n
      <4> SUFFICES ASSUME NEW q \in rows', Alike(q.key, next) PROVE q.key.n <= next.n
        OBVIOUS
      <4>1. CASE q = row
        BY <1>2, <1>3, <1>4, <4>1
      <4>2. CASE q \in rows
        <5>1. q.key.n <= k.n /\ q.key.n \in Nat
          BY <1>7, <3>4, <4>2, AlikeIs, RowKey, KeyFacts DEF Frontier, OutboxInv
        <5> QED
          BY <1>2, <1>3, <5>1
      <4> QED
        BY <1>6, <4>1, <4>2
    <3>6. \A t \in KeyType : Alike(t, next) /\ (t \in made' \/ posts'[t] # 0) => t.n <= next.n /\ t # next
      <4> SUFFICES ASSUME NEW t \in KeyType, Alike(t, next), t \in made \/ posts[t] # 0
                   PROVE  t.n <= next.n /\ t # next
        BY <1>1
      <4>1. t.n <= k.n /\ t.n \in Nat
        BY <1>7, <3>4, AlikeIs, KeyFacts DEF Frontier
      <4> QED
        BY <1>2, <1>3, <4>1
    <3>7. Frontier(next, TRUE)'
      BY <1>1, <1>2, <1>3, <3>2, <3>5, <3>6 DEF Frontier
    <3>8. <<next.hook, next.msg>> \notin answered'
      BY <1>1, <1>2, <1>3 DEF HandHolds
    <3>9. \A j \in Instance : \A c \in sending'[j] : ~ Alike(c.key, next)
      BY <1>5, <1>7, AlikeIs
    <3> QED
      BY <1>4, <3>2, <3>3, <3>7, <3>8, <3>9 DEF RowHolds
  <2> QED
    BY <1>6, <2>1, <2>2
<1>10. \A j \in Instance : \A c \in sending'[j] : HandHolds(j, c)'
  <2> SUFFICES ASSUME NEW j \in Instance, NEW c \in sending'[j], c \in sending[j], ~ Alike(c.key, k)
               PROVE  HandHolds(j, c)'
    BY <1>5
  <2>1. /\ hooks'[c.key.hook].state # "new" /\ (W!Live(c.key.hook)' => W!Live(c.key.hook))
    BY <1>1 DEF OutboxInv, HandHolds, W!Live
  <2>2. \A q \in rows' : Alike(q.key, c.key) => q \in rows
    BY <1>4, <1>6, <1>7, AlikeIs
  <2> QED
    BY <1>1, <1>5, <1>6, <1>8, <2>1, <2>2, HandStays
<1>11. \A t \in KeyType : KeyHolds(t)'
  BY <1>1 DEF OutboxInv, KeyHolds
<1>12. \A h \in Hook, m \in Msg : EventHolds(h, m)'
  <2> SUFFICES ASSUME NEW h \in Hook, NEW m \in Msg PROVE EventHolds(h, m)'
    OBVIOUS
  <2>1. EventHolds(h, m)
    BY DEF OutboxInv
  <2>2. W!Live(h) /\ Held(h, m) => Held(h, m)' \/ Waits(h, m)' \/ <<h, m>> \in forgotten'
    <3> SUFFICES ASSUME W!Live(h), NEW j \in Instance, NEW c \in sending[j],
                        c.key.hook = h, c.key.msg = m
                 PROVE  Held(h, m)' \/ Waits(h, m)' \/ <<h, m>> \in forgotten'
      BY DEF Held
    <3>1. CASE ~ Alike(c.key, k)
      BY <1>5, <3>1 DEF Held
    <3>2. CASE Alike(c.key, k)
      <4>1. k.hook = h /\ k.msg = m
        BY <3>2 DEF Alike
      <4>2. k \in W!Keys(rows)
        BY <1>2, <1>7, <4>1 DEF HandHolds
      <4>3. next \notin W!Keys(rows)
        <5> SUFFICES ASSUME NEW r \in rows, r.key = next PROVE FALSE
          BY <1>7
        <5>1. r.key.n <= k.n
          BY <1>2, <1>7 DEF HandHolds, Frontier
        <5> QED
          BY <1>2, <1>3, <5>1
      <4>4. CASE rows' = rows \cup {row}
        BY <1>3, <1>4, <4>1, <4>4 DEF Waits
      <4>5. CASE forgotten' = forgotten \cup {<<k.hook, k.msg>>}
        BY <4>1, <4>5
      <4> QED
        BY <1>1, <4>2, <4>3, <4>4, <4>5
    <3> QED
      BY <3>1, <3>2
  <2>3. W!Live(h)' = W!Live(h) /\ (Waits(h, m) => Waits(h, m)')
    BY <1>1, <1>6 DEF W!Live, Waits
  <2> QED
    BY <1>1, <2>1, <2>2, <2>3 DEF EventHolds
<1> QED
  BY <1>8, <1>9, <1>10, <1>11, <1>12 DEF OutboxInv

LEMMA DieKeeps ==
    ASSUME OutboxInv, NEW i \in Instance, W!Die(i)
    PROVE  OutboxInv'
<1>1. /\ sending' = [sending EXCEPT ![i] = {}]
      /\ forgotten' = forgotten \cup {W!Of(a.key) : a \in sending[i]}
      /\ UNCHANGED <<hooks, rows, emitted, owed, posts, made, refused, answered>>
  BY DEF W!Die
<1>2. /\ \A j \in Instance : \A c \in sending'[j] : c \in sending[j]
      /\ \A j \in Instance : j # i => sending'[j] = sending[j]
      /\ sending' \in [Instance -> SUBSET HandType]
  BY <1>1 DEF OutboxInv, OutboxTyped
<1>3. OutboxTyped'
  BY <1>1, <1>2 DEF OutboxInv, OutboxTyped
<1>4. \A r \in rows' : RowHolds(r)'
  <2> SUFFICES ASSUME NEW r \in rows PROVE RowHolds(r)'
    BY <1>1
  <2>1. W!Live(r.key.hook)'
    BY <1>1 DEF OutboxInv, RowHolds, W!Live
  <2> QED
    BY <1>1, <1>2, <1>3, <2>1, RowStays
<1>5. \A j \in Instance : \A c \in sending'[j] : HandHolds(j, c)'
  <2> SUFFICES ASSUME NEW j \in Instance, NEW c \in sending'[j], c \in sending[j]
               PROVE  HandHolds(j, c)'
    BY <1>2
  <2>1. /\ hooks'[c.key.hook].state # "new" /\ (W!Live(c.key.hook)' => W!Live(c.key.hook))
    BY <1>1 DEF OutboxInv, HandHolds, W!Live
  <2> QED
    BY <1>1, <1>2, <1>3, <2>1, HandStays
<1>6. \A k \in KeyType : KeyHolds(k)'
  BY <1>1 DEF OutboxInv, KeyHolds
<1>7. \A h \in Hook, m \in Msg : EventHolds(h, m)'
  <2> SUFFICES ASSUME NEW h \in Hook, NEW m \in Msg PROVE EventHolds(h, m)'
    OBVIOUS
  <2>1. EventHolds(h, m)
    BY DEF OutboxInv
  <2>2. Held(h, m) => Held(h, m)' \/ <<h, m>> \in forgotten'
    BY <1>1, <1>2 DEF Held, W!Of
  <2>3. W!Live(h)' = W!Live(h) /\ Waits(h, m)' = Waits(h, m)
    BY <1>1 DEF W!Live, Waits
  <2> QED
    BY <1>1, <2>1, <2>2, <2>3 DEF EventHolds
<1> QED
  BY <1>3, <1>4, <1>5, <1>6, <1>7 DEF OutboxInv

LEMMA OutboxStep == OutboxInv /\ [Next]_vars => OutboxInv'
<1> SUFFICES ASSUME OutboxInv, [Next]_vars PROVE OutboxInv'
  OBVIOUS
<1>1. CASE UNCHANGED whVars
  BY <1>1, OutboxStays
<1>2. ASSUME NEW h \in Hook, NEW events \in SUBSET W!Events, W!Create(h, events) PROVE OutboxInv'
  BY <1>2, CreateHookKeeps
<1>3. ASSUME NEW h \in Hook, W!Delete(h) PROVE OutboxInv'
  BY <1>3, DeleteHookKeeps
<1>4. ASSUME NEW m \in Msg, W!Emit(m) PROVE OutboxInv'
  BY <1>4, EmitKeeps
<1>5. ASSUME NEW i \in Instance, W!Claim(i) \/ W!Die(i) PROVE OutboxInv'
  BY <1>5, ClaimKeeps, DieKeeps
<1>6. ASSUME NEW i \in Instance, NEW a \in sending[i], W!Post(i, a) \/ W!Record(i, a) \/ W!Retry(i, a)
      PROVE  OutboxInv'
  BY <1>6, PostKeeps, RecordKeeps, RetryKeeps
<1> QED
  BY PartSteps, <1>1, <1>2, <1>3, <1>4, <1>5, <1>6 DEF W!WebhooksNext

LEMMA OutboxShows == OutboxInv => EventsArrive
<1> SUFFICES ASSUME OutboxInv PROVE W!AttemptsFollow /\ W!NoEventForgotten
  BY DEF EventsArrive
<1>1. ASSUME NEW k \in W!Key
      PROVE  /\ posts[k] <= 1
             /\ posts[k] = 1 /\ k.n > 1 => [k EXCEPT !.n = @ - 1] \in made
             /\ W!Of(k) \in answered => \A r \in W!Due : W!Of(r.key) # W!Of(k)
  <2>1. k \in KeyType
    BY DEF W!Key, W!Attempt, KeyType
  <2>2. /\ posts[k] <= 1
        /\ posts[k] = 1 /\ k.n > 1 => [k EXCEPT !.n = @ - 1] \in made
    BY <2>1 DEF OutboxInv, KeyHolds, Before
  <2>3. W!Of(k) \in answered => \A r \in W!Due : W!Of(r.key) # W!Of(k)
    BY AlikeIs DEF OutboxInv, RowHolds, W!Due
  <2> QED
    BY <2>2, <2>3
<1>2. ASSUME NEW h \in Hook, NEW m \in Msg, W!Live(h),
             <<h, m>> \in owed \ (answered \cup refused \cup forgotten)
      PROVE  \/ \E r \in W!Due : W!Of(r.key) = <<h, m>>
             \/ W!InSomeHand(h, m)
             \/ W!Last(h, m) \in made
  <2>1. Waits(h, m) \/ Held(h, m) \/ [hook |-> h, msg |-> m, n |-> Backoff + 1] \in made
    BY <1>2 DEF OutboxInv, EventHolds
  <2> QED
    BY <2>1 DEF Waits, Held, W!Due, W!Of, W!InSomeHand, W!Last
<1> QED
  BY <1>1, <1>2 DEF W!AttemptsFollow, W!NoEventForgotten

(* No attempt at an event is sent twice, and no event a live endpoint subscribed to is  *)
(* dropped (webhooks/sink.go Emit, DeliverDue, send).                                *)
THEOREM EventsDelivered == Spec => []EventsArrive
<1>1. Init => OutboxInv
  BY OutboxStart DEF Init
<1>2. OutboxInv /\ [Next]_vars => OutboxInv'
  BY OutboxStep
<1> QED
  BY <1>1, <1>2, OutboxShows, PTL DEF Spec, vars
-----------------------------------------------------------------------------
(* The mails.                                                               *)

Mails == Member \X (1..MaxAsks)
LetterType == [attempts : Nat, state : {"none", "waits", "due", "sent"}]

(* A round goes through a mail once; a process between a dialogue and its record has one. *)
MailTyped ==
    /\ outbox \in [Mails -> LetterType]
    /\ round \in [Postman -> Seq(Mails)]
    /\ \A i \in Postman : \A x, y \in 1..Len(round[i]) : round[i][x] = round[i][y] => x = y
    /\ step \in [Postman -> {"send", "sent", "failed"}]
    /\ \A i \in Postman : step[i] # "send" => round[i] # <<>>
    /\ asks \in Nat
    /\ sent \in [Mails -> Nat]
    /\ tried \in [Mails -> Nat]
    /\ wanted \subseteq Mails /\ slow \subseteq Mails /\ wasted \subseteq Mails

(* The mails of a round, those of them a dialogue is still to be had about, and who has one. *)
Bag(i) == {round[i][x] : x \in 1..Len(round[i])}
Unsent(i) == IF step[i] = "send" THEN Bag(i) ELSE Bag(i) \ {Head(round[i])}
Hands(e) == {i \in Postman : e \in Unsent(i)}

(* A claim counts a try: it was had, or a process is about to have it, unless the process *)
(* died or could not read the row.  A mail nobody asked for yet is in no round.          *)
TriesStand(e) ==
    /\ IsFiniteSet(Hands(e))
    /\ outbox[e].attempts <= MaxAttempts
    /\ tried[e] + Cardinality(Hands(e)) <= outbox[e].attempts
    /\ e \notin wasted => tried[e] + Cardinality(Hands(e)) = outbox[e].attempts
    /\ sent[e] <= tried[e]
    /\ outbox[e].state = "sent" => sent[e] > 0
    /\ \A i \in Postman : e \in Bag(i) /\ e = Head(round[i]) /\ step[i] = "sent" => sent[e] > 0
    /\ e[2] > asks => outbox[e].state = "none"
    /\ outbox[e].state = "none" => outbox[e].attempts = 0 /\ \A i \in Postman : e \notin Bag(i)

(* While its lease holds, one process has a mail, and it left only if that process has a   *)
(* dialogue that went well to record, or recorded it.                                    *)
LeaseStands(e) ==
    /\ \A i \in Postman : e \in Bag(i) =>
          /\ outbox[e].state = "waits"
          /\ \A j \in Postman : e \in Bag(j) => i = j
          /\ sent[e] = IF e = Head(round[i]) /\ step[i] = "sent" THEN 1 ELSE 0
    /\ (\A i \in Postman : e \notin Bag(i)) => sent[e] = IF outbox[e].state = "sent" THEN 1 ELSE 0

MailInv == /\ MailTyped
           /\ \A e \in Mails : TriesStand(e) /\ (e \notin slow => LeaseStands(e))

LEMMA LetterSizes == /\ MaxAttempts \in Nat /\ MaxAsks \in Nat /\ IsFiniteSet(Mails)
                     /\ M!Mail = Mails
<1>1. \A S : M!IsFiniteSet(S) <=> IsFiniteSet(S)
  BY DEF M!IsFiniteSet, IsFiniteSet
<1>2. MaxAttempts \in Nat /\ MaxAsks \in Nat /\ IsFiniteSet(Member)
  BY <1>1, DeliveryAssumption DEF M!MailSizes
<1>3. IsFiniteSet(1..MaxAsks)
  BY <1>2, FS_Interval
<1>4. IsFiniteSet(Mails)
  BY <1>2, <1>3, FS_Product DEF Mails
<1> QED
  BY <1>2, <1>4 DEF M!Mail, Mails

LEMMA MailsCount == \A S : M!Cardinality(S) = Cardinality(S)
BY DEF M!Cardinality, Cardinality

(* What is in a round. *)
LEMMA BagsAre ==
    ASSUME MailTyped, NEW i \in Postman
    PROVE  /\ M!Range(round[i]) = Bag(i)
           /\ Bag(i) \subseteq Mails
           /\ Bag(i) = {} <=> round[i] = <<>>
           /\ Bag(i) # {} => Head(round[i]) \in Bag(i)
           /\ Unsent(i) \subseteq Bag(i)
<1>1. round[i] \in Seq(Mails)
  BY DEF MailTyped
<1>2. DOMAIN round[i] = 1..Len(round[i]) /\ Len(round[i]) \in Nat
  BY <1>1
<1>3. M!Range(round[i]) = Bag(i)
  BY <1>2 DEF M!Range, Bag
<1>4. Bag(i) \subseteq Mails
  BY <1>1 DEF Bag
<1>5. round[i] = <<>> => Bag(i) = {}
  BY <1>1 DEF Bag
<1>6. ASSUME round[i] # <<>> PROVE Head(round[i]) \in Bag(i)
  <2>1. Len(round[i]) > 0 /\ Head(round[i]) = round[i][1]
    BY <1>1, <1>6
  <2> QED
    BY <1>2, <2>1 DEF Bag
<1> QED
  BY <1>3, <1>4, <1>5, <1>6 DEF Unsent

LEMMA TailsAre ==
    ASSUME MailTyped, NEW i \in Postman, round[i] # <<>>
    PROVE  LET t == Tail(round[i])
           IN /\ t \in Seq(Mails)
              /\ \A x, y \in 1..Len(t) : t[x] = t[y] => x = y
              /\ {t[x] : x \in 1..Len(t)} = Bag(i) \ {Head(round[i])}
<1> DEFINE s == round[i]
           t == Tail(s)
<1>1. s \in Seq(Mails) /\ s # <<>> /\ \A x, y \in 1..Len(s) : s[x] = s[y] => x = y
  BY DEF MailTyped
<1>0. Bag(i) = {s[x] : x \in 1..Len(s)}
  BY DEF Bag
<1> HIDE DEF s
<1>2. /\ t \in Seq(Mails) /\ Len(t) = Len(s) - 1 /\ Len(s) \in Nat \ {0} /\ Head(s) = s[1]
      /\ \A x \in 1..Len(t) : t[x] = s[x + 1]
  BY <1>1
<1> HIDE DEF t
<1>3. ASSUME NEW x \in 1..Len(t), NEW y \in 1..Len(t), t[x] = t[y] PROVE x = y
  <2>1. x + 1 \in 1..Len(s) /\ y + 1 \in 1..Len(s) /\ s[x + 1] = s[y + 1]
    BY <1>2, <1>3
  <2>2. x + 1 = y + 1
    BY <1>1, <2>1
  <2> QED
    BY <1>2, <2>2
<1>4. ASSUME NEW x \in 1..Len(t) PROVE t[x] \in Bag(i) \ {s[1]}
  <2>1. x + 1 \in 1..Len(s) /\ 1 \in 1..Len(s) /\ x + 1 # 1 /\ t[x] = s[x + 1]
    BY <1>2
  <2> QED
    BY <1>0, <1>1, <2>1
<1>5. ASSUME NEW x \in 1..Len(s), s[x] # s[1] PROVE \E y \in 1..Len(t) : t[y] = s[x]
  <2>1. x # 1 /\ x - 1 \in 1..Len(t) /\ x - 1 + 1 = x
    BY <1>2, <1>5
  <2> QED
    BY <1>2, <2>1
<1>6. {t[x] : x \in 1..Len(t)} = Bag(i) \ {s[1]}
  BY <1>0, <1>4, <1>5
<1>7. /\ t \in Seq(Mails) /\ \A x, y \in 1..Len(t) : t[x] = t[y] => x = y
      /\ {t[x] : x \in 1..Len(t)} = Bag(i) \ {Head(s)}
  BY <1>2, <1>3, <1>6
<1> QED
  BY <1>7, Zenon DEF s, t

LEMMA OrdersAre ==
    ASSUME NEW E \in SUBSET Mails, NEW s \in M!SetToSeqs(E)
    PROVE  /\ s \in Seq(Mails)
           /\ \A x, y \in 1..Len(s) : s[x] = s[y] => x = y
           /\ {s[x] : x \in 1..Len(s)} = E
<1> DEFINE n == Cardinality(E)
<1>1. IsFiniteSet(E)
  BY LetterSizes, FS_Subset
<1>2. n \in Nat
  BY <1>1, FS_CardinalityType
<1>3. s \in [1..n -> E] /\ \A x, y \in 1..n : x # y => s[x] # s[y]
  BY MailsCount DEF M!SetToSeqs
<1>4. IsFiniteSet(1..n) /\ Cardinality(1..n) = n
  <2> HIDE DEF n
  <2>1. 1 \in Int /\ n \in Int
    BY <1>2
  <2>2. IsFiniteSet(1..n) /\ Cardinality(1..n) = IF 1 > n THEN 0 ELSE n - 1 + 1
    BY <2>1, FS_Interval
  <2> QED
    BY <1>2, <2>2
<1>5. s \in Injection(1..n, E)
  <2> HIDE DEF n
  <2> QED
    BY <1>3 DEF Injection, IsInjective
<1>6. s \in Surjection(1..n, E)
  BY <1>1, <1>4, <1>5, FS_Injection
<1> HIDE DEF n
<1>7. \A m \in E : \E x \in 1..n : s[x] = m
  BY <1>6 DEF Surjection
<1>8. s \in Seq(Mails) /\ Len(s) = n
  BY <1>2, <1>3
<1> QED
  BY <1>3, <1>7, <1>8

LEMMA MailStart == M!MailInit => MailInv
<1> SUFFICES ASSUME M!MailInit PROVE MailInv
  OBVIOUS
<1>1. MailTyped
  BY LetterSizes DEF M!MailInit, M!NoMail, MailTyped, LetterType
<1>2. \A i \in Postman : Bag(i) = {}
  BY <1>1, BagsAre DEF M!MailInit
<1>3. \A e \in Mails : Hands(e) = {}
  BY <1>2 DEF Hands, Unsent
<1>4. IsFiniteSet({}) /\ Cardinality({}) = 0
  BY FS_EmptySet
<1> SUFFICES ASSUME NEW e \in Mails PROVE TriesStand(e) /\ LeaseStands(e)
  BY <1>1 DEF MailInv
<1>5. /\ outbox[e] = M!NoMail /\ sent[e] = 0 /\ tried[e] = 0 /\ asks = 0
  BY LetterSizes DEF M!MailInit
<1>6. outbox[e].attempts = 0 /\ outbox[e].state = "none"
  BY <1>5 DEF M!NoMail
<1>7. TriesStand(e)
  BY <1>2, <1>3, <1>4, <1>5, <1>6, LetterSizes DEF TriesStand
<1> QED
  BY <1>2, <1>5, <1>6, <1>7 DEF LeaseStands

(* A step that leaves the rounds alone leaves the bags and the hands alone. *)
LEMMA SameRounds ==
    ASSUME round' = round, step' = step
    PROVE  /\ \A i \in Postman : Bag(i)' = Bag(i) /\ Head(round'[i]) = Head(round[i])
           /\ \A e \in Mails : Hands(e)' = Hands(e)
BY DEF Bag, Hands, Unsent

(* The other processes' bags. *)
LEMMA OtherRounds ==
    ASSUME NEW i \in Postman, \A j \in Postman : j # i => round'[j] = round[j] /\ step'[j] = step[j]
    PROVE  /\ \A j \in Postman : j # i => Bag(j)' = Bag(j) /\ Unsent(j)' = Unsent(j)
           /\ \A e \in Mails : Hands(e)' \ {i} = Hands(e) \ {i}
<1>1. \A j \in Postman : j # i => Bag(j)' = Bag(j)
  BY DEF Bag
<1>2. \A j \in Postman : j # i => Unsent(j)' = Unsent(j)
  BY <1>1 DEF Unsent
<1> QED
  BY <1>1, <1>2 DEF Hands

LEMMA HandMore ==
    ASSUME NEW H, NEW i, IsFiniteSet(H), i \notin H
    PROVE  IsFiniteSet(H \cup {i}) /\ Cardinality(H \cup {i}) = Cardinality(H) + 1
                                   /\ Cardinality(H) \in Nat
BY FS_AddElement, FS_CardinalityType

LEMMA HandLess ==
    ASSUME NEW H, NEW i \in H, IsFiniteSet(H)
    PROVE  IsFiniteSet(H \ {i}) /\ Cardinality(H \ {i}) = Cardinality(H) - 1
                                /\ Cardinality(H) \in Nat /\ Cardinality(H \ {i}) \in Nat
BY FS_RemoveElement, FS_CardinalityType

LEMMA QueueKeeps ==
    ASSUME MailInv, NEW to \in SUBSET Member, M!Queue(to)
    PROVE  MailInv'
<1> DEFINE mails == to \X {asks + 1}
<1>1. /\ asks < MaxAsks /\ asks' = asks + 1 /\ asks \in Nat
      /\ \/ /\ outbox' = [e \in Mails |-> IF e \in mails THEN [attempts |-> 0, state |-> "due"]
                                          ELSE outbox[e]]
            /\ wanted' = wanted \cup mails
         \/ outbox' = outbox /\ wanted' = wanted
      /\ UNCHANGED <<round, step, sent, tried, slow, wasted>>
  BY LetterSizes DEF M!Queue, MailInv, MailTyped
<1>2. mails \subseteq Mails
  BY <1>1, LetterSizes DEF Mails
<1>3. \A e \in mails : e[2] > asks
  BY <1>1
<1> HIDE DEF mails
<1>4. MailTyped'
  <2>1. [attempts |-> 0, state |-> "due"] \in LetterType
    BY DEF LetterType
  <2>2. outbox' \in [Mails -> LetterType]
    BY <1>1, <2>1 DEF MailInv, MailTyped
  <2> QED
    BY <1>1, <1>2, <2>2 DEF MailInv, MailTyped
<1>5. ASSUME NEW e \in Mails, outbox'[e] = outbox[e]
      PROVE  TriesStand(e)' /\ (e \notin slow' => LeaseStands(e)')
  <2>1. e[2] > asks' => e[2] > asks
    BY <1>1 DEF Mails
  <2>2. TriesStand(e)'
    BY <1>1, <1>5, <2>1, SameRounds DEF MailInv, TriesStand
  <2> QED
    BY <1>1, <1>5, <2>2, SameRounds DEF MailInv, LeaseStands
<1>6. ASSUME NEW e \in mails, outbox'[e] = [attempts |-> 0, state |-> "due"]
      PROVE  TriesStand(e)' /\ (e \notin slow' => LeaseStands(e)')
  <2>0. e \in Mails /\ ~ (e[2] > asks')
    BY <1>1, <1>2 DEF mails
  <2>1. outbox[e].attempts = 0 /\ outbox[e].state = "none" /\ \A i \in Postman : e \notin Bag(i)
    BY <1>3, <1>6, <2>0 DEF MailInv, TriesStand
  <2>2. outbox'[e].attempts = 0 /\ outbox'[e].state = "due"
    BY <1>6
  <2>3. sent[e] = 0
    <3>1. sent[e] \in Nat /\ tried[e] \in Nat /\ Cardinality(Hands(e)) \in Nat
      BY <2>0, FS_CardinalityType DEF MailInv, MailTyped, TriesStand
    <3> QED
      BY <2>0, <2>1, <3>1 DEF MailInv, TriesStand
  <2>4. TriesStand(e)'
    BY <1>1, <2>0, <2>1, <2>2, <2>3, SameRounds DEF MailInv, TriesStand
  <2> QED
    BY <1>1, <2>0, <2>1, <2>2, <2>3, <2>4, SameRounds DEF LeaseStands
<1> QED
  BY <1>1, <1>2, <1>4, <1>5, <1>6 DEF MailInv

LEMMA FallDueKeeps ==
    ASSUME MailInv, NEW f \in Mails, M!FallDue(f)
    PROVE  MailInv'
<1>1. /\ outbox[f].state = "waits" /\ outbox' = [outbox EXCEPT ![f].state = "due"]
      /\ slow' = IF \E i \in Postman : f \in Bag(i) THEN slow \cup {f} ELSE slow
      /\ UNCHANGED <<round, step, asks, sent, wanted, tried, wasted>>
  BY BagsAre DEF M!FallDue, MailInv
<1>2. outbox[f] \in LetterType
  BY DEF MailInv, MailTyped
<1>3. outbox'[f].attempts = outbox[f].attempts /\ outbox'[f].state = "due"
  BY <1>1, <1>2 DEF MailInv, MailTyped, LetterType
<1>4. MailTyped'
  <2>1. outbox' \in [Mails -> LetterType]
    BY <1>1, <1>2 DEF MailInv, MailTyped, LetterType
  <2> QED
    BY <1>1, <2>1 DEF MailInv, MailTyped
<1>5. \A e \in Mails : e # f => outbox'[e] = outbox[e]
  BY <1>1 DEF MailInv, MailTyped
<1>6. ASSUME NEW e \in Mails PROVE TriesStand(e)'
  BY <1>1, <1>3, <1>5, SameRounds DEF MailInv, TriesStand
<1>7. ASSUME NEW e \in Mails, e \notin slow' PROVE LeaseStands(e)'
  BY <1>1, <1>3, <1>5, <1>7, SameRounds DEF MailInv, LeaseStands
<1> QED
  BY <1>4, <1>6, <1>7 DEF MailInv

LEMMA ClaimMailKeeps ==
    ASSUME MailInv, NEW i \in Postman, M!ClaimMail(i)
    PROVE  MailInv'
<1>1. PICK E \in SUBSET M!Claimable \ {{}} :
        /\ outbox' = [e \in Mails |-> IF e \in E THEN M!Leased(outbox[e]) ELSE outbox[e]]
        /\ \/ /\ \E order \in M!SetToSeqs(E) : round' = [round EXCEPT ![i] = order]
              /\ UNCHANGED <<wasted, troubles>>
           \/ /\ wasted' = wasted \cup E
              /\ UNCHANGED round
  BY LetterSizes DEF M!ClaimMail
<1>2. /\ round[i] = <<>> /\ step[i] = "send" /\ Bag(i) = {}
      /\ UNCHANGED <<step, asks, sent, wanted, tried, slow>>
  BY BagsAre DEF M!ClaimMail, MailInv, MailTyped
<1>3. E \subseteq Mails /\ \A e \in E : outbox[e].state = "due" /\ outbox[e].attempts < MaxAttempts
  BY LetterSizes DEF M!Claimable
<1>4. \A e \in E : outbox'[e].attempts = outbox[e].attempts + 1 /\ outbox'[e].state = "waits"
  BY <1>1, <1>3 DEF M!Leased
<1>5. \A e \in Mails : e \notin E => outbox'[e] = outbox[e]
  BY <1>1
<1>6. outbox' \in [Mails -> LetterType]
  <2>1. \A e \in E : M!Leased(outbox[e]) \in LetterType
    BY <1>3 DEF M!Leased, MailInv, MailTyped, LetterType
  <2> QED
    BY <1>1, <2>1 DEF MailInv, MailTyped
<1>7. \A e \in E : e \notin slow => \A j \in Postman : e \notin Bag(j)
  BY <1>3 DEF MailInv, LeaseStands
<1>8. \A e \in Mails : /\ outbox[e].attempts \in Nat /\ tried[e] \in Nat
                       /\ IsFiniteSet(Hands(e)) /\ Cardinality(Hands(e)) \in Nat
  BY FS_CardinalityType DEF MailInv, MailTyped, LetterType, TriesStand
<1>9. CASE wasted' = wasted \cup E /\ UNCHANGED round
  <2>1. MailTyped'
    BY <1>2, <1>3, <1>6, <1>9 DEF MailInv, MailTyped
  <2>2. ASSUME NEW e \in Mails PROVE TriesStand(e)'
    <3>1. CASE e \in E
      BY <1>2, <1>3, <1>4, <1>8, <1>9, <3>1, SameRounds, LetterSizes DEF MailInv, TriesStand
    <3>2. CASE e \notin E
      BY <1>2, <1>5, <1>9, <3>2, SameRounds DEF MailInv, TriesStand
    <3> QED
      BY <3>1, <3>2
  <2>3. ASSUME NEW e \in Mails, e \notin slow' PROVE LeaseStands(e)'
    <3>1. CASE e \in E
      BY <1>2, <1>3, <1>4, <1>7, <1>9, <2>3, <3>1, SameRounds DEF MailInv, LeaseStands
    <3>2. CASE e \notin E
      BY <1>2, <1>5, <1>9, <2>3, <3>2, SameRounds DEF MailInv, LeaseStands
    <3> QED
      BY <3>1, <3>2
  <2> QED
    BY <2>1, <2>2, <2>3 DEF MailInv
<1>10. ASSUME NEW order \in M!SetToSeqs(E), round' = [round EXCEPT ![i] = order], wasted' = wasted
       PROVE  MailInv'
  <2>1. /\ order \in Seq(Mails) /\ {order[x] : x \in 1..Len(order)} = E
        /\ \A x, y \in 1..Len(order) : order[x] = order[y] => x = y
    BY <1>3, OrdersAre
  <2>2. round'[i] = order /\ \A j \in Postman : j # i => round'[j] = round[j]
    BY <1>10 DEF MailInv, MailTyped
  <2>3. Bag(i)' = E /\ Unsent(i)' = E
    BY <1>2, <2>1, <2>2 DEF Bag, Unsent
  <2>4. /\ \A j \in Postman : j # i => Bag(j)' = Bag(j) /\ Unsent(j)' = Unsent(j)
        /\ \A e \in Mails : Hands(e)' \ {i} = Hands(e) \ {i}
    BY <1>2, <2>2, OtherRounds
  <2>5. /\ \A e \in E : Hands(e)' = Hands(e) \cup {i}
        /\ \A e \in Mails : e \notin E => Hands(e)' = Hands(e)
        /\ \A e \in Mails : i \notin Hands(e)
    BY <1>2, <2>3, <2>4 DEF Hands, Unsent
  <2>6. MailTyped'
    <3>1. round' \in [Postman -> Seq(Mails)]
      BY <1>10, <2>1 DEF MailInv, MailTyped
    <3>2. \A j \in Postman : \A x, y \in 1..Len(round'[j]) : round'[j][x] = round'[j][y] => x = y
      BY <2>1, <2>2 DEF MailInv, MailTyped
    <3>3. \A j \in Postman : step'[j] # "send" => round'[j] # <<>>
      BY <1>2, <2>2 DEF MailInv, MailTyped
    <3> QED
      BY <1>2, <1>6, <1>10, <3>1, <3>2, <3>3 DEF MailInv, MailTyped
  <2>7. ASSUME NEW e \in Mails PROVE TriesStand(e)'
    <3>1. \A j \in Postman : e \in Bag(j)' /\ e = Head(round'[j]) /\ step'[j] = "sent" => sent'[e] > 0
      BY <1>2, <2>2, <2>4 DEF MailInv, TriesStand
    <3>2. CASE e \in E
      <4>1. /\ IsFiniteSet(Hands(e)') /\ Cardinality(Hands(e)') = Cardinality(Hands(e)) + 1
        BY <1>8, <2>5, <3>2, HandMore
      <4>2. ~ (e[2] > asks) /\ asks' = asks
        BY <1>2, <1>3, <3>2 DEF MailInv, TriesStand
      <4>3. outbox'[e].state = "waits" /\ outbox'[e].attempts = outbox[e].attempts + 1
        BY <1>4, <3>2
      <4>4. /\ outbox[e].attempts < MaxAttempts /\ sent[e] <= tried[e]
            /\ tried[e] + Cardinality(Hands(e)) <= outbox[e].attempts
            /\ e \notin wasted => tried[e] + Cardinality(Hands(e)) = outbox[e].attempts
        BY <1>3, <3>2 DEF MailInv, TriesStand
      <4>5. /\ outbox'[e].attempts <= MaxAttempts
            /\ tried[e] + Cardinality(Hands(e)') <= outbox'[e].attempts
            /\ e \notin wasted => tried[e] + Cardinality(Hands(e)') = outbox'[e].attempts
        BY <1>8, <4>1, <4>3, <4>4, LetterSizes
      <4> QED
        BY <1>2, <1>10, <3>1, <4>1, <4>2, <4>3, <4>4, <4>5 DEF TriesStand
    <3>3. CASE e \notin E
      BY <1>2, <1>5, <1>10, <2>3, <2>4, <2>5, <3>1, <3>3 DEF MailInv, TriesStand
    <3> QED
      BY <3>2, <3>3
  <2>8. ASSUME NEW e \in Mails, e \notin slow' PROVE LeaseStands(e)'
    <3>1. CASE e \in E
      <4>1. sent'[e] = 0
        BY <1>2, <1>3, <1>7, <2>8, <3>1 DEF MailInv, LeaseStands
      <4>2. \A j \in Postman : e \in Bag(j)' => j = i
        BY <1>2, <1>7, <2>4, <2>8, <3>1
      <4> QED
        BY <1>2, <1>4, <2>3, <3>1, <4>1, <4>2 DEF LeaseStands
    <3>2. CASE e \notin E
      <4>1. \A j \in Postman : e \in Bag(j)' <=> e \in Bag(j)
        BY <1>2, <2>3, <2>4, <3>2
      <4>2. \A j \in Postman : e \in Bag(j) => round'[j] = round[j]
        BY <1>2, <2>2
      <4> QED
        BY <1>2, <1>5, <2>8, <3>2, <4>1, <4>2 DEF MailInv, LeaseStands
    <3> QED
      BY <3>1, <3>2
  <2> QED
    BY <2>6, <2>7, <2>8 DEF MailInv
<1> QED
  BY <1>1, <1>9, <1>10

LEMMA SendKeeps ==
    ASSUME MailInv, NEW i \in Postman, M!Send(i)
    PROVE  MailInv'
<1>0. PICK f : f = Head(round[i])
  OBVIOUS
<1>1. /\ round[i] # <<>> /\ step[i] = "send" /\ UNCHANGED <<outbox, round, asks, wanted, wasted>>
      /\ \E d \in M!Dialogue :
            /\ sent' = [sent EXCEPT ![f] = IF d.taken THEN @ + 1 ELSE @]
            /\ tried' = [tried EXCEPT ![f] = @ + 1]
            /\ slow' = IF d.taken /\ d.error THEN slow \cup {f} ELSE slow
            /\ step' = [step EXCEPT ![i] = IF d.error THEN "failed" ELSE "sent"]
  BY <1>0 DEF M!Send
<1>2. f \in Bag(i) /\ f \in Mails
  BY <1>0, <1>1, BagsAre DEF MailInv
<1>3. /\ sent \in [Mails -> Nat] /\ tried \in [Mails -> Nat]
      /\ step \in [Postman -> {"send", "sent", "failed"}] /\ slow \subseteq Mails
  BY DEF MailInv, MailTyped
<1>4. /\ sent' \in [Mails -> Nat] /\ tried' \in [Mails -> Nat] /\ tried'[f] = tried[f] + 1
      /\ step' \in [Postman -> {"send", "sent", "failed"}] /\ slow' \subseteq Mails
      /\ \A e \in Mails : e # f => sent'[e] = sent[e] /\ tried'[e] = tried[e]
      /\ \A j \in Postman : j # i => step'[j] = step[j]
      /\ slow \subseteq slow'
  BY <1>1, <1>2, <1>3
<1>5. \/ step'[i] = "sent" /\ sent'[f] = sent[f] + 1
      \/ step'[i] = "failed" /\ sent'[f] = sent[f]
      \/ step'[i] = "failed" /\ sent'[f] = sent[f] + 1 /\ f \in slow'
  BY <1>1, <1>2, <1>3 DEF M!Dialogue
<1>6. MailTyped'
  <2>1. \A j \in Postman : step'[j] # "send" => round'[j] # <<>>
    BY <1>1, <1>4 DEF MailInv, MailTyped
  <2> QED
    BY <1>1, <1>4, <2>1 DEF MailInv, MailTyped
<1>7. \A j \in Postman : Bag(j)' = Bag(j)
  BY <1>1 DEF Bag
<1>8. /\ \A e \in Mails : e # f => Hands(e)' = Hands(e)
      /\ Hands(f)' = Hands(f) \ {i} /\ i \in Hands(f)
  <2>1. Unsent(i) = Bag(i) /\ Unsent(i)' = Bag(i) \ {f}
    BY <1>0, <1>1, <1>5, <1>7 DEF Unsent
  <2>2. \A j \in Postman : j # i => Unsent(j)' = Unsent(j)
    BY <1>1, <1>4, <1>7 DEF Unsent
  <2> QED
    BY <1>2, <2>1, <2>2 DEF Hands
<1>9. \A j \in Postman, e \in Mails :
          e \in Bag(j) /\ e = Head(round[j]) /\ step'[j] = "sent" /\ j # i => sent[e] > 0
  BY <1>4 DEF MailInv, TriesStand
<1>10. ASSUME NEW e \in Mails, e # f PROVE TriesStand(e)'
  <2>1. \A j \in Postman : e \in Bag(j)' /\ e = Head(round'[j]) /\ step'[j] = "sent" => sent'[e] > 0
    BY <1>0, <1>1, <1>4, <1>7, <1>9, <1>10
  <2> QED
    BY <1>1, <1>4, <1>7, <1>8, <1>10, <2>1 DEF MailInv, TriesStand
<1>11. TriesStand(f)'
  <2>1. /\ IsFiniteSet(Hands(f)') /\ Cardinality(Hands(f)') = Cardinality(Hands(f)) - 1
        /\ Cardinality(Hands(f)) \in Nat
    BY <1>2, <1>8, HandLess DEF MailInv, TriesStand
  <2>2. /\ tried[f] + Cardinality(Hands(f)) <= outbox[f].attempts
        /\ f \notin wasted => tried[f] + Cardinality(Hands(f)) = outbox[f].attempts
        /\ sent[f] <= tried[f]
        /\ outbox[f].state = "sent" => sent[f] > 0
        /\ outbox[f].attempts <= MaxAttempts
    BY <1>2 DEF MailInv, TriesStand
  <2>3. /\ tried[f] \in Nat /\ sent[f] \in Nat /\ outbox[f].attempts \in Nat
    BY <1>2, <1>3 DEF MailInv, MailTyped, LetterType
  <2>4. /\ tried'[f] + Cardinality(Hands(f)') = tried[f] + Cardinality(Hands(f))
        /\ sent'[f] <= tried'[f] /\ sent'[f] >= sent[f]
    <3>1. tried'[f] = tried[f] + 1 /\ sent'[f] \in {sent[f], sent[f] + 1}
      BY <1>4, <1>5
    <3>2. \A c, d, n \in Nat : n <= d => /\ (d + 1) + (c - 1) = d + c
                                         /\ n <= d + 1 /\ n + 1 <= d + 1 /\ n <= n + 1
      OBVIOUS
    <3> QED
      BY <2>1, <2>2, <2>3, <3>1, <3>2
  <2>5. \A j \in Postman : f \in Bag(j)' /\ f = Head(round'[j]) /\ step'[j] = "sent" => sent'[f] > 0
    <3>1. step'[i] = "sent" => sent'[f] > 0
      BY <1>5, <2>3
    <3>2. \A j \in Postman : j # i /\ f \in Bag(j)' /\ f = Head(round'[j]) /\ step'[j] = "sent"
                             => sent'[f] > 0
      BY <1>1, <1>2, <1>5, <1>7, <1>9, <2>3
    <3> QED
      BY <3>1, <3>2
  <2>6. outbox[f].state # "none" /\ ~ (f[2] > asks)
    BY <1>2 DEF MailInv, TriesStand
  <2>7. outbox[f].state = "sent" => sent'[f] > 0
    BY <1>5, <2>2, <2>3
  <2> QED
    BY <1>1, <2>1, <2>2, <2>4, <2>5, <2>6, <2>7 DEF TriesStand
<1>12. ASSUME NEW e \in Mails, e # f, e \notin slow' PROVE LeaseStands(e)'
  <2>1. \A j \in Postman : e \in Bag(j) =>
           (e = Head(round'[j]) /\ step'[j] = "sent" <=> e = Head(round[j]) /\ step[j] = "sent")
    BY <1>0, <1>1, <1>4, <1>12
  <2> QED
    BY <1>1, <1>4, <1>7, <1>12, <2>1 DEF MailInv, LeaseStands
<1>13. ASSUME f \notin slow' PROVE LeaseStands(f)'
  <2>1. /\ outbox[f].state = "waits" /\ \A j \in Postman : f \in Bag(j) => i = j
        /\ sent[f] = 0
    BY <1>1, <1>2, <1>4, <1>13 DEF MailInv, LeaseStands
  <2>2. sent'[f] = IF step'[i] = "sent" THEN 1 ELSE 0
    BY <1>5, <1>13, <2>1
  <2>3. f = Head(round'[i])
    BY <1>0, <1>1
  <2> QED
    BY <1>1, <1>2, <1>7, <2>1, <2>2, <2>3 DEF LeaseStands
<1> QED
  BY <1>6, <1>10, <1>11, <1>12, <1>13 DEF MailInv

LEMMA RecordMailKeeps ==
    ASSUME MailInv, NEW i \in Postman, M!RecordMail(i)
    PROVE  MailInv'
<1>0. PICK f, to : /\ f = Head(round[i])
                   /\ to = IF step[i] = "sent" \/ outbox[f].state = "sent" THEN "sent" ELSE "waits"
  OBVIOUS
<1>1. /\ step[i] # "send" /\ round[i] # <<>> /\ UNCHANGED <<asks, sent, wanted, tried, wasted>>
      /\ \/ outbox' = [outbox EXCEPT ![f].state = to] /\ UNCHANGED slow
         \/ slow' = slow \cup {f} /\ UNCHANGED outbox
      /\ round' = [round EXCEPT ![i] = Tail(@)] /\ step' = [step EXCEPT ![i] = "send"]
  BY <1>0 DEF M!RecordMail, M!After, M!Done, MailInv, MailTyped
<1>2. f \in Bag(i) /\ f \in Mails
  BY <1>0, <1>1, BagsAre DEF MailInv
<1>3. /\ Tail(round[i]) \in Seq(Mails)
      /\ \A x, y \in 1..Len(Tail(round[i])) : Tail(round[i])[x] = Tail(round[i])[y] => x = y
      /\ {Tail(round[i])[x] : x \in 1..Len(Tail(round[i]))} = Bag(i) \ {f}
  BY <1>0, <1>1, TailsAre DEF MailInv
<1>4. /\ round'[i] = Tail(round[i]) /\ step'[i] = "send"
      /\ \A j \in Postman : j # i => round'[j] = round[j] /\ step'[j] = step[j]
  BY <1>1 DEF MailInv, MailTyped
<1>5. /\ \A j \in Postman : j # i => Bag(j)' = Bag(j) /\ Unsent(j)' = Unsent(j)
      /\ \A e \in Mails : Hands(e)' \ {i} = Hands(e) \ {i}
  BY <1>4, OtherRounds
<1>6. Bag(i)' = Bag(i) \ {f}
  <2>1. Bag(i)' = {Tail(round[i])[x] : x \in 1..Len(Tail(round[i]))}
    BY <1>4, Zenon DEF Bag
  <2> QED
    BY <1>3, <2>1, Zenon
<1>7. Unsent(i)' = Unsent(i)
  BY <1>0, <1>1, <1>4, <1>6 DEF Unsent
<1>8. \A e \in Mails : Hands(e)' = Hands(e)
  BY <1>5, <1>7 DEF Hands
<1>9. outbox[f] \in LetterType /\ outbox[f].state # "none" /\ slow \subseteq slow'
  BY <1>1, <1>2 DEF MailInv, MailTyped, TriesStand
<1>10. /\ outbox' \in [Mails -> LetterType] /\ outbox'[f].attempts = outbox[f].attempts
       /\ \A e \in Mails : e # f => outbox'[e] = outbox[e]
       /\ f \in slow' \/ outbox'[f].state = to
       /\ outbox'[f].state \in {outbox[f].state, to}
  <2>1. [outbox[f] EXCEPT !.state = to] \in LetterType
    BY <1>0, <1>9 DEF LetterType
  <2>2. outbox \in [Mails -> LetterType]
    BY DEF MailInv, MailTyped
  <2>3. CASE outbox' = [outbox EXCEPT ![f].state = to]
    <3>1. outbox' = [outbox EXCEPT ![f] = [outbox[f] EXCEPT !.state = to]]
      BY <2>3
    <3>2. outbox' \in [Mails -> LetterType] /\ \A e \in Mails : e # f => outbox'[e] = outbox[e]
      BY <2>1, <2>2, <3>1
    <3>3. outbox'[f] = [outbox[f] EXCEPT !.state = to]
      BY <1>2, <2>2, <3>1
    <3>4. outbox'[f].attempts = outbox[f].attempts /\ outbox'[f].state = to
      BY <1>9, <3>3 DEF LetterType
    <3> QED
      BY <3>2, <3>4
  <2>4. CASE slow' = slow \cup {f} /\ UNCHANGED outbox
    BY <2>2, <2>4
  <2> QED
    BY <1>1, <2>3, <2>4
<1>11. to \in {"sent", "waits"}
  BY <1>0
<1>12. to = "sent" => sent[f] > 0
  BY <1>0, <1>1, <1>2 DEF MailInv, TriesStand
<1>13. step[i] = "sent" => to = "sent"
  BY <1>0
<1>14. outbox[f].state = "waits" => (to = "sent" <=> step[i] = "sent")
  BY <1>0
<1>16. MailTyped'
  <2>1. round' \in [Postman -> Seq(Mails)]
    BY <1>1, <1>3 DEF MailInv, MailTyped
  <2>2. \A j \in Postman : \A x, y \in 1..Len(round'[j]) : round'[j][x] = round'[j][y] => x = y
    BY <1>3, <1>4 DEF MailInv, MailTyped
  <2>3. \A j \in Postman : step'[j] # "send" => round'[j] # <<>>
    BY <1>4 DEF MailInv, MailTyped
  <2>4. step' \in [Postman -> {"send", "sent", "failed"}] /\ slow' \subseteq Mails
    BY <1>1, <1>2 DEF MailInv, MailTyped
  <2> QED
    BY <1>1, <1>10, <2>1, <2>2, <2>3, <2>4 DEF MailInv, MailTyped
<1>17. \A e \in Mails : \A j \in Postman :
          e \in Bag(j)' /\ e = Head(round'[j]) /\ step'[j] = "sent" => sent[e] > 0
  BY <1>4, <1>5 DEF MailInv, TriesStand
<1>18. ASSUME NEW e \in Mails, e # f PROVE TriesStand(e)'
  <2>1. TriesStand(e) /\ outbox'[e] = outbox[e] /\ Hands(e)' = Hands(e)
    BY <1>8, <1>10, <1>18 DEF MailInv
  <2>2. \A j \in Postman : e \in Bag(j)' => e \in Bag(j)
    BY <1>5, <1>6
  <2> QED
    BY <1>1, <1>17, <2>1, <2>2 DEF TriesStand
<1>19. TriesStand(f)'
  <2>1. outbox'[f].state = "sent" => sent[f] > 0
    BY <1>2, <1>10, <1>12 DEF MailInv, TriesStand
  <2>2. outbox'[f].state # "none" /\ ~ (f[2] > asks)
    BY <1>2, <1>9, <1>10, <1>11 DEF MailInv, TriesStand
  <2> QED
    BY <1>1, <1>2, <1>8, <1>10, <1>17, <2>1, <2>2 DEF MailInv, TriesStand
<1>20. ASSUME NEW e \in Mails, e # f, e \notin slow' PROVE LeaseStands(e)'
  <2>1. \A j \in Postman : e \in Bag(j)' <=> e \in Bag(j)
    BY <1>5, <1>6, <1>20
  <2>2. \A j \in Postman : e \in Bag(j) =>
           (e = Head(round'[j]) /\ step'[j] = "sent" <=> e = Head(round[j]) /\ step[j] = "sent")
    BY <1>4, <1>0, <1>20
  <2>3. LeaseStands(e) /\ sent'[e] = sent[e] /\ outbox'[e] = outbox[e]
    BY <1>1, <1>9, <1>10, <1>20 DEF MailInv
  <2> QED
    BY <2>1, <2>2, <2>3 DEF LeaseStands
<1>21. ASSUME f \notin slow' PROVE LeaseStands(f)'
  <2>1. /\ outbox[f].state = "waits" /\ \A j \in Postman : f \in Bag(j) => i = j
        /\ sent[f] = IF step[i] = "sent" THEN 1 ELSE 0
    BY <1>2, <1>9, <1>0, <1>21 DEF MailInv, LeaseStands
  <2>2. \A j \in Postman : f \notin Bag(j)'
    BY <1>5, <1>6, <2>1
  <2>3. outbox'[f].state = to
    BY <1>10, <1>21
  <2> QED
    BY <1>1, <1>11, <1>14, <2>1, <2>2, <2>3 DEF LeaseStands
<1> QED
  BY <1>16, <1>18, <1>19, <1>20, <1>21 DEF MailInv

LEMMA DieMailKeeps ==
    ASSUME MailInv, NEW i \in Postman, M!DieMail(i)
    PROVE  MailInv'
<1>1. /\ round' = [round EXCEPT ![i] = <<>>] /\ step' = [step EXCEPT ![i] = "send"]
      /\ slow' = slow \cup Bag(i) /\ wasted' = wasted \cup Bag(i)
      /\ UNCHANGED <<outbox, asks, sent, wanted, tried>>
  BY BagsAre DEF M!DieMail, MailInv
<1>2. /\ round'[i] = <<>> /\ step'[i] = "send"
      /\ \A j \in Postman : j # i => round'[j] = round[j] /\ step'[j] = step[j]
  BY <1>1 DEF MailInv, MailTyped
<1>3. /\ \A j \in Postman : j # i => Bag(j)' = Bag(j) /\ Unsent(j)' = Unsent(j)
      /\ \A e \in Mails : Hands(e)' \ {i} = Hands(e) \ {i}
  BY <1>2, OtherRounds
<1>4. MailTyped'
  <2>1. <<>> \in Seq(Mails) /\ \A x, y \in 1..Len(<<>>) : x = y
    OBVIOUS
  <2>2. round' \in [Postman -> Seq(Mails)]
    BY <1>1, <2>1 DEF MailInv, MailTyped
  <2>3. \A j \in Postman : \A x, y \in 1..Len(round'[j]) : round'[j][x] = round'[j][y] => x = y
    BY <1>2, <2>1 DEF MailInv, MailTyped
  <2>4. \A j \in Postman : step'[j] # "send" => round'[j] # <<>>
    BY <1>2 DEF MailInv, MailTyped
  <2>5. slow' \subseteq Mails /\ wasted' \subseteq Mails
    BY <1>1, BagsAre DEF MailInv, MailTyped
  <2> QED
    BY <1>1, <2>2, <2>3, <2>4, <2>5 DEF MailInv, MailTyped
<1>5. Bag(i)' = {} /\ Unsent(i)' = {}
  <2>1. 1..Len(round'[i]) = {}
    BY <1>2
  <2> QED
    BY <1>2, <2>1 DEF Bag, Unsent
<1>6. \A e \in Mails : Hands(e)' = Hands(e) \ {i} /\ (i \in Hands(e) => e \in Bag(i))
  BY <1>3, <1>5, BagsAre DEF Hands, MailInv
<1>7. ASSUME NEW e \in Mails PROVE TriesStand(e)'
  <2>1. \A j \in Postman : e \in Bag(j)' /\ e = Head(round'[j]) /\ step'[j] = "sent" => sent'[e] > 0
    BY <1>1, <1>2, <1>3 DEF MailInv, TriesStand
  <2>2. \A j \in Postman : e \in Bag(j)' => e \in Bag(j)
    BY <1>3, <1>5
  <2>3. CASE i \notin Hands(e)
    <3>1. Hands(e)' = Hands(e)
      BY <1>6, <2>3
    <3> QED
      BY <1>1, <2>1, <2>2, <3>1 DEF MailInv, TriesStand
  <2>4. CASE i \in Hands(e)
    <3>1. /\ IsFiniteSet(Hands(e)') /\ Cardinality(Hands(e)') = Cardinality(Hands(e)) - 1
          /\ Cardinality(Hands(e)) \in Nat
      BY <1>6, <2>4, HandLess DEF MailInv, TriesStand
    <3>2. e \in wasted'
      BY <1>1, <1>6, <2>4
    <3>3. tried[e] \in Nat /\ outbox[e].attempts \in Nat
      BY DEF MailInv, MailTyped, LetterType
    <3>4. tried[e] + Cardinality(Hands(e)') <= outbox[e].attempts
      BY <3>1, <3>3 DEF MailInv, TriesStand
    <3> QED
      BY <1>1, <2>1, <2>2, <3>1, <3>2, <3>4 DEF MailInv, TriesStand
  <2> QED
    BY <2>3, <2>4
<1>8. ASSUME NEW e \in Mails, e \notin slow' PROVE LeaseStands(e)'
  <2>1. e \notin slow /\ e \notin Bag(i)
    BY <1>1, <1>8
  <2>2. \A j \in Postman : e \in Bag(j)' <=> e \in Bag(j)
    BY <1>3, <1>5, <2>1
  <2>3. \A j \in Postman : e \in Bag(j) => round'[j] = round[j] /\ step'[j] = step[j]
    BY <1>2, <2>1
  <2> QED
    BY <1>1, <2>1, <2>2, <2>3 DEF MailInv, LeaseStands
<1> QED
  BY <1>4, <1>7, <1>8 DEF MailInv

LEMMA MailStep == MailInv /\ [Next]_vars => MailInv'
<1> SUFFICES ASSUME MailInv, [Next]_vars PROVE MailInv'
  OBVIOUS
<1>1. CASE UNCHANGED <<outbox, round, step, asks, sent, wanted, tried, slow, wasted>>
  <2>1. MailTyped'
    BY <1>1 DEF MailInv, MailTyped
  <2>2. \A e \in Mails : TriesStand(e)'
    BY <1>1, SameRounds DEF MailInv, TriesStand
  <2>3. \A e \in Mails : e \notin slow' => LeaseStands(e)'
    BY <1>1, SameRounds DEF MailInv, LeaseStands
  <2> QED
    BY <2>1, <2>2, <2>3 DEF MailInv
<1>2. ASSUME NEW m \in Member, NEW k, NEW on, M!SetPreference(m, k, on) PROVE MailInv'
  BY <1>1, <1>2 DEF M!SetPreference, M!mailHistory
<1>3. ASSUME NEW reviewers \in SUBSET Member, NEW m \in Member, M!Emit(reviewers, m) PROVE MailInv'
  BY <1>3, QueueKeeps DEF M!Emit
<1>4. ASSUME NEW concerned \in SUBSET Member, M!QueueStaleDigest(concerned) PROVE MailInv'
  BY <1>4, QueueKeeps DEF M!QueueStaleDigest
<1>5. ASSUME NEW e \in M!Mail, M!FallDue(e) PROVE MailInv'
  BY <1>5, FallDueKeeps, LetterSizes
<1>6. CASE UNCHANGED mailVars
  BY <1>1, <1>6 DEF mailVars
<1> QED
  BY <1>2, <1>3, <1>4, <1>5, <1>6, ClaimMailKeeps, SendKeeps, RecordMailKeeps, DieMailKeeps,
     PartSteps DEF M!MailNext

LEMMA MailShows == MailInv => MailLeavesOnce
<1> SUFFICES ASSUME MailInv, NEW e \in Mails
             PROVE  /\ (e \notin slow => sent[e] <= 1) /\ sent[e] <= MaxAttempts
                    /\ e \in wanted \ wasted =>
                         \/ sent[e] > 0
                         \/ tried[e] >= MaxAttempts
                         \/ \E i \in Postman : e \in M!Range(round[i])
                         \/ outbox[e].state # "sent" /\ outbox[e].attempts < MaxAttempts
  BY LetterSizes DEF MailLeavesOnce, M!SentOnce, M!NoMailForgotten, MailInv, MailTyped
<1>1. /\ sent[e] \in Nat /\ tried[e] \in Nat /\ outbox[e].attempts \in Nat /\ MaxAttempts \in Nat
      /\ Cardinality(Hands(e)) \in Nat
  BY LetterSizes, FS_CardinalityType DEF MailInv, MailTyped, LetterType, TriesStand
<1>2. e \notin slow => sent[e] <= 1
  BY DEF MailInv, LeaseStands
<1>3. sent[e] <= MaxAttempts
  BY <1>1 DEF MailInv, TriesStand
<1>4. ASSUME e \notin wasted, \A i \in Postman : e \notin M!Range(round[i]), ~ (sent[e] > 0)
      PROVE  outbox[e].state # "sent" /\ outbox[e].attempts = tried[e]
  <2>1. Hands(e) = {}
    BY <1>4, BagsAre DEF MailInv, Hands
  <2>2. Cardinality(Hands(e)) = 0
    BY <2>1, FS_EmptySet
  <2> QED
    BY <1>1, <1>4, <2>2 DEF MailInv, TriesStand
<1> QED
  BY <1>1, <1>2, <1>3, <1>4

(* A mail is tried by one process at a time while its lease holds, and the tries it is   *)
(* charged are those that were had and those in hand (sink.go SendDue).                 *)
THEOREM MailLeft == Spec => []MailLeavesOnce
<1>1. Init => MailInv
  BY MailStart DEF Init
<1>2. MailInv /\ [Next]_vars => MailInv'
  BY MailStep
<1> QED
  BY <1>1, <1>2, MailShows, PTL DEF Spec, vars

-----------------------------------------------------------------------------
(* The messages. What a tab will show is a recursive reading of its channel, *)
(* so what one more message, or one fewer, makes of it is an induction over  *)
(* the channel (Climb).                                                      *)

\* w is what the tab shows after each message of q, from v.
Reads(w, v, q) ==
    w = [n \in 0..Len(q) |-> IF n = 0 THEN v ELSE L!handleMessage(w[n - 1], q[n])]

\* As far as k.
ReadsTo(w, v, q, k) ==
    w = [n \in 0..k |-> IF n = 0 THEN v ELSE L!handleMessage(w[n - 1], q[n])]

LEMMA SomeReading == ASSUME NEW v, NEW q, Len(q) \in Nat PROVE \E w : Reads(w, v, q)
<1> DEFINE S == {k \in 0..Len(q) : \E w : ReadsTo(w, v, q, k)}
<1>1. 0 \in S
  <2>1. PICK w : w = [n \in 0..0 |-> v]
    OBVIOUS
  <2>2. ReadsTo(w, v, q, 0)
    BY <2>1 DEF ReadsTo
  <2> QED
    BY <2>2
<1>2. ASSUME NEW k \in 0..Len(q), k \in S, k < Len(q) PROVE k + 1 \in S
  <2>1. PICK w : ReadsTo(w, v, q, k)
    BY <1>2
  <2>2. PICK x : x = [n \in 0..(k + 1) |-> IF n = k + 1 THEN L!handleMessage(w[k], q[k + 1]) ELSE w[n]]
    OBVIOUS
  <2>3. ASSUME NEW n \in 0..(k + 1)
        PROVE  x[n] = IF n = 0 THEN v ELSE L!handleMessage(x[n - 1], q[n])
    BY <2>1, <2>2 DEF ReadsTo
  <2>4. ReadsTo(x, v, q, k + 1)
    BY <2>2, <2>3 DEF ReadsTo
  <2>5. k + 1 \in 0..Len(q)
    BY <1>2
  <2> QED
    BY <2>4, <2>5
<1> HIDE DEF S
<1>3. 0..Len(q) \subseteq S
  BY <1>1, <1>2, Climb
<1>4. Len(q) \in S
  BY <1>3
<1> QED
  BY <1>4 DEF S, ReadsTo, Reads

LEMMA ReadingIs ==
    ASSUME NEW v, NEW q, Len(q) \in Nat
    PROVE  \E w : Reads(w, v, q) /\ L!Reading(v, q) = w[Len(q)]
<1>1. \E w : Reads(w, v, q)
  BY SomeReading
<1>2. L!Reading(v, q) = (CHOOSE w : Reads(w, v, q))[Len(q)]
  BY DEF L!Reading, Reads
<1> QED
  BY <1>1, <1>2

ReadsFrom(w, v, q) == /\ w[0] = v
                      /\ \A n \in 1..Len(q) : w[n] = L!handleMessage(w[n - 1], q[n])

LEMMA ReadsStep == ASSUME NEW w, NEW v, NEW q, Len(q) \in Nat, Reads(w, v, q)
                   PROVE  ReadsFrom(w, v, q)
<1>1. \A n \in 0..Len(q) : w[n] = IF n = 0 THEN v ELSE L!handleMessage(w[n - 1], q[n])
  BY DEF Reads
<1> QED
  BY <1>1 DEF ReadsFrom

(* What is read is where such a sequence of views ends, whichever it is. *)
LEMMA ReadingEnds ==
    ASSUME NEW v, NEW q, Len(q) \in Nat, NEW w, ReadsFrom(w, v, q)
    PROVE  L!Reading(v, q) = w[Len(q)]
<1>1. PICK x : Reads(x, v, q) /\ L!Reading(v, q) = x[Len(q)]
  BY ReadingIs
<1>2. ReadsFrom(x, v, q)
  BY <1>1, ReadsStep
<1> DEFINE S == {n \in 0..Len(q) : w[n] = x[n]}
<1>3. 0 \in S
  BY <1>2 DEF ReadsFrom
<1>4. ASSUME NEW n \in 0..Len(q), n \in S, n < Len(q) PROVE n + 1 \in S
  <2>1. n + 1 \in 1..Len(q) /\ n + 1 \in 0..Len(q) /\ n + 1 - 1 = n /\ w[n] = x[n]
    BY <1>4
  <2>2. w[n + 1] = L!handleMessage(w[n], q[n + 1]) /\ x[n + 1] = L!handleMessage(x[n], q[n + 1])
    BY <1>2, <2>1 DEF ReadsFrom
  <2> QED
    BY <2>1, <2>2
<1>5. 0..Len(q) \subseteq S
  <2> HIDE DEF S
  <2> QED
    BY <1>3, <1>4, Climb
<1>6. w[Len(q)] = x[Len(q)]
  BY <1>5
<1> QED
  BY <1>1, <1>6

LEMMA SomeViews == ASSUME NEW v, NEW q, Len(q) \in Nat PROVE \E w : ReadsFrom(w, v, q)
BY SomeReading, ReadsStep

LEMMA ReadNothing == ASSUME NEW v PROVE L!Reading(v, <<>>) = v
<1>1. Len(<<>>) = 0 /\ Len(<<>>) \in Nat
  OBVIOUS
<1>2. PICK w : ReadsFrom(w, v, <<>>)
  BY <1>1, SomeViews
<1> QED
  BY <1>1, <1>2, ReadingEnds DEF ReadsFrom

LEMMA ReadOneMore ==
    ASSUME NEW Of, NEW v, NEW q \in Seq(Of), NEW m \in Of
    PROVE  L!Reading(v, Append(q, m)) = L!handleMessage(L!Reading(v, q), m)
<1>0. PICK p : p = Append(q, m)
  OBVIOUS
<1>1. /\ Len(q) \in Nat /\ Len(p) = Len(q) + 1 /\ Len(p) \in Nat /\ p[Len(p)] = m
      /\ \A n \in 1..Len(q) : n \in 1..Len(p) /\ p[n] = q[n]
  BY <1>0
<1>2. PICK w : ReadsFrom(w, v, p)
  BY <1>1, SomeViews
<1>3. ReadsFrom(w, v, q)
  BY <1>1, <1>2 DEF ReadsFrom
<1>4. L!Reading(v, q) = w[Len(q)]
  BY <1>1, <1>3, ReadingEnds
<1>5. L!Reading(v, p) = w[Len(p)]
  BY <1>1, <1>2, ReadingEnds
<1>6. Len(p) \in 1..Len(p) /\ Len(p) - 1 = Len(q)
  BY <1>1
<1>7. w[Len(p)] = L!handleMessage(w[Len(q)], m)
  BY <1>1, <1>2, <1>6 DEF ReadsFrom
<1> QED
  BY <1>0, <1>4, <1>5, <1>7

LEMMA ReadFirst ==
    ASSUME NEW Of, NEW v, NEW q \in Seq(Of), q # <<>>
    PROVE  L!Reading(L!handleMessage(v, Head(q)), Tail(q)) = L!Reading(v, q)
<1>1. /\ Len(q) \in Nat \ {0} /\ Len(Tail(q)) = Len(q) - 1 /\ Head(q) = q[1]
      /\ \A n \in 1..(Len(q) - 1) : Tail(q)[n] = q[n + 1]
  OBVIOUS
<1>2. PICK w : ReadsFrom(w, v, q)
  BY <1>1, SomeViews
<1>3. PICK x : x = [n \in 0..(Len(q) - 1) |-> w[n + 1]]
  OBVIOUS
<1>4. x[0] = L!handleMessage(v, Head(q))
  BY <1>1, <1>2, <1>3 DEF ReadsFrom
<1>5. ASSUME NEW n \in 1..(Len(q) - 1) PROVE x[n] = L!handleMessage(x[n - 1], Tail(q)[n])
  <2>1. n + 1 \in 1..Len(q) /\ n \in 0..(Len(q) - 1) /\ n - 1 \in 0..(Len(q) - 1)
        /\ n - 1 + 1 = n /\ n + 1 - 1 = n
    BY <1>1
  <2>2. w[n + 1] = L!handleMessage(w[n], q[n + 1])
    BY <1>2, <2>1 DEF ReadsFrom
  <2>3. x[n] = w[n + 1] /\ x[n - 1] = w[n]
    BY <1>3, <2>1
  <2> QED
    BY <1>1, <2>2, <2>3
<1>6. ReadsFrom(x, L!handleMessage(v, Head(q)), Tail(q))
  BY <1>1, <1>4, <1>5 DEF ReadsFrom
<1>7. L!Reading(L!handleMessage(v, Head(q)), Tail(q)) = x[Len(Tail(q))]
  <2>1. Len(Tail(q)) \in Nat
    BY <1>1
  <2> QED
    BY <1>6, <2>1, ReadingEnds
<1>8. L!Reading(v, q) = w[Len(q)]
  BY <1>1, <1>2, ReadingEnds
<1> QED
  BY <1>1, <1>3, <1>7, <1>8

LEMMA ReadOnly == ASSUME NEW v, NEW m PROVE L!Reading(v, <<m>>) = L!handleMessage(v, m)
<1>1. PICK q : q = <<m>>
  OBVIOUS
<1>2. Len(q) = 1 /\ Len(q) \in Nat /\ q[1] = m /\ 1 \in 1..Len(q)
  BY <1>1
<1>3. PICK w : ReadsFrom(w, v, q)
  BY <1>2, SomeViews
<1>4. L!Reading(v, q) = w[1]
  BY <1>2, <1>3, ReadingEnds
<1>5. w[1] = L!handleMessage(w[1 - 1], q[1]) /\ w[0] = v
  BY <1>2, <1>3 DEF ReadsFrom
<1> QED
  BY <1>1, <1>2, <1>4, <1>5

View == [there : SUBSET Tab, cursor : [Tab -> Nat]]

\* What is sent down a channel.
Numbered == [type : {"change", "ack"}, n : Nat]
Moved == [type : {"cursor"}, tab : Tab, cursor : Nat]
Named == [type : {"joined", "left"}, tab : Tab]
Whole == [type : {"init"}, there : SUBSET Tab, cursor : [Tab -> Nat]]
Told == Numbered \cup Moved \cup Named \cup Whole

LEMMA HandleNumbered ==
    ASSUME NEW v, NEW m \in Numbered
    PROVE  L!handleMessage(v, m) = v
BY DEF L!handleMessage, Numbered

LEMMA HandleMoved ==
    ASSUME NEW v \in View, NEW m \in Moved
    PROVE  /\ L!handleMessage(v, m) \in View
           /\ L!handleMessage(v, m).there = v.there
           /\ \A t \in Tab : L!handleMessage(v, m).cursor[t] =
                 IF t = m.tab /\ t \in v.there THEN m.cursor ELSE v.cursor[t]
BY DEF L!handleMessage, Moved, View

LEMMA HandleJoined ==
    ASSUME NEW v \in View, NEW m \in Named, m.type = "joined"
    PROVE  /\ L!handleMessage(v, m) \in View
           /\ L!handleMessage(v, m).there = v.there \cup {m.tab}
           /\ \A t \in Tab : L!handleMessage(v, m).cursor[t] =
                 IF t = m.tab /\ t \notin v.there THEN 0 ELSE v.cursor[t]
BY DEF L!handleMessage, Named, View

LEMMA HandleLeft ==
    ASSUME NEW v \in View, NEW m \in Named, m.type = "left"
    PROVE  /\ L!handleMessage(v, m) \in View
           /\ L!handleMessage(v, m).there = v.there \ {m.tab}
           /\ \A t \in Tab : L!handleMessage(v, m).cursor[t] = IF t = m.tab THEN 0 ELSE v.cursor[t]
BY DEF L!handleMessage, Named, View

LEMMA HandleWhole ==
    ASSUME NEW v, NEW m \in Whole
    PROVE  /\ L!handleMessage(v, m) \in View
           /\ L!handleMessage(v, m).there = m.there
           /\ L!handleMessage(v, m).cursor = m.cursor
BY DEF L!handleMessage, Whole, View

LEMMA HandleTyped ==
    ASSUME NEW v \in View, NEW m \in Told
    PROVE  L!handleMessage(v, m) \in View
<1>1. CASE m \in Numbered
  BY <1>1, HandleNumbered
<1>2. CASE m \in Moved
  BY <1>2, HandleMoved
<1>3. CASE m \in Named
  <2>1. m.type \in {"joined", "left"}
    BY <1>3 DEF Named
  <2> QED
    BY <1>3, <2>1, HandleJoined, HandleLeft
<1>4. CASE m \in Whole
  BY <1>4, HandleWhole
<1> QED
  BY <1>1, <1>2, <1>3, <1>4 DEF Told

LEMMA ReadTyped ==
    ASSUME NEW v \in View, NEW q \in Seq(Told)
    PROVE  L!Reading(v, q) \in View
<1>1. Len(q) \in Nat /\ \A n \in 1..Len(q) : q[n] \in Told
  OBVIOUS
<1>2. PICK w : ReadsFrom(w, v, q)
  BY <1>1, SomeViews
<1> DEFINE S == {n \in 0..Len(q) : w[n] \in View}
<1>3. 0 \in S
  BY <1>1, <1>2 DEF ReadsFrom
<1>4. ASSUME NEW n \in 0..Len(q), n \in S, n < Len(q) PROVE n + 1 \in S
  <2>1. n + 1 \in 1..Len(q) /\ n + 1 \in 0..Len(q) /\ n + 1 - 1 = n /\ w[n] \in View
    BY <1>1, <1>4
  <2>2. w[n + 1] = L!handleMessage(w[n], q[n + 1]) /\ q[n + 1] \in Told
    BY <1>1, <1>2, <2>1 DEF ReadsFrom
  <2>3. w[n + 1] \in View
    BY <2>1, <2>2, HandleTyped
  <2> QED
    BY <2>1, <2>3
<1>5. 0..Len(q) \subseteq S
  <2> HIDE DEF S
  <2> QED
    BY <1>1, <1>3, <1>4, Climb
<1>6. w[Len(q)] \in View
  BY <1>1, <1>5
<1>7. L!Reading(v, q) = w[Len(q)]
  BY <1>1, <1>2, ReadingEnds
<1> QED
  BY <1>6, <1>7

-----------------------------------------------------------------------------
(* What a connection has heard.                                             *)

ClientType == [sock : Sock \cup {NoSock}, cursor : Nat]
SockType == [pc : {"down", "open", "applied", "acked", "gone"}, n : Nat]
OutType == [msgs : Seq(Told), closed : BOOLEAN]

MsTyped ==
    /\ clients \in [Tab -> ClientType]
    /\ sock \in [Sock -> SockType]
    /\ out \in [Sock -> OutType]
    /\ shown \in [Sock -> View]
    /\ shared \in Seq(Tab)
    /\ joined \in [Sock -> Nat]
    /\ got \in [Sock -> SUBSET Nat]
    /\ missed \subseteq Sock
    /\ redialled \subseteq Tab
    /\ frames \in Nat

IsChange(m, n) == m.type = "change" /\ m.n = n

OnItsWay(q, n) == \E i \in DOMAIN out[q].msgs : IsChange(out[q].msgs[i], n)

Unheard(q, n) == n \notin got[q] /\ ~ OnItsWay(q, n)

HeardOnce(q, n) ==
    \/ n \in got[q] /\ ~ OnItsWay(q, n)
    \/ /\ n \notin got[q]
       /\ \E i \in DOMAIN out[q].msgs : \A j \in DOMAIN out[q].msgs :
              IsChange(out[q].msgs[j], n) <=> j = i

Same(q) == out'[q].msgs = out[q].msgs /\ shown'[q] = shown[q] /\ got'[q] = got[q]

Gets(q, m) == out'[q].msgs = Append(out[q].msgs, m) /\ shown'[q] = shown[q] /\ got'[q] = got[q]

Takes(q) ==
    /\ out[q].msgs # <<>>
    /\ out'[q].msgs = Tail(out[q].msgs)
    /\ shown'[q] = L!handleMessage(shown[q], Head(out[q].msgs))
    /\ got'[q] = IF Head(out[q].msgs).type = "change" THEN got[q] \cup {Head(out[q].msgs).n} ELSE got[q]

LEMMA SoonIs ==
    ASSUME MsTyped, NEW q \in Sock
    PROVE  /\ out[q].msgs \in Seq(Told) /\ shown[q] \in View /\ L!Soon(q) \in View
           /\ Same(q) => L!Soon(q)' = L!Soon(q) /\ out'[q].msgs \in Seq(Told) /\ shown'[q] \in View
           /\ Takes(q) => L!Soon(q)' = L!Soon(q) /\ out'[q].msgs \in Seq(Told) /\ shown'[q] \in View
           /\ \A m \in Told : Gets(q, m) => /\ L!Soon(q)' = L!handleMessage(L!Soon(q), m)
                                            /\ out'[q].msgs \in Seq(Told) /\ shown'[q] \in View
<1>1. out[q].msgs \in Seq(Told) /\ shown[q] \in View
  BY DEF MsTyped, OutType
<1>2. L!Soon(q) \in View
  BY <1>1, ReadTyped DEF L!Soon
<1>3. ASSUME Same(q)
      PROVE  L!Soon(q)' = L!Soon(q) /\ out'[q].msgs \in Seq(Told) /\ shown'[q] \in View
  BY <1>1, <1>3 DEF L!Soon, Same
<1>4. ASSUME Takes(q)
      PROVE  L!Soon(q)' = L!Soon(q) /\ out'[q].msgs \in Seq(Told) /\ shown'[q] \in View
  <2>1. Head(out[q].msgs) \in Told /\ Tail(out[q].msgs) \in Seq(Told)
    BY <1>1, <1>4 DEF Takes
  <2>2. L!Reading(L!handleMessage(shown[q], Head(out[q].msgs)), Tail(out[q].msgs)) =
            L!Reading(shown[q], out[q].msgs)
    BY <1>1, <1>4, ReadFirst DEF Takes
  <2>3. L!handleMessage(shown[q], Head(out[q].msgs)) \in View
    BY <1>1, <2>1, HandleTyped
  <2> QED
    BY <1>4, <2>1, <2>2, <2>3 DEF Takes, L!Soon
<1>5. ASSUME NEW m \in Told, Gets(q, m)
      PROVE  /\ L!Soon(q)' = L!handleMessage(L!Soon(q), m)
             /\ out'[q].msgs \in Seq(Told) /\ shown'[q] \in View
  <2>1. L!Reading(shown[q], Append(out[q].msgs, m)) = L!handleMessage(L!Reading(shown[q], out[q].msgs), m)
    BY <1>1, ReadOneMore
  <2>2. Append(out[q].msgs, m) \in Seq(Told)
    BY <1>1
  <2> QED
    BY <1>1, <1>5, <2>1, <2>2 DEF Gets, L!Soon
<1> QED
  BY <1>1, <1>2, <1>3, <1>4, <1>5

LEMMA HeardSame ==
    ASSUME NEW q \in Sock, Same(q)
    PROVE  \A n : /\ Unheard(q, n)' <=> Unheard(q, n)
                  /\ HeardOnce(q, n)' <=> HeardOnce(q, n)
BY DEF Same, Unheard, HeardOnce, OnItsWay

LEMMA HeardMore ==
    ASSUME MsTyped, NEW q \in Sock, NEW m \in Told, Gets(q, m), NEW n
    PROVE  /\ ~ IsChange(m, n) => /\ Unheard(q, n) => Unheard(q, n)'
                                  /\ HeardOnce(q, n) => HeardOnce(q, n)'
           /\ IsChange(m, n) /\ Unheard(q, n) => HeardOnce(q, n)'
<1> DEFINE s == out[q].msgs
           p == out'[q].msgs
<1>1. s \in Seq(Told) /\ p = Append(s, m)
  BY SoonIs DEF Gets
<1>2. /\ Len(s) \in Nat /\ DOMAIN s = 1..Len(s) /\ DOMAIN p = 1..(Len(s) + 1)
      /\ p[Len(s) + 1] = m /\ \A i \in 1..Len(s) : p[i] = s[i]
  BY <1>1
<1>3. got'[q] = got[q]
  BY DEF Gets
<1> HIDE DEF s, p
<1>4. ASSUME ~ IsChange(m, n), ~ OnItsWay(q, n) PROVE ~ OnItsWay(q, n)'
  <2> SUFFICES ASSUME NEW i \in DOMAIN p, IsChange(p[i], n) PROVE FALSE
    BY DEF OnItsWay, p
  <2>1. i # Len(s) + 1
    BY <1>2, <1>4
  <2>2. i \in 1..Len(s)
    BY <1>2, <2>1
  <2> QED
    BY <1>2, <1>4, <2>2 DEF OnItsWay, s
<1>5. ASSUME ~ IsChange(m, n), NEW i \in DOMAIN s, \A j \in DOMAIN s : IsChange(s[j], n) <=> j = i
      PROVE  i \in DOMAIN p /\ \A j \in DOMAIN p : IsChange(p[j], n) <=> j = i
  BY <1>2, <1>5
<1>6. ASSUME IsChange(m, n), ~ OnItsWay(q, n)
      PROVE  Len(s) + 1 \in DOMAIN p /\ \A j \in DOMAIN p : IsChange(p[j], n) <=> j = Len(s) + 1
  BY <1>2, <1>6 DEF OnItsWay, s
<1> QED
  BY <1>3, <1>4, <1>5, <1>6 DEF Unheard, HeardOnce, s, p

LEMMA HeardTaken ==
    ASSUME MsTyped, NEW q \in Sock, Takes(q), NEW n
    PROVE  /\ Unheard(q, n) => Unheard(q, n)'
           /\ HeardOnce(q, n) => HeardOnce(q, n)'
<1> DEFINE s == out[q].msgs
           p == out'[q].msgs
<1>1. s \in Seq(Told) /\ s # <<>> /\ p = Tail(s)
  BY SoonIs DEF Takes
<1>2. /\ Len(s) \in Nat \ {0} /\ DOMAIN s = 1..Len(s) /\ DOMAIN p = 1..(Len(s) - 1) /\ Head(s) = s[1]
      /\ \A i \in 1..(Len(s) - 1) : p[i] = s[i + 1]
  BY <1>1
<1>3. got'[q] = IF s[1].type = "change" THEN got[q] \cup {s[1].n} ELSE got[q]
  BY <1>2 DEF Takes
<1>4. (n \in got'[q]) <=> (n \in got[q] \/ IsChange(s[1], n))
  BY <1>3 DEF IsChange
<1> HIDE DEF s, p
<1>5. ASSUME ~ OnItsWay(q, n) PROVE ~ OnItsWay(q, n)' /\ ~ IsChange(s[1], n)
  BY <1>2, <1>5 DEF OnItsWay, s, p
<1>6. ASSUME NEW i \in DOMAIN s, \A j \in DOMAIN s : IsChange(s[j], n) <=> j = i
      PROVE  \/ IsChange(s[1], n) /\ ~ OnItsWay(q, n)'
             \/ /\ ~ IsChange(s[1], n)
                /\ i - 1 \in DOMAIN p /\ \A j \in DOMAIN p : IsChange(p[j], n) <=> j = i - 1
  <2>1. CASE i = 1
    <3>1. \A j \in DOMAIN p : j + 1 \in DOMAIN s /\ j + 1 # 1 /\ p[j] = s[j + 1]
      BY <1>2
    <3> QED
      BY <1>2, <1>6, <2>1, <3>1 DEF OnItsWay, p
  <2>2. CASE i # 1
    <3>1. i - 1 \in DOMAIN p /\ 1 \in DOMAIN s
      BY <1>2, <2>2
    <3>2. \A j \in DOMAIN p : j + 1 \in DOMAIN s /\ p[j] = s[j + 1] /\ (j + 1 = i <=> j = i - 1)
      BY <1>2, <3>1
    <3> QED
      BY <1>6, <2>2, <3>1, <3>2
  <2> QED
    BY <2>1, <2>2
<1> QED
  BY <1>4, <1>5, <1>6 DEF Unheard, HeardOnce, s, p

-----------------------------------------------------------------------------
(* The invariant: who holds an id is a connection of its tab that joined; a    *)
(* change that is not broadcast yet is nobody's news; one that was made since   *)
(* a connection joined is on its way to it, or was heard, once.                *)

Pending(k, n) == sock[k].pc \in {"applied", "acked"} /\ sock[k].n = n

MsHeld == \A t \in Tab : L!Holder(t) # NoSock =>
              L!Holder(t) \in Sock /\ TabOf[L!Holder(t)] = t /\ sock[L!Holder(t)].pc # "down"

MsPending ==
    \A s \in Sock : \A n : Pending(s, n) =>
        /\ n \in 1..Len(shared) /\ shared[n] = TabOf[s]
        /\ \A q \in Sock : Unheard(q, n)
        /\ \A k \in Sock : Pending(k, n) => k = s

MsKnown == \A q \in Sock : \A n \in Nat : n > Len(shared) => Unheard(q, n)

Hears(s, n) == \/ shared[n] = TabOf[s]
               \/ \E k \in Sock : Pending(k, n)
               \/ HeardOnce(s, n)

MsHeard == \A s \in Sock : L!Reached(s) => \A n \in joined[s] + 1..Len(shared) : Hears(s, n)

Shows(s) ==
    /\ L!Soon(s).there = L!Present
    /\ \A t \in L!Present \ (redialled \cup {TabOf[s]}) : L!Soon(s).cursor[t] = clients[t].cursor

MsShown == \A s \in Sock : L!Reached(s) => Shows(s)

MsInv == MsTyped /\ MsHeld /\ MsPending /\ MsKnown /\ MsHeard /\ MsShown

LEMMA MessageSizes ==
    /\ NoSock \notin Sock /\ TabOf \in [Sock -> Tab] /\ Buffer \in Nat
BY DeliveryAssumption DEF L!MessagesSizes

LEMMA PresenceShown == MsShown <=> L!PresenceIsTrue
BY DEF MsShown, Shows, L!PresenceIsTrue

LEMMA ReachedIsOther ==
    ASSUME MsInv, NEW q \in Sock, L!Reached(q), NEW t \in Tab, TabOf[q] # t
    PROVE  q \in L!Others(t) /\ TabOf[q] \in L!Present
<1>1. TabOf[q] \in Tab /\ L!Holder(TabOf[q]) = q /\ q # NoSock
  BY MessageSizes DEF L!Reached
<1> QED
  BY <1>1 DEF L!Others, L!Present, L!Holder

LEMMA OthersAre ==
    ASSUME MsInv, NEW t \in Tab
    PROVE  \A q \in L!Others(t) : q \in Sock /\ TabOf[q] # t /\ sock[q].pc # "down"
BY DEF L!Others, L!Present, L!Holder, MsInv, MsHeld

\* m goes to each of `to` that has room for it.
Delivered(to, m) ==
    /\ missed \subseteq missed'
    /\ \A q \in Sock : /\ q \notin to => Same(q)
                       /\ q \in to => Gets(q, m) \/ (Same(q) /\ q \in missed')

LEMMA TrySendIs ==
    ASSUME MsTyped, NEW to, NEW m \in Told, L!trySend(to, m), UNCHANGED <<shown, got>>
    PROVE  Delivered(to, m) /\ out' \in [Sock -> OutType] /\ missed' \subseteq missed \cup to
<1>1. \A q \in Sock : out[q] \in OutType
  BY DEF MsTyped
<1>2. \A q \in Sock : out'[q] = IF q \in to /\ ~ L!Full(q)
                                THEN [out[q] EXCEPT !.msgs = Append(@, m)] ELSE out[q]
  BY DEF L!trySend
<1>3. ASSUME NEW q \in Sock PROVE [out[q] EXCEPT !.msgs = Append(@, m)] \in OutType
  <2>1. Append(out[q].msgs, m) \in Seq(Told)
    BY <1>1 DEF OutType
  <2> QED
    BY <1>1, <2>1 DEF OutType
<1>4. ASSUME NEW q \in Sock PROVE [out[q] EXCEPT !.msgs = Append(@, m)].msgs = Append(out[q].msgs, m)
  BY <1>1 DEF OutType
<1>5. out' \in [Sock -> OutType]
  <2>1. out' = [q \in Sock |-> out'[q]]
    BY DEF L!trySend
  <2> QED
    BY <1>1, <1>2, <1>3, <2>1
<1>6. missed' = missed \cup {q \in to : L!Full(q)}
  BY DEF L!trySend
<1>7. ASSUME NEW q \in Sock, q \notin to PROVE Same(q)
  BY <1>2, <1>7 DEF Same
<1>8. ASSUME NEW q \in Sock, q \in to, ~ L!Full(q) PROVE Gets(q, m)
  BY <1>2, <1>4, <1>8 DEF Gets
<1>9. ASSUME NEW q \in Sock, q \in to, L!Full(q) PROVE Same(q) /\ q \in missed'
  BY <1>2, <1>6, <1>9 DEF Same
<1> QED
  BY <1>5, <1>6, <1>7, <1>8, <1>9 DEF Delivered

LEMMA DeliveredHeard ==
    ASSUME MsTyped, NEW to, NEW m \in Told, m.type # "change", Delivered(to, m), NEW q \in Sock, NEW n
    PROVE  (Unheard(q, n) => Unheard(q, n)') /\ (HeardOnce(q, n) => HeardOnce(q, n)')
<1>1. ~ IsChange(m, n)
  BY DEF IsChange
<1>2. CASE Same(q)
  BY <1>2, HeardSame
<1>3. CASE Gets(q, m)
  BY <1>1, <1>3, HeardMore
<1> QED
  BY <1>2, <1>3 DEF Delivered

(* A step that neither makes nor broadcasts a change. *)
LEMMA QuietKeeps ==
    ASSUME MsInv, shared' = shared,
           \A k \in Sock : \A n : Pending(k, n)' <=> Pending(k, n),
           \A q \in Sock : \A n : Unheard(q, n) => Unheard(q, n)',
           \A q \in Sock : L!Reached(q)' =>
              \/ joined'[q] = Len(shared)
              \/ /\ L!Reached(q) /\ joined'[q] = joined[q]
                 /\ \A n : HeardOnce(q, n) => HeardOnce(q, n)'
    PROVE  MsPending' /\ MsKnown' /\ MsHeard'
<1>1. MsPending'
  <2> SUFFICES ASSUME NEW s \in Sock, NEW n, Pending(s, n)'
               PROVE  /\ n \in 1..Len(shared)' /\ shared'[n] = TabOf[s]
                      /\ \A q \in Sock : Unheard(q, n)'
                      /\ \A k \in Sock : Pending(k, n)' => k = s
    BY DEF MsPending
  <2>1. Pending(s, n)
    OBVIOUS
  <2>2. /\ n \in 1..Len(shared) /\ shared[n] = TabOf[s]
        /\ \A q \in Sock : Unheard(q, n)
        /\ \A k \in Sock : Pending(k, n) => k = s
    BY <2>1 DEF MsInv, MsPending
  <2> QED
    BY <2>2
<1>2. MsKnown'
  BY DEF MsKnown, MsInv
<1>3. MsHeard'
  <2> SUFFICES ASSUME NEW s \in Sock, L!Reached(s)', NEW n \in joined'[s] + 1..Len(shared)
               PROVE  Hears(s, n)'
    BY DEF MsHeard
  <2>1. Len(shared) \in Nat
    BY DEF MsInv, MsTyped
  <2>2. joined'[s] # Len(shared)
    BY <2>1
  <2>3. /\ L!Reached(s) /\ joined'[s] = joined[s]
        /\ \A m : HeardOnce(s, m) => HeardOnce(s, m)'
    BY <2>2
  <2>4. Hears(s, n)
    BY <2>3 DEF MsInv, MsHeard
  <2> QED
    BY <2>3, <2>4 DEF Hears
<1> QED
  BY <1>1, <1>2, <1>3

LEMMA MsStart == L!MessagesInit => MsInv
<1> SUFFICES ASSUME L!MessagesInit PROVE MsInv
  OBVIOUS
<1>1. MsTyped
  <2>1. L!Absent \in ClientType /\ L!Blank \in View /\ <<>> \in Seq(Told) /\ <<>> \in Seq(Tab)
    BY DEF L!Absent, L!Blank, ClientType, View
  <2> QED
    BY <2>1 DEF L!MessagesInit, MsTyped, SockType, OutType
<1>2. \A t \in Tab : L!Holder(t) = NoSock
  BY DEF L!MessagesInit, L!Holder, L!Absent
<1>3. \A s \in Sock : sock[s].pc = "down" /\ got[s] = {} /\ out[s].msgs = <<>>
  BY DEF L!MessagesInit
<1>4. \A s \in Sock : \A n : Unheard(s, n) /\ ~ Pending(s, n)
  BY <1>3 DEF Unheard, OnItsWay, Pending
<1>5. \A s \in Sock : ~ L!Reached(s)
  BY <1>2, MessageSizes DEF L!Reached
<1> QED
  BY <1>1, <1>2, <1>4, <1>5 DEF MsInv, MsHeld, MsPending, MsKnown, MsHeard, MsShown

LEMMA AckKeeps == ASSUME MsInv, NEW s \in Sock, L!Ack(s) PROVE MsInv'
<1> DEFINE m == [type |-> "ack", n |-> sock[s].n]
<1>1. MsTyped /\ sock[s] \in SockType
  BY DEF MsInv, MsTyped
<1>2. m \in Told /\ m \in Numbered /\ m.type # "change"
  BY <1>1 DEF Told, Numbered, SockType
<1> HIDE DEF m
<1>3. L!trySend({s}, m) /\ UNCHANGED <<clients, shown, shared, joined, got, redialled, frames>>
  BY DEF L!Ack, m
<1>4. Delivered({s}, m) /\ out' \in [Sock -> OutType] /\ missed' \subseteq missed \cup {s}
  BY <1>1, <1>2, <1>3, TrySendIs
<1>5. /\ sock[s].pc = "applied" /\ sock' \in [Sock -> SockType]
      /\ sock'[s].pc = "acked" /\ sock'[s].n = sock[s].n
      /\ \A k \in Sock : k # s => sock'[k] = sock[k]
  BY <1>1 DEF L!Ack, MsTyped, SockType
<1>6. MsTyped'
  BY <1>1, <1>3, <1>4, <1>5 DEF MsTyped
<1>7. MsHeld'
  BY <1>3, <1>5 DEF MsInv, MsHeld, L!Holder
<1>8. \A k \in Sock : \A n : Pending(k, n)' <=> Pending(k, n)
  BY <1>5 DEF Pending
<1>9. \A q \in Sock : L!Reached(q)' => L!Reached(q)
  BY <1>3, <1>4 DEF L!Reached, L!Holder, Delivered
<1>10. MsPending' /\ MsKnown' /\ MsHeard'
  BY <1>1, <1>2, <1>3, <1>4, <1>8, <1>9, DeliveredHeard, QuietKeeps
<1>11. ASSUME NEW q \in Sock, L!Reached(q)' PROVE Shows(q)'
  <2>1. Shows(q)
    BY <1>9, <1>11 DEF MsInv, MsShown
  <2>2. CASE Same(q)
    BY <1>1, <1>3, <2>1, <2>2, SoonIs DEF Shows, L!Present
  <2>3. CASE Gets(q, m)
    <3>1. L!Soon(q)' = L!Soon(q)
      BY <1>1, <1>2, <2>3, SoonIs, HandleNumbered
    <3> QED
      BY <1>3, <2>1, <3>1 DEF Shows, L!Present
  <2> QED
    BY <1>4, <2>2, <2>3 DEF Delivered
<1> QED
  BY <1>6, <1>7, <1>10, <1>11 DEF MsInv, MsShown

LEMMA UpdateCursorKeeps == ASSUME MsInv, NEW s \in Sock, L!UpdateCursor(s) PROVE MsInv'
<1> DEFINE t == TabOf[s]
           m == [type |-> "cursor", tab |-> t, cursor |-> frames + 1]
<1>1. /\ MsTyped /\ t \in Tab /\ frames' = frames + 1 /\ frames \in Nat
      /\ UNCHANGED <<sock, shown, shared, joined, got, redialled>>
  BY MessageSizes DEF MsInv, MsTyped, L!UpdateCursor
<1>2. m \in Told /\ m \in Moved /\ m.type # "change" /\ m.tab = t /\ m.cursor = frames + 1
  BY <1>1 DEF Told, Moved
<1> HIDE DEF m
<1>3. CASE t \in L!Present
  <2>1. L!trySend(L!Others(t), m) /\ clients' = [clients EXCEPT ![t].cursor = frames + 1]
    BY <1>3 DEF L!UpdateCursor, m
  <2>2. Delivered(L!Others(t), m) /\ out' \in [Sock -> OutType] /\ missed' \subseteq missed \cup L!Others(t)
    BY <1>1, <1>2, <2>1, TrySendIs
  <2>3. /\ clients' \in [Tab -> ClientType] /\ \A u \in Tab : clients'[u].sock = clients[u].sock
        /\ clients'[t].cursor = frames + 1 /\ \A u \in Tab : u # t => clients'[u] = clients[u]
    <3>1. clients[t] \in ClientType /\ clients \in [Tab -> ClientType] /\ frames + 1 \in Nat
      BY <1>1 DEF MsTyped
    <3>2. PICK c : c = [clients[t] EXCEPT !.cursor = frames + 1]
      OBVIOUS
    <3>3. c \in ClientType /\ c.sock = clients[t].sock /\ c.cursor = frames + 1
      BY <3>1, <3>2 DEF ClientType
    <3>4. clients' = [clients EXCEPT ![t] = c]
      BY <2>1, <3>2
    <3> QED
      BY <1>1, <3>1, <3>3, <3>4
  <2>4. MsTyped'
    BY <1>1, <2>2, <2>3, OthersAre DEF MsTyped
  <2>5. MsHeld' /\ L!Present' = L!Present
    BY <1>1, <2>3 DEF MsInv, MsHeld, L!Holder, L!Present
  <2>6. \A q \in Sock : L!Reached(q)' => L!Reached(q)
    BY <2>2, <2>3, MessageSizes DEF L!Reached, L!Holder, Delivered
  <2>7. MsPending' /\ MsKnown' /\ MsHeard'
    <3>1. \A k \in Sock : \A n : Pending(k, n)' <=> Pending(k, n)
      BY <1>1 DEF Pending
    <3> QED
      BY <1>1, <1>2, <2>2, <2>6, <3>1, DeliveredHeard, QuietKeeps
  <2>8. ASSUME NEW q \in Sock, L!Reached(q)' PROVE Shows(q)'
    <3>1. Shows(q) /\ L!Reached(q)
      BY <2>6, <2>8 DEF MsInv, MsShown
    <3>2. CASE TabOf[q] = t
      <4>1. q \notin L!Others(t)
        BY <1>1, <3>2, OthersAre
      <4>2. Same(q)
        BY <2>2, <4>1 DEF Delivered
      <4>3. L!Soon(q)' = L!Soon(q)
        BY <1>1, <4>2, SoonIs
      <4>4. \A u \in L!Present \ (redialled \cup {TabOf[q]}) : u \in Tab /\ u # t
        BY <3>2 DEF L!Present
      <4> QED
        BY <1>1, <2>3, <2>5, <3>1, <4>3, <4>4 DEF Shows
    <3>3. CASE TabOf[q] # t
      <4>1. q \in L!Others(t) /\ q \notin missed'
        BY <1>1, <2>8, <3>1, <3>3, ReachedIsOther DEF L!Reached
      <4>2. Gets(q, m)
        BY <2>2, <4>1 DEF Delivered
      <4>3. L!Soon(q)' = L!handleMessage(L!Soon(q), m) /\ L!Soon(q) \in View
        BY <1>1, <1>2, <4>2, SoonIs
      <4>4. /\ L!Soon(q)'.there = L!Soon(q).there
            /\ \A u \in Tab : L!Soon(q)'.cursor[u] =
                  IF u = t /\ u \in L!Soon(q).there THEN frames + 1 ELSE L!Soon(q).cursor[u]
        BY <1>2, <4>3, HandleMoved
      <4>5. L!Soon(q)'.there = L!Present'
        BY <2>5, <3>1, <4>4 DEF Shows
      <4>6. ASSUME NEW u \in L!Present \ (redialled \cup {TabOf[q]})
            PROVE  L!Soon(q)'.cursor[u] = clients'[u].cursor
        <5>1. u \in Tab /\ u \in L!Soon(q).there /\ L!Soon(q).cursor[u] = clients[u].cursor
          BY <3>1, <4>6 DEF Shows, L!Present
        <5> QED
          BY <2>3, <4>4, <5>1
      <4> QED
        BY <1>1, <2>5, <4>5, <4>6 DEF Shows
    <3> QED
      BY <3>2, <3>3
  <2> QED
    BY <2>4, <2>5, <2>7, <2>8 DEF MsInv, MsShown
<1>4. CASE t \notin L!Present
  <2>1. UNCHANGED <<clients, out, missed>>
    BY <1>4 DEF L!UpdateCursor
  <2>2. MsTyped'
    BY <1>1, <2>1 DEF MsTyped
  <2>3. MsHeld' /\ MsPending' /\ MsKnown' /\ MsHeard'
    BY <1>1, <2>1 DEF MsInv, MsHeld, MsPending, MsKnown, MsHeard, L!Holder, L!Reached, Pending, Hears,
                      Unheard, HeardOnce, OnItsWay
  <2>4. MsShown'
    BY <1>1, <2>1 DEF MsInv, MsShown, Shows, L!Reached, L!Holder, L!Soon, L!Present
  <2> QED
    BY <2>2, <2>3, <2>4 DEF MsInv
<1> QED
  BY <1>3, <1>4

LEMMA WritePumpKeeps == ASSUME MsInv, NEW s \in Sock, L!writePump(s) PROVE MsInv'
<1>1. /\ MsTyped /\ out[s] \in OutType /\ out[s].msgs # <<>>
      /\ UNCHANGED <<clients, sock, shared, joined, missed, redialled, frames>>
  BY DEF MsInv, MsTyped, L!writePump
<1>2. Head(out[s].msgs) \in Told /\ Tail(out[s].msgs) \in Seq(Told)
  BY <1>1 DEF OutType
<1>3. out' \in [Sock -> OutType] /\ out'[s].msgs = Tail(out[s].msgs)
      /\ \A q \in Sock : q # s => out'[q] = out[q]
  <2>1. out' = [out EXCEPT ![s].msgs = Tail(@)]
    BY DEF L!writePump
  <2>2. [out[s] EXCEPT !.msgs = Tail(@)] \in OutType /\ [out[s] EXCEPT !.msgs = Tail(@)].msgs = Tail(out[s].msgs)
    BY <1>1, <1>2 DEF OutType
  <2>3. out' = [out EXCEPT ![s] = [out[s] EXCEPT !.msgs = Tail(@)]]
    BY <2>1
  <2> QED
    BY <1>1, <2>2, <2>3 DEF MsTyped
<1>4. /\ shown' = [shown EXCEPT ![s] = L!handleMessage(@, Head(out[s].msgs))]
      /\ got' = IF Head(out[s].msgs).type = "change"
                THEN [got EXCEPT ![s] = @ \cup {Head(out[s].msgs).n}] ELSE got
  BY DEF L!writePump
<1>5. Takes(s) /\ \A q \in Sock : q # s => Same(q)
  BY <1>1, <1>3, <1>4 DEF Takes, Same, MsTyped
<1>6. MsTyped'
  <2>1. shown' \in [Sock -> View]
    BY <1>1, <1>2, <1>4, HandleTyped DEF MsTyped
  <2>2. Head(out[s].msgs).type = "change" => Head(out[s].msgs).n \in Nat
    BY <1>2 DEF Told, Numbered, Moved, Named, Whole
  <2>3. got' \in [Sock -> SUBSET Nat]
    BY <1>1, <1>4, <2>2 DEF MsTyped
  <2> QED
    BY <1>1, <1>3, <2>1, <2>3 DEF MsTyped
<1>7. MsHeld'
  BY <1>1 DEF MsInv, MsHeld, L!Holder
<1>8. \A q \in Sock : \A n : /\ Unheard(q, n) => Unheard(q, n)'
                             /\ HeardOnce(q, n) => HeardOnce(q, n)'
  BY <1>1, <1>5, HeardSame, HeardTaken
<1>9. \A q \in Sock : L!Reached(q)' => L!Reached(q)
  BY <1>1 DEF L!Reached, L!Holder
<1>10. MsPending' /\ MsKnown' /\ MsHeard'
  <2>1. \A k \in Sock : \A n : Pending(k, n)' <=> Pending(k, n)
    BY <1>1 DEF Pending
  <2> QED
    BY <1>1, <1>8, <1>9, <2>1, QuietKeeps
<1>11. \A q \in Sock : L!Soon(q)' = L!Soon(q)
  BY <1>1, <1>5, SoonIs
<1>12. MsShown'
  <2>1. \A q \in Sock : Shows(q) => Shows(q)'
    BY <1>1, <1>11 DEF Shows, L!Present
  <2> QED
    BY <1>9, <2>1 DEF MsInv, MsShown
<1> QED
  BY <1>6, <1>7, <1>10, <1>12 DEF MsInv

LEMMA ApplyKeeps == ASSUME MsInv, NEW s \in Sock, L!Apply(s) PROVE MsInv'
<1> DEFINE n == Len(shared) + 1
<1>1. /\ MsTyped /\ shared' = Append(shared, TabOf[s]) /\ frames' = frames + 1
      /\ UNCHANGED <<clients, out, shown, joined, got, missed, redialled>>
  BY DEF MsInv, L!Apply
<1>2. Len(shared) \in Nat /\ n \in Nat /\ TabOf[s] \in Tab /\ frames \in Nat
  BY <1>1, MessageSizes DEF MsTyped
<1>3. /\ sock[s].pc = "open" /\ sock' \in [Sock -> SockType]
      /\ sock'[s].pc = "applied" /\ sock'[s].n = n
      /\ \A k \in Sock : k # s => sock'[k] = sock[k]
  BY <1>1, <1>2 DEF L!Apply, MsTyped, SockType
<1>4. /\ shared' \in Seq(Tab) /\ Len(shared') = n /\ shared'[n] = TabOf[s]
      /\ \A i \in 1..Len(shared) : shared'[i] = shared[i]
  BY <1>1, <1>2 DEF MsTyped
<1> HIDE DEF n
<1>5. MsTyped'
  BY <1>1, <1>2, <1>3, <1>4 DEF MsTyped
<1>6. MsHeld'
  BY <1>1, <1>3 DEF MsInv, MsHeld, L!Holder
<1>7. \A q \in Sock : \A k : /\ Unheard(q, k)' <=> Unheard(q, k)
                             /\ HeardOnce(q, k)' <=> HeardOnce(q, k)
  BY <1>1 DEF Unheard, HeardOnce, OnItsWay
<1>8. \A k \in Sock : \A j : Pending(k, j)' <=> (IF k = s THEN j = n ELSE Pending(k, j))
  BY <1>3 DEF Pending
<1>9. \A q \in Sock : Unheard(q, n) /\ \A k \in Sock : ~ Pending(k, n)
  <2>1. n > Len(shared) /\ n \notin 1..Len(shared)
    BY <1>2 DEF n
  <2> QED
    BY <1>2, <2>1 DEF MsInv, MsKnown, MsPending
<1>10. MsPending'
  <2> SUFFICES ASSUME NEW r \in Sock, NEW j, Pending(r, j)'
               PROVE  /\ j \in 1..Len(shared') /\ shared'[j] = TabOf[r]
                      /\ \A q \in Sock : Unheard(q, j)'
                      /\ \A k \in Sock : Pending(k, j)' => k = r
    BY DEF MsPending
  <2>1. CASE r = s
    <3>1. j = n /\ n \in 1..n
      BY <1>2, <1>8, <2>1 DEF n
    <3> QED
      BY <1>4, <1>7, <1>8, <1>9, <2>1, <3>1
  <2>2. CASE r # s
    <3>1. Pending(r, j)
      BY <1>8, <2>2
    <3>2. /\ j \in 1..Len(shared) /\ shared[j] = TabOf[r] /\ j # n
          /\ \A q \in Sock : Unheard(q, j)
          /\ \A k \in Sock : Pending(k, j) => k = r
      BY <1>9, <3>1 DEF MsInv, MsPending
    <3>3. j \in 1..n
      BY <1>2, <3>2 DEF n
    <3> QED
      BY <1>4, <1>7, <1>8, <3>2, <3>3
  <2> QED
    BY <2>1, <2>2
<1>11. MsKnown'
  <2>1. \A k \in Nat : k > n => k > Len(shared)
    BY <1>2 DEF n
  <2> QED
    BY <1>4, <1>7, <2>1 DEF MsInv, MsKnown
<1>12. MsHeard'
  <2> SUFFICES ASSUME NEW r \in Sock, L!Reached(r)', NEW j \in joined'[r] + 1..n
               PROVE  Hears(r, j)'
    BY <1>4 DEF MsHeard
  <2>1. CASE j = n
    <3>1. Pending(s, j)'
      BY <1>8, <2>1
    <3> QED
      BY <3>1 DEF Hears
  <2>2. CASE j # n
    <3>1. joined[r] \in Nat /\ j \in joined[r] + 1..Len(shared) /\ j \in 1..Len(shared)
      BY <1>1, <1>2, <2>2 DEF n, MsTyped
    <3>2. Hears(r, j)
      BY <1>1, <3>1 DEF MsInv, MsHeard, L!Reached, L!Holder
    <3>3. \A k \in Sock : Pending(k, j) => Pending(k, j)'
      BY <1>3 DEF Pending
    <3> QED
      BY <1>4, <1>7, <3>1, <3>2, <3>3 DEF Hears
  <2> QED
    BY <2>1, <2>2
<1>13. MsShown'
  BY <1>1 DEF MsInv, MsShown, Shows, L!Reached, L!Holder, L!Soon, L!Present
<1> QED
  BY <1>5, <1>6, <1>10, <1>11, <1>12, <1>13 DEF MsInv

LEMMA BroadcastKeeps == ASSUME MsInv, NEW s \in Sock, L!BroadcastChange(s) PROVE MsInv'
<1>0. PICK n : n = sock[s].n
  OBVIOUS
<1> DEFINE m == [type |-> "change", n |-> n]
           t == TabOf[s]
<1>1. MsTyped /\ sock[s] \in SockType /\ n \in Nat /\ t \in Tab
  BY <1>0, MessageSizes DEF MsInv, MsTyped, SockType
<1>2. m \in Told /\ m \in Numbered /\ \A k : IsChange(m, k) <=> k = n
  BY <1>1 DEF Told, Numbered, IsChange
<1>3. L!trySend(L!Others(t), m) /\ UNCHANGED <<clients, shown, shared, joined, got, redialled, frames>>
  BY <1>0 DEF L!BroadcastChange
<1>4. /\ sock[s].pc = "acked" /\ sock' \in [Sock -> SockType]
      /\ sock'[s].pc = "open"
      /\ \A k \in Sock : k # s => sock'[k] = sock[k]
  BY <1>1 DEF L!BroadcastChange, MsTyped, SockType
<1> HIDE DEF m
<1>5. Delivered(L!Others(t), m) /\ out' \in [Sock -> OutType] /\ missed' \subseteq missed \cup L!Others(t)
  BY <1>1, <1>2, <1>3, TrySendIs
<1>6. MsTyped'
  BY <1>1, <1>3, <1>4, <1>5, OthersAre DEF MsTyped
<1>7. MsHeld'
  BY <1>3, <1>4 DEF MsInv, MsHeld, L!Holder
<1>8. Pending(s, n) /\ \A k \in Sock : \A j : Pending(k, j)' <=> (k # s /\ Pending(k, j))
  BY <1>0, <1>4 DEF Pending
<1>9. /\ n \in 1..Len(shared) /\ shared[n] = t
      /\ \A q \in Sock : Unheard(q, n)
      /\ \A k \in Sock : Pending(k, n) => k = s
  BY <1>8 DEF MsInv, MsPending
<1>10. ASSUME NEW q \in Sock, NEW j, j # n
       PROVE  (Unheard(q, j) => Unheard(q, j)') /\ (HeardOnce(q, j) => HeardOnce(q, j)')
  <2>1. CASE Same(q)
    BY <2>1, HeardSame
  <2>2. CASE Gets(q, m)
    BY <1>1, <1>2, <1>10, <2>2, HeardMore
  <2> QED
    BY <1>5, <2>1, <2>2 DEF Delivered
<1>11. \A q \in Sock : L!Reached(q)' => L!Reached(q) /\ q \notin missed'
  BY <1>3, <1>5 DEF L!Reached, L!Holder, Delivered
<1>12. MsPending'
  <2> SUFFICES ASSUME NEW r \in Sock, NEW j, Pending(r, j)'
               PROVE  /\ j \in 1..Len(shared') /\ shared'[j] = TabOf[r]
                      /\ \A q \in Sock : Unheard(q, j)'
                      /\ \A k \in Sock : Pending(k, j)' => k = r
    BY DEF MsPending
  <2>1. r # s /\ Pending(r, j)
    BY <1>8
  <2>2. j # n
    BY <1>9, <2>1
  <2>3. /\ j \in 1..Len(shared) /\ shared[j] = TabOf[r]
        /\ \A q \in Sock : Unheard(q, j)
        /\ \A k \in Sock : Pending(k, j) => k = r
    BY <2>1 DEF MsInv, MsPending
  <2> QED
    BY <1>3, <1>8, <1>10, <2>2, <2>3
<1>13. MsKnown'
  <2>1. \A j \in Nat : j > Len(shared) => j # n
    BY <1>1, <1>9
  <2> QED
    BY <1>3, <1>10, <2>1 DEF MsInv, MsKnown
<1>14. MsHeard'
  <2> SUFFICES ASSUME NEW r \in Sock, L!Reached(r)', NEW j \in joined[r] + 1..Len(shared)
               PROVE  Hears(r, j)'
    BY <1>3 DEF MsHeard
  <2>1. L!Reached(r) /\ r \notin missed'
    BY <1>11
  <2>2. CASE j = n
    <3>1. CASE TabOf[r] = t
      BY <1>3, <1>9, <2>2, <3>1 DEF Hears
    <3>2. CASE TabOf[r] # t
      <4>1. Gets(r, m)
        BY <1>1, <1>5, <2>1, <3>2, ReachedIsOther DEF Delivered
      <4>2. HeardOnce(r, n)'
        BY <1>1, <1>2, <1>9, <4>1, HeardMore
      <4> QED
        BY <2>2, <4>2 DEF Hears
    <3> QED
      BY <3>1, <3>2
  <2>3. CASE j # n
    <3>1. Hears(r, j)
      BY <2>1 DEF MsInv, MsHeard
    <3>2. \A k \in Sock : Pending(k, j) => Pending(k, j)'
      BY <1>0, <1>8, <2>3 DEF Pending
    <3> QED
      BY <1>3, <1>10, <2>3, <3>1, <3>2 DEF Hears
  <2> QED
    BY <2>2, <2>3
<1>15. ASSUME NEW q \in Sock, L!Reached(q)' PROVE Shows(q)'
  <2>1. Shows(q)
    BY <1>11, <1>15 DEF MsInv, MsShown
  <2>2. L!Soon(q)' = L!Soon(q)
    <3>1. CASE Same(q)
      BY <1>1, <3>1, SoonIs
    <3>2. CASE Gets(q, m)
      BY <1>1, <1>2, <3>2, SoonIs, HandleNumbered
    <3> QED
      BY <1>5, <3>1, <3>2 DEF Delivered
  <2> QED
    BY <1>3, <2>1, <2>2 DEF Shows, L!Present
<1> QED
  BY <1>6, <1>7, <1>12, <1>13, <1>14, <1>15 DEF MsInv, MsShown

LEMMA JoinKeeps == ASSUME MsInv, NEW s \in Sock, L!Join(s) PROVE MsInv'
<1> DEFINE t == TabOf[s]
           news == [type |-> "joined", tab |-> t]
<1>0. PICK now, init :
          /\ now = [clients EXCEPT ![t] = [sock |-> s, cursor |-> 0]]
          /\ init = [type |-> "init", there |-> L!Present \cup {t},
                     cursor |-> [u \in Tab |-> now[u].cursor]]
  OBVIOUS
<1>1. /\ MsTyped /\ t \in Tab /\ sock[s].pc = "down" /\ clients' = now
      /\ UNCHANGED <<shown, shared, got, frames>> /\ shared \in Seq(Tab) /\ Len(shared) \in Nat
  <2>1. sock[s].pc = "down" /\ clients' = now /\ UNCHANGED <<shown, shared, got, frames>>
    BY <1>0 DEF L!Join
  <2>2. MsTyped /\ t \in Tab
    BY MessageSizes DEF MsInv
  <2> QED
    BY <2>1, <2>2 DEF MsTyped
<1>2. /\ now \in [Tab -> ClientType] /\ now[t].sock = s /\ now[t].cursor = 0
      /\ \A u \in Tab : u # t => now[u] = clients[u]
  BY <1>0, <1>1 DEF MsTyped, ClientType
<1>3. /\ init \in Whole /\ init \in Told /\ init.type # "change"
      /\ init.there = L!Present \cup {t} /\ \A u \in Tab : init.cursor[u] = now[u].cursor
  <2>1. \A u \in Tab : now[u].cursor \in Nat
    BY <1>2 DEF ClientType
  <2>2. L!Present \cup {t} \in SUBSET Tab
    BY <1>1 DEF L!Present
  <2> QED
    BY <1>0, <2>1, <2>2 DEF Whole, Told
<1>4. news \in Named /\ news \in Told /\ news.type # "change" /\ news.type = "joined" /\ news.tab = t
  BY <1>1 DEF Named, Told
<1>5. s \notin L!Others(t) /\ \A q \in L!Others(t) : q \in Sock /\ TabOf[q] # t
  BY <1>1, OthersAre
<1>6. /\ out' = [k \in Sock |-> CASE k = s -> [msgs |-> <<init>>, closed |-> FALSE]
                                   [] k \in L!Others(t) /\ ~ L!Full(k) ->
                                        [out[k] EXCEPT !.msgs = Append(@, news)]
                                   [] OTHER -> out[k]]
      /\ missed' = missed \cup {k \in L!Others(t) : L!Full(k)}
      /\ joined' = [joined EXCEPT ![s] = Len(shared)]
      /\ redialled' = IF t \in L!Present THEN redialled \cup {t} ELSE redialled
      /\ sock' = [sock EXCEPT ![s].pc = "open"]
  BY <1>0 DEF L!Join
<1> HIDE DEF news
<1>7. ASSUME NEW q \in Sock
      PROVE  /\ out'[q] \in OutType
             /\ q = s => out'[q].msgs = <<init>>
             /\ q # s => (q \notin L!Others(t) => Same(q))
             /\ q \in L!Others(t) => Gets(q, news) \/ (Same(q) /\ q \in missed')
  <2>1. out[q] \in OutType
    BY <1>1 DEF MsTyped
  <2>2. /\ [out[q] EXCEPT !.msgs = Append(@, news)] \in OutType
        /\ [out[q] EXCEPT !.msgs = Append(@, news)].msgs = Append(out[q].msgs, news)
    <3>1. Append(out[q].msgs, news) \in Seq(Told)
      BY <1>4, <2>1 DEF OutType
    <3> QED
      BY <2>1, <3>1 DEF OutType
  <2>3. <<init>> \in Seq(Told)
    BY <1>3
  <2>4. CASE q = s
    <3>1. out'[q] = [msgs |-> <<init>>, closed |-> FALSE]
      BY <1>5, <1>6, <2>4
    <3> QED
      BY <1>5, <2>3, <2>4, <3>1 DEF OutType
  <2>5. CASE q \in L!Others(t) /\ ~ L!Full(q)
    <3>1. out'[q] = [out[q] EXCEPT !.msgs = Append(@, news)]
      BY <1>5, <1>6, <2>5
    <3> QED
      BY <1>1, <1>5, <2>2, <2>5, <3>1 DEF Gets
  <2>6. CASE q # s /\ ~ (q \in L!Others(t) /\ ~ L!Full(q))
    <3>1. out'[q] = out[q]
      BY <1>6, <2>6
    <3> QED
      BY <1>1, <1>6, <2>1, <2>6, <3>1 DEF Same
  <2> QED
    BY <1>5, <2>4, <2>5, <2>6
<1>8. /\ sock' \in [Sock -> SockType] /\ sock'[s].pc = "open"
      /\ \A k \in Sock : k # s => sock'[k] = sock[k]
  BY <1>1, <1>6 DEF MsTyped, SockType
<1>9. MsTyped'
  <2>1. out' \in [Sock -> OutType]
    <3>1. out' = [k \in Sock |-> out'[k]]
      BY <1>6
    <3> QED
      BY <1>7, <3>1
  <2>2. missed' \subseteq Sock /\ redialled' \subseteq Tab /\ joined' \in [Sock -> Nat]
    BY <1>1, <1>5, <1>6 DEF MsTyped
  <2> QED
    BY <1>1, <1>2, <1>8, <2>1, <2>2 DEF MsTyped
<1>10. MsHeld'
  <2> SUFFICES ASSUME NEW u \in Tab, now[u].sock # NoSock
               PROVE  /\ now[u].sock \in Sock /\ TabOf[now[u].sock] = u
                      /\ sock'[now[u].sock].pc # "down"
    BY <1>1 DEF MsHeld, L!Holder
  <2>1. CASE u = t
    BY <1>2, <1>8, <2>1
  <2>2. CASE u # t
    <3>1. /\ now[u].sock = clients[u].sock /\ clients[u].sock \in Sock /\ TabOf[clients[u].sock] = u
          /\ sock[clients[u].sock].pc # "down"
      BY <1>2, <2>2 DEF MsInv, MsHeld, L!Holder
    <3> QED
      BY <1>1, <1>8, <3>1
  <2> QED
    BY <2>1, <2>2
<1>11. ASSUME NEW q \in Sock, NEW n
       PROVE  /\ Unheard(q, n) => Unheard(q, n)'
              /\ q # s => (HeardOnce(q, n) => HeardOnce(q, n)')
  <2>1. CASE q = s
    <3>1. out'[q].msgs = <<init>> /\ got'[q] = got[q]
      BY <1>1, <1>7, <2>1
    <3>2. \A i \in DOMAIN <<init>> : <<init>>[i] = init
      OBVIOUS
    <3>3. ~ OnItsWay(q, n)'
      BY <1>3, <3>1, <3>2 DEF OnItsWay, IsChange
    <3> QED
      BY <2>1, <3>1, <3>3 DEF Unheard
  <2>2. CASE Same(q)
    BY <2>2, HeardSame
  <2>3. CASE Gets(q, news)
    <3>1. ~ IsChange(news, n)
      BY <1>4 DEF IsChange
    <3> QED
      BY <1>1, <1>4, <2>3, <3>1, HeardMore
  <2> QED
    BY <1>7, <2>1, <2>2, <2>3
<1>12. ASSUME NEW q \in Sock, L!Reached(q)', q # s
       PROVE  TabOf[q] # t /\ TabOf[q] \in Tab /\ L!Reached(q) /\ q \notin missed' /\ joined'[q] = joined[q]
  <2>1. now[TabOf[q]].sock = q /\ q \notin missed' /\ TabOf[q] \in Tab
    BY <1>1, <1>12, MessageSizes DEF L!Reached, L!Holder
  <2>2. TabOf[q] # t
    BY <1>2, <1>12, <2>1
  <2>3. L!Reached(q)
    BY <1>2, <1>6, <2>1, <2>2 DEF L!Reached, L!Holder
  <2> QED
    BY <1>1, <1>6, <1>12, <2>1, <2>2, <2>3 DEF MsTyped
<1>13. MsPending' /\ MsKnown' /\ MsHeard'
  <2>1. \A k \in Sock : \A n : Pending(k, n)' <=> Pending(k, n)
    BY <1>1, <1>8 DEF Pending
  <2>2. joined'[s] = Len(shared)
    BY <1>1, <1>6 DEF MsTyped
  <2> QED
    BY <1>1, <1>11, <1>12, <2>1, <2>2, QuietKeeps
<1>14. L!Present' = L!Present \cup {t} /\ L!Present \subseteq Tab
  <2>1. s # NoSock
    BY MessageSizes
  <2> QED
    BY <1>1, <1>2, <2>1 DEF L!Present
<1>15. ASSUME NEW q \in Sock, L!Reached(q)' PROVE Shows(q)'
  <2>1. CASE q = s
    <3>1. L!Soon(q)' = L!handleMessage(shown[s], init)
      <4>1. L!Soon(q)' = L!Reading(shown[s], <<init>>)
        BY <1>1, <1>7, <2>1 DEF L!Soon
      <4>2. L!Reading(shown[s], <<init>>) = L!handleMessage(shown[s], init)
        BY <1>3, ReadOnly
      <4> QED
        BY <4>1, <4>2
    <3>2. L!Soon(q)'.there = init.there /\ L!Soon(q)'.cursor = init.cursor
      BY <1>3, <3>1, HandleWhole
    <3> QED
      BY <1>1, <1>3, <1>14, <3>2 DEF Shows
  <2>2. CASE q # s
    <3>1. Shows(q) /\ L!Reached(q) /\ TabOf[q] # t /\ q \notin missed'
      BY <1>12, <1>15, <2>2 DEF MsInv, MsShown
    <3>2. Gets(q, news)
      BY <1>1, <1>7, <3>1, ReachedIsOther
    <3>3. L!Soon(q)' = L!handleMessage(L!Soon(q), news) /\ L!Soon(q) \in View
      BY <1>1, <1>4, <3>2, SoonIs
    <3>4. /\ L!Soon(q)'.there = L!Soon(q).there \cup {t}
          /\ \A u \in Tab : L!Soon(q)'.cursor[u] =
                 IF u = t /\ u \notin L!Soon(q).there THEN 0 ELSE L!Soon(q).cursor[u]
      BY <1>4, <3>3, HandleJoined
    <3>5. L!Soon(q)'.there = L!Present'
      BY <1>14, <3>1, <3>4 DEF Shows
    <3>6. ASSUME NEW u \in L!Present' \ (redialled' \cup {TabOf[q]})
          PROVE  L!Soon(q)'.cursor[u] = clients'[u].cursor
      <4>1. u \in Tab /\ u \notin redialled
        BY <1>1, <1>6, <1>14, <3>6
      <4>2. CASE u = t
        <5>1. t \notin L!Present
          BY <1>6, <3>6, <4>2
        <5>2. t \notin L!Soon(q).there
          BY <3>1, <5>1 DEF Shows
        <5> QED
          BY <1>1, <1>2, <3>4, <4>1, <4>2, <5>2
      <4>3. CASE u # t
        <5>1. u \in L!Present \ (redialled \cup {TabOf[q]})
          BY <1>14, <3>6, <4>1, <4>3
        <5>2. L!Soon(q).cursor[u] = clients[u].cursor
          BY <3>1, <5>1 DEF Shows
        <5> QED
          BY <1>1, <1>2, <3>4, <4>1, <4>3, <5>2
      <4> QED
        BY <4>2, <4>3
    <3> QED
      BY <3>5, <3>6 DEF Shows
  <2> QED
    BY <2>1, <2>2
<1> QED
  BY <1>9, <1>10, <1>13, <1>15 DEF MsInv, MsShown

LEMMA LeaveKeeps == ASSUME MsInv, NEW s \in Sock, L!leave(s) PROVE MsInv'
<1> DEFINE t == TabOf[s]
           news == [type |-> "left", tab |-> t]
<1>0. PICK k, rest : k = L!Holder(t) /\ rest = L!Bereft(s)
  OBVIOUS
<1>1. /\ MsTyped /\ t \in Tab /\ sock[s].pc = "open"
      /\ UNCHANGED <<shared, joined, frames>>
  BY MessageSizes DEF MsInv, MsTyped, L!leave
<1>2. /\ clients' \in [Tab -> ClientType] /\ clients'[t].sock = NoSock
      /\ \A u \in Tab : u # t => clients'[u] = clients[u]
  <2>1. L!Absent \in ClientType /\ L!Absent.sock = NoSock
    BY DEF L!Absent, ClientType
  <2>2. clients' = [clients EXCEPT ![t] = L!Absent]
    BY DEF L!leave
  <2> QED
    BY <1>1, <2>1, <2>2 DEF MsTyped
<1>3. news \in Named /\ news \in Told /\ news.type # "change" /\ news.type = "left" /\ news.tab = t
  BY <1>1 DEF Named, Told
<1>4. /\ s \notin rest /\ \A q \in rest : q \in Sock /\ TabOf[q] # t
      /\ t \in L!Present => rest = L!Others(t)
  BY <1>0, <1>1, OthersAre DEF L!Bereft
<1>5. /\ out' = [q \in Sock |->
                     CASE q = s -> [msgs |-> <<>>, closed |-> TRUE]
                       [] q = k /\ q # s -> [out[q] EXCEPT !.closed = TRUE]
                       [] q \in rest /\ ~ L!Full(q) -> [out[q] EXCEPT !.msgs = Append(@, news)]
                       [] OTHER -> out[q]]
      /\ missed' = (missed \cup {q \in rest : L!Full(q)}) \ {s}
      /\ shown' = [shown EXCEPT ![s] = L!Blank] /\ got' = [got EXCEPT ![s] = {}]
      /\ redialled' = redialled \ {t}
      /\ sock' = [sock EXCEPT ![s].pc = "gone"]
  BY <1>0 DEF L!leave
<1>6. k \notin rest
  <2>1. k # NoSock => k \in Sock /\ TabOf[k] = t
    BY <1>0, <1>1 DEF MsInv, MsHeld
  <2> QED
    BY <1>4, <2>1, MessageSizes
<1> HIDE DEF news
<1>7. L!Blank \in View
  BY DEF L!Blank, View
<1>8. ASSUME NEW q \in Sock
      PROVE  /\ out'[q] \in OutType
             /\ q = s => out'[q].msgs = <<>> /\ got'[q] = {}
             /\ q # s => (q \notin rest => Same(q))
             /\ q \in rest => Gets(q, news) \/ (Same(q) /\ q \in missed')
  <2>1. out[q] \in OutType
    BY <1>1 DEF MsTyped
  <2>2. /\ [out[q] EXCEPT !.msgs = Append(@, news)] \in OutType
        /\ [out[q] EXCEPT !.msgs = Append(@, news)].msgs = Append(out[q].msgs, news)
    <3>1. Append(out[q].msgs, news) \in Seq(Told)
      BY <1>3, <2>1 DEF OutType
    <3> QED
      BY <2>1, <3>1 DEF OutType
  <2>3. <<>> \in Seq(Told)
    OBVIOUS
  <2>4. /\ [out[q] EXCEPT !.closed = TRUE] \in OutType
        /\ [out[q] EXCEPT !.closed = TRUE].msgs = out[q].msgs
    BY <2>1 DEF OutType
  <2>5. q # s => shown'[q] = shown[q] /\ got'[q] = got[q]
    BY <1>1, <1>5 DEF MsTyped
  <2>6. CASE q = s
    <3>1. out'[q] = [msgs |-> <<>>, closed |-> TRUE] /\ got'[q] = {}
      BY <1>1, <1>4, <1>5, <2>6 DEF MsTyped
    <3> QED
      BY <1>4, <2>3, <2>6, <3>1 DEF OutType
  <2>7. CASE q # s /\ q = k
    <3>1. out'[q] = [out[q] EXCEPT !.closed = TRUE]
      BY <1>5, <1>6, <2>7
    <3> QED
      BY <1>6, <2>4, <2>5, <2>7, <3>1 DEF Same
  <2>8. CASE q # s /\ q # k /\ q \in rest /\ ~ L!Full(q)
    <3>1. out'[q] = [out[q] EXCEPT !.msgs = Append(@, news)]
      BY <1>5, <2>8
    <3> QED
      BY <2>2, <2>5, <2>8, <3>1 DEF Gets
  <2>9. CASE q # s /\ q # k /\ ~ (q \in rest /\ ~ L!Full(q))
    <3>1. out'[q] = out[q]
      BY <1>5, <2>9
    <3> QED
      BY <1>5, <2>1, <2>5, <2>9, <3>1 DEF Same
  <2> QED
    BY <1>4, <1>6, <2>6, <2>7, <2>8, <2>9
<1>9. /\ sock' \in [Sock -> SockType] /\ sock'[s].pc = "gone"
      /\ \A q \in Sock : q # s => sock'[q] = sock[q]
  BY <1>1, <1>5 DEF MsTyped, SockType
<1>10. MsTyped'
  <2>1. out' \in [Sock -> OutType]
    <3>1. out' = [q \in Sock |-> out'[q]]
      BY <1>5
    <3> QED
      BY <1>8, <3>1
  <2>2. missed' \subseteq Sock /\ redialled' \subseteq Tab
    BY <1>1, <1>4, <1>5 DEF MsTyped
  <2>3. shown' \in [Sock -> View] /\ got' \in [Sock -> SUBSET Nat]
    BY <1>1, <1>5, <1>7 DEF MsTyped
  <2> QED
    BY <1>1, <1>2, <1>9, <2>1, <2>2, <2>3 DEF MsTyped
<1>11. MsHeld'
  <2> SUFFICES ASSUME NEW u \in Tab, clients'[u].sock # NoSock
               PROVE  /\ clients'[u].sock \in Sock /\ TabOf[clients'[u].sock] = u
                      /\ sock'[clients'[u].sock].pc # "down"
    BY DEF MsHeld, L!Holder
  <2>1. u # t
    BY <1>2
  <2>2. /\ clients'[u].sock = clients[u].sock /\ clients[u].sock \in Sock /\ TabOf[clients[u].sock] = u
        /\ sock[clients[u].sock].pc # "down"
    BY <1>2, <2>1 DEF MsInv, MsHeld, L!Holder
  <2> QED
    BY <1>9, <2>2
<1>12. ASSUME NEW q \in Sock, NEW n
       PROVE  /\ Unheard(q, n) => Unheard(q, n)'
              /\ q # s => (HeardOnce(q, n) => HeardOnce(q, n)')
  <2>1. CASE q = s
    <3>1. out'[q].msgs = <<>> /\ got'[q] = {}
      BY <1>8, <2>1
    <3> QED
      BY <2>1, <3>1 DEF Unheard, OnItsWay
  <2>2. CASE Same(q)
    BY <2>2, HeardSame
  <2>3. CASE Gets(q, news)
    <3>1. ~ IsChange(news, n)
      BY <1>3 DEF IsChange
    <3> QED
      BY <1>1, <1>3, <2>3, <3>1, HeardMore
  <2> QED
    BY <1>8, <2>1, <2>2, <2>3
<1>13. ASSUME NEW q \in Sock, L!Reached(q)'
       PROVE  q # s /\ TabOf[q] # t /\ TabOf[q] \in Tab /\ L!Reached(q) /\ q \notin missed'
  <2>1. clients'[TabOf[q]].sock = q /\ q \notin missed' /\ TabOf[q] \in Tab /\ q # NoSock
    BY <1>13, MessageSizes DEF L!Reached, L!Holder
  <2>2. TabOf[q] # t
    BY <1>2, <2>1
  <2>3. q # s
    BY <2>2
  <2>4. L!Reached(q)
    BY <1>2, <1>5, <2>1, <2>2, <2>3 DEF L!Reached, L!Holder
  <2> QED
    BY <2>1, <2>2, <2>3, <2>4
<1>14. MsPending' /\ MsKnown' /\ MsHeard'
  <2>1. \A q \in Sock : \A n : Pending(q, n)' <=> Pending(q, n)
    BY <1>1, <1>9 DEF Pending
  <2> QED
    BY <1>1, <1>12, <1>13, <2>1, QuietKeeps
<1>15. L!Present' = L!Present \ {t} /\ L!Present \subseteq Tab
  BY <1>1, <1>2 DEF L!Present
<1>16. ASSUME NEW q \in Sock, L!Reached(q)' PROVE Shows(q)'
  <2>1. Shows(q) /\ L!Reached(q) /\ q # s /\ TabOf[q] # t /\ q \notin missed'
    BY <1>13, <1>16 DEF MsInv, MsShown
  <2>2. L!Soon(q)'.there = L!Soon(q).there \ {t}
        /\ \A u \in Tab : u # t => L!Soon(q)'.cursor[u] = L!Soon(q).cursor[u]
    <3>1. CASE t \in L!Present
      <4>1. Gets(q, news)
        BY <1>1, <1>4, <1>8, <2>1, <3>1, ReachedIsOther
      <4>2. L!Soon(q)' = L!handleMessage(L!Soon(q), news) /\ L!Soon(q) \in View
        BY <1>1, <1>3, <4>1, SoonIs
      <4> QED
        BY <1>3, <4>2, HandleLeft
    <3>2. CASE t \notin L!Present
      <4>1. rest = {}
        BY <1>0, <3>2 DEF L!Bereft
      <4>2. Same(q)
        BY <1>8, <2>1, <4>1
      <4>3. L!Soon(q)' = L!Soon(q)
        BY <1>1, <4>2, SoonIs
      <4>4. t \notin L!Soon(q).there
        BY <2>1, <3>2 DEF Shows
      <4> QED
        BY <4>3, <4>4
    <3> QED
      BY <3>1, <3>2
  <2>3. L!Soon(q)'.there = L!Present'
    BY <1>15, <2>1, <2>2 DEF Shows
  <2>4. ASSUME NEW u \in L!Present' \ (redialled' \cup {TabOf[q]})
        PROVE  L!Soon(q)'.cursor[u] = clients'[u].cursor
    <3>1. u \in Tab /\ u # t /\ u \in L!Present \ (redialled \cup {TabOf[q]})
      BY <1>5, <1>15, <2>4
    <3>2. L!Soon(q).cursor[u] = clients[u].cursor
      BY <2>1, <3>1 DEF Shows
    <3> QED
      BY <1>2, <2>2, <3>1, <3>2
  <2> QED
    BY <2>3, <2>4 DEF Shows
<1> QED
  BY <1>10, <1>11, <1>14, <1>16 DEF MsInv, MsShown

LEMMA MsStep == ASSUME MsInv, L!MessagesNext \/ UNCHANGED liveVars PROVE MsInv'
<1>1. CASE UNCHANGED liveVars
  <2>1. UNCHANGED <<clients, sock, out, shown, shared, joined, got, missed, redialled, frames>>
    BY <1>1 DEF liveVars
  <2>2. MsTyped'
    BY <2>1 DEF MsInv, MsTyped
  <2>3. MsHeld' /\ MsPending' /\ MsKnown' /\ MsHeard'
    BY <2>1 DEF MsInv, MsHeld, MsPending, MsKnown, MsHeard, L!Holder, L!Reached, Pending, Hears,
                Unheard, HeardOnce, OnItsWay
  <2>4. MsShown'
    BY <2>1 DEF MsInv, MsShown, Shows, L!Reached, L!Holder, L!Soon, L!Present
  <2> QED
    BY <2>2, <2>3, <2>4 DEF MsInv
<1>2. CASE L!MessagesNext
  BY <1>2, JoinKeeps, LeaveKeeps, WritePumpKeeps, ApplyKeeps, AckKeeps, BroadcastKeeps,
     UpdateCursorKeeps DEF L!MessagesNext
<1> QED
  BY <1>1, <1>2

LEMMA SocksCount == \A S : L!Cardinality(S) = Cardinality(S)
BY DEF L!Cardinality, Cardinality

LEMMA MsShows == MsInv => L!PresenceIsTrue /\ L!NobodyMissesAChange
<1> SUFFICES ASSUME MsInv PROVE L!NobodyMissesAChange
  BY PresenceShown DEF MsInv
<1> SUFFICES ASSUME NEW s \in Sock, L!Reached(s), NEW n \in joined[s] + 1..Len(shared), HeardOnce(s, n)
             PROVE  Cardinality({i \in DOMAIN out[s].msgs : IsChange(out[s].msgs[i], n)})
                      + Cardinality(got[s] \cap {n}) = 1
  BY SocksCount DEF L!NobodyMissesAChange, MsInv, MsHeard, Hears, Pending, IsChange
<1> DEFINE way == {i \in DOMAIN out[s].msgs : IsChange(out[s].msgs[i], n)}
<1>1. CASE n \in got[s] /\ ~ OnItsWay(s, n)
  <2>1. way = {} /\ got[s] \cap {n} = {n}
    BY <1>1 DEF OnItsWay
  <2>2. Cardinality(way) = 0 /\ Cardinality(got[s] \cap {n}) = 1
    BY <2>1, FS_EmptySet, FS_Singleton
  <2> QED
    BY <2>2
<1>2. ASSUME n \notin got[s],
             NEW i \in DOMAIN out[s].msgs,
             \A j \in DOMAIN out[s].msgs : IsChange(out[s].msgs[j], n) <=> j = i
      PROVE  Cardinality(way) + Cardinality(got[s] \cap {n}) = 1
  <2>1. way = {i} /\ got[s] \cap {n} = {}
    BY <1>2
  <2>2. Cardinality(way) = 1 /\ Cardinality(got[s] \cap {n}) = 0
    BY <2>1, FS_EmptySet, FS_Singleton
  <2> QED
    BY <2>2
<1> QED
  BY <1>1, <1>2 DEF HeardOnce

-----------------------------------------------------------------------------
(***************************************************************************)
(* The transform. A position is carried over the changes its sender had not *)
(* seen by a recursive function, so what it is after each of them is an     *)
(* induction on how many it was carried over (Climb), along the texts those *)
(* changes made.                                                            *)
(***************************************************************************)
Char == [by : Nat, i : Nat]
Op == [type : {"insert", "delete", "retain"}, pos : Nat, len : Nat \ {0}]
Logged == [version : Nat, op : Op]

TfTyped ==
    /\ version \in Nat /\ history \in Seq(Logged) /\ texts \in Seq(Seq(Char))
    /\ Len(texts) = version + 1

\* The history is the last changes in their order, and each text is what its
\* change made of the text before.
TfLog ==
    /\ Len(history) = IF version <= HistoryCap THEN version ELSE HistoryCap
    /\ \A n \in DOMAIN history :
          LET v == history[n].version
          IN /\ v = version - Len(history) + n
             /\ texts[v + 1] = T!Applied(texts[v], history[n].op, v)

\* No character is twice in a text, and each is of a change made before it.
OfBefore(text, k) == \A i \in DOMAIN text : text[i].by < k
Distinct(text) == \A i, j \in DOMAIN text : text[i] = text[j] => i = j

TfOrigin == \A k \in DOMAIN texts : OfBefore(texts[k], k) /\ Distinct(texts[k])

TfInv == TfTyped /\ TfLog /\ TfOrigin /\ T!PlaceKept

LEMMA TransformSizesHold == Start \in Nat /\ Width \in Nat \ {0} /\ HistoryCap \in Nat \ {0}
BY DeliveryAssumption DEF T!TransformSizes

-----------------------------------------------------------------------------
\* Where each character of the text after an operation comes from.
Cut(text, op) == IF op.pos > Len(text) THEN Len(text) ELSE op.pos

Stays(next, text, j) == j \in DOMAIN text /\ next[j] = text[j]

Grown(next, text, op, by) ==
    /\ Len(next) = Len(text) + op.len
    /\ \A j \in DOMAIN next :
          \/ j <= Cut(text, op) /\ Stays(next, text, j)
          \/ j > Cut(text, op) /\ next[j] = [by |-> by, i |-> j - Cut(text, op)]
          \/ j > Cut(text, op) + op.len /\ j - op.len \in DOMAIN text /\ next[j] = text[j - op.len]

Shrunk(next, text, op) ==
    /\ Len(next) = IF Cut(text, op) + op.len > Len(text) THEN Cut(text, op) ELSE Len(text) - op.len
    /\ \A j \in DOMAIN next :
          \/ j <= Cut(text, op) /\ Stays(next, text, j)
          \/ j > Cut(text, op) /\ j + op.len \in DOMAIN text /\ next[j] = text[j + op.len]

LEMMA InsertGrows ==
    ASSUME NEW text \in Seq(Char), NEW op \in Op, NEW by \in Nat, op.type = "insert"
    PROVE  T!Applied(text, op, by) \in Seq(Char) /\ Grown(T!Applied(text, op, by), text, op, by)
<1>1. PICK cut : cut = Cut(text, op)
  OBVIOUS
<1>2. PICK len, size : len = op.len /\ size = Len(text)
  OBVIOUS
<1>3. cut \in Nat /\ cut <= size /\ len \in Nat \ {0} /\ size \in Nat
  BY <1>1, <1>2 DEF Cut, Op
<1>4. PICK a, b, c : /\ a = SubSeq(text, 1, cut)
                     /\ b = [i \in 1..len |-> [by |-> by, i |-> i]]
                     /\ c = SubSeq(text, cut + 1, size)
  OBVIOUS
<1>5. a \in Seq(Char) /\ Len(a) = cut /\ \A j \in 1..cut : a[j] = text[j]
  BY <1>2, <1>3, <1>4
<1>6. b \in Seq(Char) /\ Len(b) = len /\ \A j \in 1..len : b[j] = [by |-> by, i |-> j]
  <2>1. \A j \in 1..len : b[j] = [by |-> by, i |-> j] /\ b[j] \in Char
    BY <1>3, <1>4 DEF Char
  <2>2. b \in [1..len -> Char]
    BY <1>4, <2>1
  <2> QED
    BY <1>3, <1>4, <2>1, <2>2
<1>7. c \in Seq(Char) /\ Len(c) = size - cut /\ \A j \in 1..(size - cut) : c[j] = text[cut + j]
  BY <1>2, <1>3, <1>4
<1>8. T!Applied(text, op, by) = a \o b \o c
  BY <1>1, <1>2, <1>4 DEF T!Applied, Cut
<1>9. PICK d : d = a \o b
  OBVIOUS
<1>10. /\ d \in Seq(Char) /\ Len(d) = cut + len
       /\ \A j \in 1..(cut + len) : d[j] = IF j <= cut THEN a[j] ELSE b[j - cut]
  <2>1. a \in Seq(Char) /\ b \in Seq(Char) /\ Len(a) = cut /\ Len(b) = len
    BY <1>5, <1>6
  <2>2. /\ a \o b \in Seq(Char) /\ Len(a \o b) = cut + len
        /\ \A j \in 1..(cut + len) : (a \o b)[j] = IF j <= cut THEN a[j] ELSE b[j - cut]
    BY <2>1, JoinedEnds
  <2> QED
    BY <1>9, <2>2
<1>11. PICK e : e = d \o c
  OBVIOUS
<1>12. /\ e \in Seq(Char) /\ Len(e) = size + len
       /\ \A j \in 1..(size + len) : e[j] = IF j <= cut + len THEN d[j] ELSE c[j - (cut + len)]
  <2>1. (cut + len) + (size - cut) = size + len
    BY <1>3
  <2>2. Len(d) = cut + len /\ Len(c) = size - cut /\ d \in Seq(Char) /\ c \in Seq(Char)
    BY <1>7, <1>10
  <2>3. /\ d \o c \in Seq(Char) /\ Len(d \o c) = (cut + len) + (size - cut)
        /\ \A j \in 1..((cut + len) + (size - cut)) :
              (d \o c)[j] = IF j <= cut + len THEN d[j] ELSE c[j - (cut + len)]
    BY <2>2, JoinedEnds
  <2> QED
    BY <1>11, <2>1, <2>3
<1>13. ASSUME NEW j \in 1..(size + len)
       PROVE  \/ j <= cut /\ j \in 1..size /\ e[j] = text[j]
              \/ j > cut /\ e[j] = [by |-> by, i |-> j - cut]
              \/ j > cut + len /\ j - len \in 1..size /\ e[j] = text[j - len]
  <2>1. CASE j <= cut
    <3>1. j \in 1..cut /\ j \in 1..(cut + len) /\ j \in 1..size /\ j <= cut + len
      BY <1>3, <2>1
    <3> QED
      BY <1>5, <1>10, <1>12, <2>1, <3>1
  <2>2. CASE j > cut /\ j <= cut + len
    <3>1. j \in 1..(cut + len) /\ ~ (j <= cut) /\ j - cut \in 1..len
      BY <1>3, <2>2
    <3> QED
      BY <1>6, <1>10, <1>12, <2>2, <3>1
  <2>3. CASE j > cut + len
    <3>1. /\ ~ (j <= cut + len) /\ j - (cut + len) \in 1..(size - cut)
          /\ cut + (j - (cut + len)) = j - len /\ j - len \in 1..size
      BY <1>3, <2>3
    <3> QED
      BY <1>7, <1>12, <2>3, <3>1
  <2> QED
    BY <1>3, <2>1, <2>2, <2>3
<1>14. DOMAIN e = 1..(size + len) /\ DOMAIN text = 1..size
  BY <1>2, <1>12
<1>15. Grown(e, text, op, by)
  BY <1>1, <1>2, <1>12, <1>13, <1>14 DEF Grown, Stays
<1> QED
  BY <1>8, <1>9, <1>11, <1>12, <1>15

LEMMA DeleteShrinks ==
    ASSUME NEW text \in Seq(Char), NEW op \in Op, NEW by \in Nat, op.type = "delete"
    PROVE  T!Applied(text, op, by) \in Seq(Char) /\ Shrunk(T!Applied(text, op, by), text, op)
<1>1. PICK cut : cut = Cut(text, op)
  OBVIOUS
<1>2. PICK len, size : len = op.len /\ size = Len(text)
  OBVIOUS
<1>3. cut \in Nat /\ cut <= size /\ len \in Nat \ {0} /\ size \in Nat
  BY <1>1, <1>2 DEF Cut, Op
<1>4. PICK a, c : a = SubSeq(text, 1, cut) /\ c = SubSeq(text, cut + len + 1, size)
  OBVIOUS
<1>5. a \in Seq(Char) /\ Len(a) = cut /\ \A j \in 1..cut : a[j] = text[j]
  BY <1>2, <1>3, <1>4
<1>6. PICK left : left = IF cut + len > size THEN 0 ELSE size - (cut + len)
  OBVIOUS
<1>7. c \in Seq(Char) /\ Len(c) = left /\ left \in Nat /\ \A j \in 1..left : c[j] = text[cut + len + j]
  <2>1. CASE cut + len > size
    <3>1. c \in Seq(Char) /\ Len(c) = 0
      BY <1>2, <1>3, <1>4, <2>1
    <3> QED
      BY <1>6, <2>1, <3>1
  <2>2. CASE ~ (cut + len > size)
    <3>1. PICK from : from = cut + len + 1 /\ from \in Nat \ {0} /\ from <= size + 1
      BY <1>3, <2>2
    <3>2. c = SubSeq(text, from, size) /\ size = Len(text)
      BY <1>2, <1>4, <3>1
    <3>3. /\ c \in Seq(Char) /\ Len(c) = size - from + 1
          /\ \A j \in 1..(size - from + 1) : c[j] = text[from + j - 1]
      BY <1>3, <3>1, <3>2
    <3>4. left = size - from + 1 /\ left \in Nat /\ \A j \in Nat : from + j - 1 = cut + len + j
      BY <1>3, <1>6, <2>2, <3>1
    <3> QED
      BY <3>3, <3>4
  <2> QED
    BY <2>1, <2>2
<1>8. T!Applied(text, op, by) = a \o c
  BY <1>1, <1>2, <1>4 DEF T!Applied, Cut
<1>9. PICK e : e = a \o c
  OBVIOUS
<1>10. /\ e \in Seq(Char) /\ Len(e) = cut + left
       /\ \A j \in 1..(cut + left) : e[j] = IF j <= cut THEN a[j] ELSE c[j - cut]
  <2>1. a \in Seq(Char) /\ c \in Seq(Char) /\ Len(a) = cut /\ Len(c) = left
    BY <1>5, <1>7
  <2>2. /\ a \o c \in Seq(Char) /\ Len(a \o c) = cut + left
        /\ \A j \in 1..(cut + left) : (a \o c)[j] = IF j <= cut THEN a[j] ELSE c[j - cut]
    BY <2>1, JoinedEnds
  <2> QED
    BY <1>9, <2>2
<1>11. ASSUME NEW j \in 1..(cut + left)
       PROVE  \/ j <= cut /\ j \in 1..size /\ e[j] = text[j]
              \/ j > cut /\ j + len \in 1..size /\ e[j] = text[j + len]
  <2>1. CASE j <= cut
    <3>1. j \in 1..cut /\ j \in 1..size
      BY <1>3, <2>1
    <3> QED
      BY <1>5, <1>10, <2>1, <3>1
  <2>2. CASE j > cut
    <3>1. j - cut \in 1..left /\ cut + len + (j - cut) = j + len /\ j + len \in 1..size /\ ~ (j <= cut)
      BY <1>3, <1>6, <1>7, <2>2
    <3> QED
      BY <1>7, <1>10, <2>2, <3>1
  <2> QED
    BY <1>3, <1>7, <2>1, <2>2
<1>12. DOMAIN e = 1..(cut + left) /\ DOMAIN text = 1..size
  BY <1>2, <1>10
<1>13. cut + left = IF cut + len > size THEN cut ELSE size - len
  BY <1>3, <1>6
<1>14. Shrunk(e, text, op)
  BY <1>1, <1>2, <1>10, <1>11, <1>12, <1>13 DEF Shrunk, Stays
<1> QED
  BY <1>8, <1>9, <1>10, <1>14

LEMMA AppliedKeeps ==
    ASSUME NEW text, NEW op, NEW by, op.type \notin {"insert", "delete"}
    PROVE  T!Applied(text, op, by) = text
BY DEF T!Applied

LEMMA AppliedTyped ==
    ASSUME NEW text \in Seq(Char), NEW op \in Op, NEW by \in Nat
    PROVE  T!Applied(text, op, by) \in Seq(Char)
<1>1. CASE op.type = "insert"
  BY <1>1, InsertGrows
<1>2. CASE op.type = "delete"
  BY <1>2, DeleteShrinks
<1>3. CASE op.type \notin {"insert", "delete"}
  BY <1>3, AppliedKeeps
<1> QED
  BY <1>1, <1>2, <1>3

-----------------------------------------------------------------------------
\* Before and after a place in one text are before and after a place in another.
Agrees(saw, p, met, q) ==
    /\ q \in Nat /\ q <= Len(met)
    /\ \A i \in DOMAIN saw : \A j \in DOMAIN met : saw[i] = met[j] => (i <= p <=> j <= q)

\* A change that makes new characters only, moves a place as it moves them.
LEMMA ShiftAgrees ==
    ASSUME NEW saw, NEW p, NEW text \in Seq(Char), NEW q, Agrees(saw, p, text, q),
           NEW op \in Op, NEW by \in Nat, OfBefore(saw, by)
    PROVE  Agrees(saw, p, T!Applied(text, op, by), T!Shifted(q, op))
<1>1. PICK len, size, c, cut, to, next :
          /\ len = op.len /\ size = Len(text) /\ c = op.pos /\ cut = Cut(text, op)
          /\ to = T!Shifted(q, op) /\ next = T!Applied(text, op, by)
  OBVIOUS
<1>2. /\ len \in Nat \ {0} /\ size \in Nat /\ c \in Nat /\ cut = IF c > size THEN size ELSE c
      /\ q \in Nat /\ q <= size /\ DOMAIN text = 1..size
      /\ \A i \in DOMAIN saw : \A j \in 1..size : saw[i] = text[j] => (i <= p <=> j <= q)
  BY <1>1 DEF Cut, Op, Agrees
<1>3. CASE op.type = "insert"
  <2>1. /\ next \in Seq(Char) /\ Len(next) = size + len /\ DOMAIN next = 1..(size + len)
        /\ \A j \in 1..(size + len) :
              \/ j <= cut /\ j \in 1..size /\ next[j] = text[j]
              \/ j > cut /\ next[j] = [by |-> by, i |-> j - cut]
              \/ j > cut + len /\ j - len \in 1..size /\ next[j] = text[j - len]
    <3>1. next \in Seq(Char) /\ Grown(next, text, op, by)
      BY <1>1, <1>3, InsertGrows
    <3>2. Len(next) = size + len /\ DOMAIN next = 1..(size + len)
      BY <1>1, <3>1 DEF Grown
    <3> QED
      BY <1>1, <1>2, <3>1, <3>2 DEF Grown, Stays
  <2>2. to = IF c <= q THEN q + len ELSE q
    BY <1>1, <1>2, <1>3 DEF T!Shifted
  <2>3. to \in Nat /\ to <= Len(next)
    BY <1>2, <2>1, <2>2
  <2>4. ASSUME NEW i \in DOMAIN saw, NEW j \in 1..(size + len), saw[i] = next[j]
        PROVE  i <= p <=> j <= to
    <3>1. CASE j <= cut /\ j \in 1..size /\ next[j] = text[j]
      <4>1. i <= p <=> j <= q
        BY <1>2, <2>4, <3>1
      <4>2. j <= q <=> j <= to
        BY <1>2, <2>2, <3>1
      <4> QED
        BY <4>1, <4>2
    <3>2. CASE j > cut /\ next[j] = [by |-> by, i |-> j - cut]
      <4>1. saw[i].by < saw[i].by /\ saw[i].by \in Nat
        BY <2>1, <2>4, <3>2 DEF OfBefore
      <4> QED
        BY <4>1
    <3>3. CASE j > cut + len /\ j - len \in 1..size /\ next[j] = text[j - len]
      <4>1. i <= p <=> j - len <= q
        BY <1>2, <2>4, <3>3
      <4>2. j - len <= q <=> j <= to
        BY <1>2, <2>2, <3>3
      <4> QED
        BY <4>1, <4>2
    <3> QED
      BY <2>1, <2>4, <3>1, <3>2, <3>3
  <2> QED
    BY <1>1, <2>1, <2>3, <2>4 DEF Agrees
<1>4. CASE op.type = "delete"
  <2>1. PICK left : left = IF cut + len > size THEN cut ELSE size - len
    OBVIOUS
  <2>2. /\ next \in Seq(Char) /\ Len(next) = left /\ DOMAIN next = 1..left
        /\ \A j \in 1..left :
              \/ j <= cut /\ j \in 1..size /\ next[j] = text[j]
              \/ j > cut /\ j + len \in 1..size /\ next[j] = text[j + len]
    <3>1. next \in Seq(Char) /\ Shrunk(next, text, op)
      BY <1>1, <1>4, DeleteShrinks
    <3>2. Len(next) = left /\ DOMAIN next = 1..left
      BY <1>1, <2>1, <3>1 DEF Shrunk
    <3> QED
      BY <1>1, <1>2, <3>1, <3>2 DEF Shrunk, Stays
  <2>3. to = IF c < q THEN (IF q - len < c THEN c ELSE q - len) ELSE q
    BY <1>1, <1>2, <1>4 DEF T!Shifted
  <2>4. to \in Nat /\ to <= Len(next)
    BY <1>2, <2>1, <2>2, <2>3
  <2>5. ASSUME NEW i \in DOMAIN saw, NEW j \in 1..left, saw[i] = next[j]
        PROVE  i <= p <=> j <= to
    <3>1. CASE j <= cut /\ j \in 1..size /\ next[j] = text[j]
      <4>1. i <= p <=> j <= q
        BY <1>2, <2>5, <3>1
      <4>2. j <= q <=> j <= to
        BY <1>2, <2>3, <3>1
      <4> QED
        BY <4>1, <4>2
    <3>2. CASE j > cut /\ j + len \in 1..size /\ next[j] = text[j + len]
      <4>1. i <= p <=> j + len <= q
        BY <1>2, <2>5, <3>2
      <4>2. j + len <= q <=> j <= to
        BY <1>2, <2>3, <3>2
      <4> QED
        BY <4>1, <4>2
    <3> QED
      BY <2>2, <2>5, <3>1, <3>2
  <2> QED
    BY <1>1, <2>2, <2>4, <2>5 DEF Agrees
<1>5. CASE op.type = "retain"
  <2>1. next = text /\ to = q
    BY <1>1, <1>5, AppliedKeeps DEF T!Shifted
  <2> QED
    BY <1>1, <2>1
<1> QED
  BY <1>3, <1>4, <1>5 DEF Op

LEMMA AppliedDistinct ==
    ASSUME NEW text \in Seq(Char), NEW op \in Op, NEW by \in Nat,
           OfBefore(text, by), Distinct(text)
    PROVE  OfBefore(T!Applied(text, op, by), by + 1) /\ Distinct(T!Applied(text, op, by))
<1>1. PICK len, size, cut, next :
          /\ len = op.len /\ size = Len(text) /\ cut = Cut(text, op)
          /\ next = T!Applied(text, op, by)
  OBVIOUS
<1>2. /\ len \in Nat \ {0} /\ size \in Nat /\ cut \in Nat /\ DOMAIN text = 1..size
      /\ \A j \in 1..size : text[j] \in Char /\ text[j].by \in Nat /\ text[j].by < by
      /\ \A i, j \in 1..size : text[i] = text[j] => i = j
  <2>1. len \in Nat \ {0} /\ size \in Nat /\ cut \in Nat /\ DOMAIN text = 1..size
    BY <1>1 DEF Cut, Op
  <2>2. \A j \in 1..size : text[j] \in Char /\ text[j].by < by
    BY <2>1 DEF OfBefore
  <2>3. \A j \in 1..size : text[j].by \in Nat
    BY <2>2 DEF Char
  <2>4. \A i, j \in 1..size : text[i] = text[j] => i = j
    BY <2>1 DEF Distinct
  <2> QED
    BY <2>1, <2>2, <2>3, <2>4
<1>3. CASE op.type = "insert"
  <2>1. /\ DOMAIN next = 1..(size + len)
        /\ \A j \in 1..(size + len) :
              \/ j <= cut /\ j \in 1..size /\ next[j] = text[j]
              \/ j > cut /\ next[j] = [by |-> by, i |-> j - cut]
              \/ j > cut + len /\ j - len \in 1..size /\ next[j] = text[j - len]
    <3>1. next \in Seq(Char) /\ Grown(next, text, op, by)
      BY <1>1, <1>3, InsertGrows
    <3>2. Len(next) = size + len /\ DOMAIN next = 1..(size + len)
      BY <1>1, <3>1 DEF Grown
    <3> QED
      BY <1>1, <1>2, <3>1, <3>2 DEF Grown, Stays
  <2>2. ASSUME NEW j \in 1..(size + len) PROVE next[j].by < by + 1
    BY <1>2, <2>1
  <2>3. ASSUME NEW i \in 1..(size + len), NEW j \in 1..(size + len), next[i] = next[j], next[i].by = by
        PROVE  i = j
    <3>1. ASSUME NEW k \in 1..(size + len), next[k].by = by
          PROVE  next[k] = [by |-> by, i |-> k - cut]
      <4>1. \A m \in 1..size : text[m].by # by
        BY <1>2
      <4> QED
        BY <2>1, <3>1, <4>1
    <3>2. next[i].i = i - cut /\ next[j].i = j - cut
      <4>1. next[j].by = by
        BY <2>3
      <4>2. next[i] = [by |-> by, i |-> i - cut]
        BY <2>3, <3>1
      <4>3. next[j] = [by |-> by, i |-> j - cut]
        BY <3>1, <4>1
      <4> QED
        BY <4>2, <4>3
    <3>3. i - cut = j - cut
      BY <2>3, <3>2
    <3> QED
      BY <1>2, <3>3
  <2>4. ASSUME NEW i \in 1..(size + len), NEW j \in 1..(size + len), next[i] = next[j], next[i].by # by
        PROVE  i = j
    <3>1. ASSUME NEW k \in 1..(size + len), next[k].by # by
          PROVE  \/ k <= cut /\ k \in 1..size /\ next[k] = text[k]
                 \/ k > cut + len /\ k - len \in 1..size /\ next[k] = text[k - len]
      BY <2>1, <3>1
    <3> QED
      BY <1>2, <2>4, <3>1
  <2> QED
    BY <1>1, <2>1, <2>2, <2>3, <2>4 DEF OfBefore, Distinct
<1>4. CASE op.type = "delete"
  <2>1. PICK left : left = IF cut + len > size THEN cut ELSE size - len
    OBVIOUS
  <2>2. /\ DOMAIN next = 1..left
        /\ \A j \in 1..left :
              \/ j <= cut /\ j \in 1..size /\ next[j] = text[j]
              \/ j > cut /\ j + len \in 1..size /\ next[j] = text[j + len]
    <3>1. next \in Seq(Char) /\ Shrunk(next, text, op)
      BY <1>1, <1>4, DeleteShrinks
    <3>2. Len(next) = left /\ DOMAIN next = 1..left
      BY <1>1, <2>1, <3>1 DEF Shrunk
    <3> QED
      BY <1>1, <1>2, <3>1, <3>2 DEF Shrunk, Stays
  <2>3. ASSUME NEW j \in 1..left PROVE next[j].by < by + 1
    BY <1>2, <2>2
  <2>4. ASSUME NEW i \in 1..left, NEW j \in 1..left, next[i] = next[j] PROVE i = j
    BY <1>2, <2>2, <2>4
  <2> QED
    BY <1>1, <2>2, <2>3, <2>4 DEF OfBefore, Distinct
<1>5. CASE op.type = "retain"
  <2>1. next = text
    BY <1>1, <1>5, AppliedKeeps
  <2>2. \A j \in 1..size : text[j].by < by + 1
    BY <1>2
  <2> QED
    BY <1>1, <1>2, <2>1, <2>2 DEF OfBefore, Distinct
<1> QED
  BY <1>3, <1>4, <1>5 DEF Op

-----------------------------------------------------------------------------
\* w is where the place is after each change of the history, from op's.
Carried(w, n, base, op) ==
    IF n = 0 THEN op.pos
    ELSE IF history[n].version <= base THEN w[n - 1]
    ELSE T!Shifted(w[n - 1], history[n].op)

CarriesTo(w, base, op, k) == w = [n \in 0..k |-> Carried(w, n, base, op)]

LEMMA SomeCarrying ==
    ASSUME NEW base, NEW op, Len(history) \in Nat
    PROVE  \E w : CarriesTo(w, base, op, Len(history))
<1>0. PICK most : most = Len(history)
  OBVIOUS
<1> DEFINE S == {k \in 0..most : \E w : CarriesTo(w, base, op, k)}
<1>1. 0 \in S
  <2>1. PICK w : w = [n \in 0..0 |-> op.pos]
    OBVIOUS
  <2>2. CarriesTo(w, base, op, 0)
    BY <2>1 DEF CarriesTo, Carried
  <2> QED
    BY <1>0, <2>2
<1>2. ASSUME NEW k \in 0..most, k \in S, k < most PROVE k + 1 \in S
  <2>1. PICK w : CarriesTo(w, base, op, k)
    BY <1>2
  <2>2. PICK x : x = [n \in 0..(k + 1) |-> IF n = k + 1 THEN Carried(w, k + 1, base, op) ELSE w[n]]
    OBVIOUS
  <2>3. ASSUME NEW n \in 0..(k + 1) PROVE x[n] = Carried(x, n, base, op)
    <3>1. CASE n = k + 1
      <4>1. n - 1 = k /\ x[k] = w[k] /\ n # 0 /\ x[n] = Carried(w, k + 1, base, op)
        BY <1>2, <2>2, <3>1
      <4> QED
        BY <3>1, <4>1 DEF Carried
    <3>2. CASE n # k + 1
      <4>1. n \in 0..k /\ (n # 0 => n - 1 \in 0..k /\ n - 1 \in 0..(k + 1) /\ n - 1 # k + 1)
        BY <1>2, <3>2
      <4>2. x[n] = w[n] /\ (n # 0 => x[n - 1] = w[n - 1])
        BY <2>2, <3>2, <4>1
      <4>3. w[n] = Carried(w, n, base, op)
        BY <2>1, <4>1 DEF CarriesTo
      <4> QED
        BY <4>2, <4>3 DEF Carried
    <3> QED
      BY <3>1, <3>2
  <2>4. CarriesTo(x, base, op, k + 1)
    BY <2>2, <2>3 DEF CarriesTo
  <2>5. k + 1 \in 0..most
    BY <1>0, <1>2
  <2> QED
    BY <2>4, <2>5
<1> HIDE DEF S
<1>3. 0..most \subseteq S
  BY <1>0, <1>1, <1>2, Climb
<1>4. most \in S
  BY <1>0, <1>3
<1> QED
  BY <1>0, <1>4 DEF S

LEMMA RebasedIs ==
    ASSUME NEW base, NEW op, Len(history) \in Nat
    PROVE  \E w : /\ \A n \in 0..Len(history) : w[n] = Carried(w, n, base, op)
                  /\ T!Rebased(base, op) = [op EXCEPT !.pos = w[Len(history)]]
<1>1. \E w : CarriesTo(w, base, op, Len(history))
  BY SomeCarrying
<1>2. PICK w : w = CHOOSE x : CarriesTo(x, base, op, Len(history))
  OBVIOUS
<1>3. CarriesTo(w, base, op, Len(history))
  BY <1>1, <1>2
<1>4. T!Rebased(base, op) = [op EXCEPT !.pos = w[Len(history)]]
  BY <1>2 DEF T!Rebased, CarriesTo, Carried
<1> QED
  BY <1>3, <1>4 DEF CarriesTo

-----------------------------------------------------------------------------
(* A change the history reaches back to its base of is committed where its    *)
(* sender meant it, and any change with an operation's place.                 *)
LEMMA RebasedTyped ==
    ASSUME TfTyped, NEW base \in Nat, NEW op \in Op
    PROVE  T!Rebased(base, op) \in Op
<1>1. PICK most : most = Len(history) /\ most \in Nat
  <2>1. Len(history) \in Nat
    BY DEF TfTyped
  <2> QED
    BY <2>1
<1>2. PICK w : /\ \A n \in 0..most : w[n] = Carried(w, n, base, op)
               /\ T!Rebased(base, op) = [op EXCEPT !.pos = w[most]]
  BY <1>1, RebasedIs
<1> DEFINE S == {n \in 0..most : w[n] \in Nat}
<1>3. 0 \in S
  BY <1>1, <1>2 DEF Carried, Op
<1>4. ASSUME NEW n \in 0..most, n \in S, n < most PROVE n + 1 \in S
  <2>1. n + 1 \in 0..most /\ n + 1 # 0 /\ n + 1 - 1 = n /\ w[n] \in Nat /\ n + 1 \in 1..most
    BY <1>1, <1>4
  <2>2. history[n + 1] \in Logged
    BY <1>1, <2>1 DEF TfTyped
  <2>3. PICK o : o = history[n + 1].op /\ o \in Op
    BY <2>2 DEF Logged
  <2>4. T!Shifted(w[n], o) \in Nat
    BY <2>1, <2>3 DEF T!Shifted, Op
  <2>5. w[n + 1] = Carried(w, n + 1, base, op)
    BY <1>2, <2>1
  <2>6. w[n + 1] \in Nat
    BY <2>1, <2>3, <2>4, <2>5 DEF Carried
  <2> QED
    BY <2>1, <2>6
<1> HIDE DEF S
<1>5. 0..most \subseteq S
  BY <1>1, <1>3, <1>4, Climb
<1>6. w[most] \in Nat
  BY <1>1, <1>5 DEF S
<1> QED
  BY <1>2, <1>6 DEF Op

LEMMA RebasedAgrees ==
    ASSUME TfTyped, TfLog, TfOrigin, NEW base \in 0..version, version - base <= HistoryCap,
           NEW op \in Op, op.pos <= Len(texts[base + 1])
    PROVE  \A i \in DOMAIN texts[base + 1] : \A j \in DOMAIN texts[version + 1] :
              texts[base + 1][i] = texts[version + 1][j] =>
                  (i <= op.pos <=> j <= T!Rebased(base, op).pos)

<1>1. PICK most, saw : most = Len(history) /\ saw = texts[base + 1]
  OBVIOUS
<1>2. /\ most \in Nat /\ version \in Nat /\ most <= version /\ version - most <= base
      /\ base + 1 \in DOMAIN texts
  BY <1>1, TransformSizesHold DEF TfTyped, TfLog
<1>3. PICK w : /\ \A n \in 0..most : w[n] = Carried(w, n, base, op)
               /\ T!Rebased(base, op) = [op EXCEPT !.pos = w[most]]
  <2>1. \E w : /\ \A n \in 0..Len(history) : w[n] = Carried(w, n, base, op)
               /\ T!Rebased(base, op) = [op EXCEPT !.pos = w[Len(history)]]
    BY <1>1, <1>2, RebasedIs
  <2> QED
    BY <1>1, <2>1
<1>4. saw \in Seq(Char) /\ Distinct(saw) /\ OfBefore(saw, base + 1)
  <2>1. texts[base + 1] \in Seq(Char)
    BY <1>2 DEF TfTyped
  <2>2. Distinct(texts[base + 1]) /\ OfBefore(texts[base + 1], base + 1)
    BY <1>2 DEF TfOrigin
  <2> QED
    BY <1>1, <2>1, <2>2
<1>5. Agrees(saw, op.pos, saw, op.pos)
  BY <1>1, <1>4 DEF Agrees, Distinct, Op
<1> DEFINE At(n) == version - most + n
           S == {n \in 0..most : IF At(n) <= base THEN w[n] = op.pos
                                 ELSE Agrees(saw, op.pos, texts[At(n) + 1], w[n])}
<1>6. 0 \in S
  BY <1>2, <1>3 DEF Carried
<1>7. ASSUME NEW n \in 0..most, n \in S, n < most PROVE n + 1 \in S
  <2>1. n + 1 \in 0..most /\ n + 1 # 0 /\ n + 1 - 1 = n /\ n + 1 \in 1..most
    BY <1>2, <1>7
  <2>2. PICK v, o : v = At(n + 1) /\ o = history[n + 1].op
    OBVIOUS
  <2>3. /\ v \in Nat /\ history[n + 1].version = v /\ v = At(n) + 1 /\ v \in 1..version
        /\ o \in Op /\ texts[v + 1] = T!Applied(texts[v], o, v)
    <3>1. n + 1 \in DOMAIN history /\ history[n + 1] \in Logged
      BY <1>1, <1>2, <2>1 DEF TfTyped
    <3>2. At(n + 1) = At(n) + 1 /\ At(n + 1) \in 1..version
      BY <1>2, <2>1
    <3> QED
      BY <1>1, <1>2, <2>2, <3>1, <3>2 DEF TfLog, Logged
  <2>4. w[n + 1] = IF v <= base THEN w[n] ELSE T!Shifted(w[n], o)
    BY <1>3, <2>1, <2>2, <2>3 DEF Carried
  <2>5. CASE v <= base
    <3>1. w[n] = op.pos
      BY <1>2, <1>7, <2>3, <2>5
    <3> QED
      BY <2>1, <2>2, <2>4, <2>5, <3>1
  <2>6. CASE v > base
    <3>1. Agrees(saw, op.pos, texts[v], w[n])
      <4>1. CASE At(n) <= base
        <5>1. v = base + 1 /\ w[n] = op.pos
          BY <1>2, <1>7, <2>3, <2>6, <4>1
        <5> QED
          BY <1>1, <1>5, <5>1
      <4>2. CASE ~ (At(n) <= base)
        BY <1>7, <2>3, <4>2
      <4> QED
        BY <4>1, <4>2
    <3>2. OfBefore(saw, v)
      <4>1. \A i \in DOMAIN saw : saw[i] \in Char /\ saw[i].by < base + 1
        BY <1>4 DEF OfBefore
      <4>2. \A i \in DOMAIN saw : saw[i].by \in Nat
        BY <4>1 DEF Char
      <4>3. base \in Nat
        BY <1>2
      <4> QED
        BY <2>3, <2>6, <4>1, <4>2, <4>3 DEF OfBefore
    <3>3. texts[v] \in Seq(Char)
      BY <1>2, <2>3 DEF TfTyped
    <3>4. Agrees(saw, op.pos, texts[v + 1], w[n + 1])
      <4>1. w[n + 1] = T!Shifted(w[n], o)
        BY <1>2, <2>3, <2>4, <2>6
      <4>2. Agrees(saw, op.pos, T!Applied(texts[v], o, v), T!Shifted(w[n], o))
        BY <2>3, <3>1, <3>2, <3>3, ShiftAgrees
      <4> QED
        BY <2>3, <4>1, <4>2
    <3>5. ~ (v <= base)
      BY <1>2, <2>3, <2>6
    <3> QED
      BY <2>1, <2>2, <3>4, <3>5
  <2> QED
    BY <1>2, <2>3, <2>5, <2>6
<1>8. most \in S
  <2> HIDE DEF S
  <2>1. 0..most \subseteq S
    BY <1>2, <1>6, <1>7, Climb
  <2> QED
    BY <1>2, <2>1
<1>9. At(most) = version
  BY <1>2
<1>10. Agrees(saw, op.pos, texts[version + 1], w[most])
  <2>1. CASE version <= base
    <3>1. version = base /\ w[most] = op.pos
      BY <1>2, <1>8, <1>9, <2>1
    <3> QED
      BY <1>1, <1>5, <3>1
  <2>2. CASE ~ (version <= base)
    BY <1>8, <1>9, <2>2
  <2> QED
    BY <2>1, <2>2
<1>11. T!Rebased(base, op).pos = w[most]
  BY <1>3 DEF Op
<1> QED
  BY <1>1, <1>10, <1>11 DEF Agrees

-----------------------------------------------------------------------------
LEMMA TfStart == T!TransformInit => TfInv
<1> SUFFICES ASSUME T!TransformInit PROVE TfInv
  OBVIOUS
<1>1. PICK o : o = T!Original /\ o = [i \in 1..Start |-> [by |-> 0, i |-> i]]
  BY DEF T!Original
<1>2. /\ history = <<>> /\ version = 0 /\ texts = <<o>> /\ placed = [base |-> 0, pos |-> 0, at |-> 0]
      /\ Start \in Nat
  BY <1>1, TransformSizesHold DEF T!TransformInit, T!NoPlace
<1>3. o \in Seq(Char) /\ DOMAIN o = 1..Start /\ \A i \in 1..Start : o[i] = [by |-> 0, i |-> i]
  <2>1. \A i \in 1..Start : o[i] = [by |-> 0, i |-> i] /\ o[i] \in Char
    BY <1>1, <1>2 DEF Char
  <2>2. o \in [1..Start -> Char]
    BY <1>1, <2>1
  <2> QED
    BY <1>2, <2>1, <2>2
<1>4. TfTyped
  BY <1>2, <1>3 DEF TfTyped
<1>5. TfLog
  BY <1>2, TransformSizesHold DEF TfLog
<1>6. TfOrigin
  <2>1. DOMAIN texts = {1} /\ texts[1] = o
    BY <1>2
  <2>2. \A i \in 1..Start : o[i].by < 1 /\ o[i].i = i
    BY <1>3
  <2>3. OfBefore(o, 1) /\ Distinct(o)
    BY <1>3, <2>2 DEF OfBefore, Distinct
  <2> QED
    BY <2>1, <2>3 DEF TfOrigin
<1>7. T!PlaceKept
  <2>1. ~ (version - 1 - placed.base \in 1..HistoryCap)
    BY <1>2, TransformSizesHold
  <2> QED
    BY <2>1 DEF T!PlaceKept
<1> QED
  BY <1>4, <1>5, <1>6, <1>7 DEF TfInv

LEMMA ApplyKeepsPlace ==
    ASSUME TfInv, NEW base \in 0..version, NEW op \in Op, op.pos <= Len(texts[base + 1]),
           T!Apply(base, op)
    PROVE  TfInv'
<1>1. PICK o, next, v, entry :
          /\ o = T!Rebased(base, op) /\ v = version + 1
          /\ next = T!Applied(texts[version + 1], o, version + 1)
          /\ entry = [version |-> version + 1, op |-> o]
  OBVIOUS
<1>2. /\ version' = v /\ history' = T!Kept(Append(history, entry)) /\ texts' = Append(texts, next)
      /\ placed' = [base |-> base, pos |-> op.pos, at |-> o.pos]
  BY <1>1 DEF T!Apply
<1>3. PICK text : text = texts[version + 1]
  OBVIOUS
<1>4. /\ version \in Nat /\ v \in Nat /\ Len(texts) = v /\ base \in Nat /\ texts \in Seq(Seq(Char))
      /\ history \in Seq(Logged) /\ Len(history) \in Nat /\ HistoryCap \in Nat \ {0}
      /\ version + 1 \in DOMAIN texts /\ text \in Seq(Char)
  BY <1>1, <1>3, TransformSizesHold DEF TfInv, TfTyped
<1>5. o \in Op
  BY <1>1, <1>4, RebasedTyped DEF TfInv
<1>6. next \in Seq(Char) /\ next = T!Applied(text, o, v) /\ entry = [version |-> v, op |-> o]
      /\ entry \in Logged
  BY <1>1, <1>3, <1>4, <1>5, AppliedTyped DEF Logged
<1>7. /\ texts' \in Seq(Seq(Char)) /\ Len(texts') = v + 1 /\ texts'[v + 1] = next
      /\ DOMAIN texts = 1..v /\ \A k \in 1..v : texts'[k] = texts[k]
      /\ DOMAIN texts' = 1..(v + 1)
  <2>1. PICK q : q = texts /\ q \in Seq(Seq(Char)) /\ Len(q) = v
    BY <1>4
  <2>2. /\ Append(q, next) \in Seq(Seq(Char)) /\ Len(Append(q, next)) = Len(q) + 1
        /\ DOMAIN q = 1..Len(q) /\ DOMAIN Append(q, next) = 1..(Len(q) + 1)
        /\ Append(q, next)[Len(q) + 1] = next
        /\ \A k \in 1..Len(q) : Append(q, next)[k] = q[k]
    BY <1>6, <2>1, OneMore
  <2> QED
    BY <1>2, <2>1, <2>2
<1>8. OfBefore(next, v + 1) /\ Distinct(next)
  <2>1. OfBefore(text, v) /\ Distinct(text)
    BY <1>1, <1>3, <1>4 DEF TfInv, TfOrigin
  <2> QED
    BY <1>4, <1>5, <1>6, <2>1, AppliedDistinct
<1>9. TfOrigin'
  <2> SUFFICES ASSUME NEW k \in DOMAIN texts' PROVE OfBefore(texts'[k], k) /\ Distinct(texts'[k])
    BY DEF TfOrigin
  <2>1. CASE k = v + 1
    BY <1>7, <1>8, <2>1
  <2>2. CASE k # v + 1
    <3>1. k \in DOMAIN texts /\ texts'[k] = texts[k]
      <4>1. k \in 1..(v + 1)
        BY <1>7
      <4>2. k \in 1..v
        BY <1>4, <2>2, <4>1
      <4> QED
        BY <1>7, <4>2
    <3> QED
      BY <3>1 DEF TfInv, TfOrigin
  <2> QED
    BY <2>1, <2>2
<1>10. PICK h : h = Append(history, entry)
  OBVIOUS
<1>11. /\ h \in Seq(Logged) /\ Len(h) = Len(history) + 1 /\ h[Len(history) + 1] = entry
       /\ DOMAIN history = 1..Len(history) /\ DOMAIN h = 1..Len(h)
      /\ \A n \in 1..Len(history) : h[n] = history[n] /\ history[n] \in Logged
  <2>1. /\ h \in Seq(Logged) /\ Len(h) = Len(history) + 1 /\ h[Len(history) + 1] = entry
        /\ DOMAIN history = 1..Len(history) /\ DOMAIN h = 1..(Len(history) + 1)
        /\ \A n \in 1..Len(history) : h[n] = history[n]
    BY <1>4, <1>6, <1>10, OneMore
  <2>2. \A n \in 1..Len(history) : history[n] \in Logged
    BY <1>4
  <2> QED
    BY <2>1, <2>2
<1>12. ASSUME NEW n \in 1..Len(h)
       PROVE  /\ h[n].version = v - Len(h) + n /\ h[n].version \in 1..v
              /\ texts'[h[n].version + 1] = T!Applied(texts'[h[n].version], h[n].op, h[n].version)
  <2>1. CASE n = Len(history) + 1
    <3>1. h[n] = entry /\ entry.version = v /\ entry.op = o /\ v - Len(h) + n = v /\ v \in 1..v
      BY <1>1, <1>4, <1>6, <1>11, <2>1
    <3>2. texts'[v] = text
      BY <1>1, <1>3, <1>4, <1>7
    <3> QED
      BY <1>6, <1>7, <3>1, <3>2
  <2>2. CASE n # Len(history) + 1
    <3>1. n \in DOMAIN history /\ n \in 1..Len(history) /\ h[n] = history[n] /\ history[n] \in Logged
      <4>1. n \in 1..(Len(history) + 1) /\ n \in 1..Len(history)
        BY <1>4, <1>11, <2>2
      <4> QED
        BY <1>11, <4>1
    <3>2. PICK u : u = history[n].version /\ u \in Nat
      BY <3>1 DEF Logged
    <3>3. u = version - Len(history) + n /\ texts[u + 1] = T!Applied(texts[u], history[n].op, u)
      BY <3>1, <3>2 DEF TfInv, TfLog
    <3>4. Len(history) <= version
      <4>1. PICK cap : cap = HistoryCap /\ cap \in Nat
        BY <1>4
      <4>2. Len(history) = IF version <= cap THEN version ELSE cap
        BY <4>1 DEF TfInv, TfLog
      <4> QED
        BY <1>4, <4>1, <4>2
    <3>5. u = v - Len(h) + n /\ u \in 1..v /\ u + 1 \in 1..v
      <4>1. PICK m : m = Len(history) /\ m \in Nat /\ m <= version /\ n \in 1..m /\ Len(h) = m + 1
        BY <1>4, <1>11, <3>1, <3>4
      <4>2. version \in Nat /\ v = version + 1 /\ u = version - m + n
        BY <1>1, <1>4, <3>3, <4>1
      <4> QED
        BY <4>1, <4>2
    <3> QED
      BY <1>7, <3>1, <3>2, <3>3, <3>5
  <2> QED
    BY <2>1, <2>2
<1>13. Len(history) = IF version <= HistoryCap THEN version ELSE HistoryCap
  BY DEF TfInv, TfLog
<1>14. TfTyped' /\ TfLog'
  <2>1. CASE Len(h) > HistoryCap
    <3>1. history' = Tail(h) /\ Len(h) = HistoryCap + 1 /\ ~ (v <= HistoryCap)
      <4>1. history' = Tail(h)
        BY <1>2, <1>10, <2>1 DEF T!Kept
      <4>2. PICK m, cap : m = Len(history) /\ m \in Nat /\ cap = HistoryCap /\ cap \in Nat \ {0}
        BY <1>4
      <4>3. Len(h) = m + 1 /\ m + 1 > cap /\ m = IF version <= cap THEN version ELSE cap
        BY <1>11, <1>13, <2>1, <4>2
      <4>4. m = cap /\ version >= cap
        BY <1>4, <4>2, <4>3
      <4>5. ~ (version + 1 <= cap)
        BY <1>4, <4>2, <4>4
      <4> QED
        BY <1>1, <4>1, <4>2, <4>3, <4>4, <4>5
    <3>2. /\ history' \in Seq(Logged) /\ Len(history') = HistoryCap
          /\ DOMAIN history' = 1..HistoryCap /\ \A n \in 1..HistoryCap : history'[n] = h[n + 1]
      BY <1>4, <1>11, <3>1
    <3>3. ASSUME NEW n \in DOMAIN history'
          PROVE  /\ history'[n].version = v - Len(history') + n
                 /\ texts'[history'[n].version + 1] =
                        T!Applied(texts'[history'[n].version], history'[n].op, history'[n].version)
      <4>1. n \in 1..HistoryCap /\ n + 1 \in 1..Len(h) /\ v - Len(h) + (n + 1) = v - Len(history') + n
        <5>1. n \in 1..HistoryCap
          BY <3>2
        <5>2. v \in Nat /\ HistoryCap \in Nat /\ n \in Nat /\ n + 1 \in 1..(HistoryCap + 1)
          BY <1>4, <5>1
        <5>3. v - (HistoryCap + 1) + (n + 1) = v - HistoryCap + n
          BY <5>2
        <5> QED
          BY <3>1, <3>2, <5>1, <5>2, <5>3
      <4>2. PICK m : m = n + 1 /\ m \in 1..Len(h) /\ history'[n] = h[m]
        BY <3>2, <4>1
      <4>3. /\ h[m].version = v - Len(h) + m
            /\ texts'[h[m].version + 1] = T!Applied(texts'[h[m].version], h[m].op, h[m].version)
        BY <1>12, <4>2
      <4> QED
        BY <4>1, <4>2, <4>3
    <3> QED
      BY <1>2, <1>4, <1>7, <3>1, <3>2, <3>3 DEF TfTyped, TfLog
  <2>2. CASE ~ (Len(h) > HistoryCap)
    <3>1. history' = h /\ v <= HistoryCap /\ Len(h) = v
      BY <1>1, <1>2, <1>4, <1>10, <1>11, <1>13, <2>2 DEF T!Kept
    <3>2. TfTyped'
      BY <1>2, <1>4, <1>7, <1>11, <3>1 DEF TfTyped
    <3>3. \A n \in DOMAIN history' :
             /\ history'[n].version = v - Len(history') + n
             /\ texts'[history'[n].version + 1] =
                    T!Applied(texts'[history'[n].version], history'[n].op, history'[n].version)
      BY <1>11, <1>12, <3>1
    <3> QED
      BY <1>2, <3>1, <3>2, <3>3 DEF TfLog
  <2> QED
    BY <2>1, <2>2
<1>15. T!PlaceKept'
  <2>1. /\ placed'.base = base /\ placed'.pos = op.pos /\ placed'.at = o.pos
        /\ v - 1 = version /\ texts'[v] = texts[version + 1] /\ texts'[base + 1] = texts[base + 1]
    <3>1. v \in 1..v /\ base + 1 \in 1..v
      BY <1>1, <1>4
    <3>2. texts'[v] = texts[v] /\ texts'[base + 1] = texts[base + 1]
      BY <1>7, <3>1
    <3>3. v - 1 = version /\ v = version + 1
      BY <1>1, <1>4
    <3> QED
      BY <1>2, <3>2, <3>3
  <2>2. ASSUME version - base <= HistoryCap
        PROVE  \A i \in DOMAIN texts[base + 1] : \A j \in DOMAIN texts[version + 1] :
                  texts[base + 1][i] = texts[version + 1][j] => (i <= op.pos <=> j <= o.pos)
    BY <1>1, <2>2, RebasedAgrees DEF TfInv
  <2>3. version - base \in 1..HistoryCap => version - base <= HistoryCap
    BY <1>4
  <2>4. version' - 1 - placed'.base = version - base /\ placed'.base + 1 = base + 1 /\ version' = v
    BY <1>1, <1>2, <1>4, <2>1
  <2>5. SUFFICES ASSUME version - base \in 1..HistoryCap
                 PROVE  \A i \in DOMAIN texts[base + 1] : \A j \in DOMAIN texts[version + 1] :
                           texts[base + 1][i] = texts[version + 1][j] => (i <= op.pos <=> j <= o.pos)
    BY <2>1, <2>4 DEF T!PlaceKept
  <2> QED
    BY <2>2, <2>3, <2>5
<1> QED
  BY <1>9, <1>14, <1>15 DEF TfInv

LEMMA TfStep == TfInv /\ (T!TransformNext \/ UNCHANGED tfVars) => TfInv'
<1>1. ASSUME TfInv, UNCHANGED tfVars PROVE TfInv'
  BY <1>1 DEF tfVars, TfInv, TfTyped, TfLog, TfOrigin, T!PlaceKept
<1>2. ASSUME TfInv, T!TransformNext PROVE TfInv'
  <2>1. PICK base \in 0..version, type \in {"insert", "delete", "retain"} :
            \E pos \in 0..Len(texts[base + 1]) : \E len \in 1..Width :
                T!Apply(base, [type |-> type, pos |-> pos, len |-> len])
    BY <1>2 DEF T!TransformNext
  <2>2. PICK pos \in 0..Len(texts[base + 1]), len \in 1..Width :
            T!Apply(base, [type |-> type, pos |-> pos, len |-> len])
    BY <2>1
  <2>3. PICK op : op = [type |-> type, pos |-> pos, len |-> len]
    OBVIOUS
  <2>4. op \in Op /\ op.pos <= Len(texts[base + 1])
    <3>1. Len(texts[base + 1]) \in Nat
      BY <1>2 DEF TfInv, TfTyped
    <3>2. pos \in Nat /\ pos <= Len(texts[base + 1]) /\ len \in Nat \ {0}
      BY <3>1, TransformSizesHold
    <3> QED
      BY <2>3, <3>2 DEF Op
  <2> QED
    BY <1>2, <2>2, <2>3, <2>4, ApplyKeepsPlace
<1> QED
  BY <1>1, <1>2

(* Once it has read what is on its way, a tab shows who is on the page and knows of       *)
(* every change made since it came, told once; and a change lands where its sender        *)
(* meant it as long as the history reaches back to what he had seen (ot.go Join, leave,   *)
(* BroadcastChange, UpdateCursor, Apply, transform).                                      *)
THEOREM TabsTold == Spec => []TabsAreTold
<1>1. Init => MsInv /\ TfInv
  BY MsStart, TfStart DEF Init
<1>2. MsInv /\ TfInv /\ [Next]_vars => (MsInv /\ TfInv)'
  BY MsStep, TfStep, PartSteps
<1>3. MsInv /\ TfInv => TabsAreTold
  BY MsShows DEF TfInv, TabsAreTold
<1> QED
  BY <1>1, <1>2, <1>3, PTL DEF Spec, vars
=============================================================================
