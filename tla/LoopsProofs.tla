----------------------------- MODULE LoopsProofs -----------------------------
(***************************************************************************)
(* What TLAPS proves about Loops and its four parts, for any number of      *)
(* processes, builds, files, people, pages, workers, calls and failures.   *)
(***************************************************************************)
EXTENDS Loops, Sequences, WellFoundedInduction, FiniteSetTheorems, TLAPS

(* A behaviour of Loops is, in each part, one of that part alone. *)
LEMMA PartSteps ==
    ASSUME [Next]_vars
    PROVE  /\ SpendNext \/ UNCHANGED spVars
           /\ R!RosterNext \/ UNCHANGED roVars
           /\ I!Next \/ UNCHANGED ixVars
           /\ G!MigrationsNext \/ UNCHANGED mgVars
BY DEF Next, OfSpend, OfRoster, OfIndex, OfBoot, vars

-----------------------------------------------------------------------------
(* Boot.                                                                    *)

(* A set of versions that is not empty has a first one. *)
Below == {ss \in Nat \X Nat : ss[1] < ss[2]}

LEMMA FirstIsIn ==
    ASSUME NEW S \in SUBSET Nat, S # {}
    PROVE  G!Min(S) \in S
<1>1. OpToRel(<, Nat) = Below
  BY Zenon DEF OpToRel, Below
<1>2. IsWellFoundedOn(Below, Nat)
  BY <1>1, NatLessThanWellFounded, Zenon
<1>3. PICK x \in S : \A y \in S : ~ (<<y, x>> \in Below)
  BY <1>2, WFMin
<1>4. ASSUME NEW y \in S PROVE x <= y
  <2>1. y < x => <<y, x>> \in Below
    BY DEF Below
  <2>2. ~ (y < x)
    BY <1>3, <2>1
  <2>3. x \in Nat /\ y \in Nat
    OBVIOUS
  <2> QED
    BY <2>2, <2>3
<1> QED
  BY <1>4 DEF G!Min

Body == {"none"} \cup UNION {{Files[b][v] : v \in DOMAIN Files[b]} : b \in DOMAIN Files}

Applying == {"read", "files", "commit"}

BootLocal == [pc : {"down", "lock", "serving", "exited"} \cup Applying,
              why : {"none", "ahead", "edited", "conflict", "failure"},
              build : DOMAIN Files, known : [G!Version -> Body]]

BootTyped == /\ schema \in [G!Version -> Body]
             /\ records \in [G!Version -> Body]
             /\ boot \in [Process -> BootLocal]

(* Who reads, writes or commits holds the session lock, so what he read is    *)
(* what is there; and a file that was not taken on initdb's word has left      *)
(* what its record says.                                                     *)
LockHeld == \A p \in Process : boot[p].pc \in Applying => lock = p

ReadIsCurrent == \A p \in Process : boot[p].pc \in {"files", "commit"} => boot[p].known = records

CommitsSome == \A p \in Process : boot[p].pc = "commit" => G!Pending(p) # {}

MadeAsRecorded == \A v \in G!Version : v \notin adopted => schema[v] = records[v]

ServesRecorded == \A p \in Process : boot[p].pc = "serving" =>
                      \A v \in DOMAIN G!Own(p) : records[v] = G!Own(p)[v]

BootInv == /\ BootTyped /\ LockHeld /\ ReadIsCurrent /\ CommitsSome /\ MadeAsRecorded
           /\ ServesRecorded /\ G!BootsDoNotRace

LEMMA FilesAreBodies ==
    ASSUME NEW b \in DOMAIN Files
    PROVE  /\ DOMAIN Files[b] \subseteq G!Version
           /\ \A v \in DOMAIN Files[b] : Files[b][v] \in Body /\ Files[b][v] # "none"
BY LoopsAssumption DEF G!MigrationsSizes, G!Version, G!None, Body

LEMMA VersionsAreNumbers == G!Version \subseteq Nat
BY LoopsAssumption DEF G!MigrationsSizes, G!Version

LEMMA BootInit == G!MigrationsInit => BootInv
<1> SUFFICES ASSUME G!MigrationsInit PROVE BootInv
  OBVIOUS
<1>1. G!Down \in BootLocal
  BY LoopsAssumption DEF G!MigrationsSizes, G!Down, G!None, BootLocal, Body
<1>2. BootTyped
  <2>1. PICK made \in {{}, DOMAIN Files[InitDB]} :
           schema = [v \in G!Version |-> IF v \in made THEN Files[InitDB][v] ELSE G!None]
    BY DEF G!MigrationsInit
  <2>2. \A v \in made : Files[InitDB][v] \in Body
    BY <2>1, FilesAreBodies, LoopsAssumption DEF G!MigrationsSizes
  <2>3. schema \in [G!Version -> Body]
    BY <2>1, <2>2 DEF G!None, Body
  <2> QED
    BY <1>1, <2>3 DEF BootTyped, G!MigrationsInit, G!None, Body
<1>3. MadeAsRecorded
  BY DEF MadeAsRecorded, G!MigrationsInit
<1> QED
  BY <1>2, <1>3 DEF BootInv, LockHeld, ReadIsCurrent, CommitsSome, ServesRecorded,
     G!BootsDoNotRace, G!MigrationsInit, G!Down, G!None, Applying

LEMMA OwnBodies ==
    ASSUME BootTyped, NEW p \in Process
    PROVE  /\ DOMAIN G!Own(p) \subseteq G!Version
           /\ \A v \in DOMAIN G!Own(p) : G!Own(p)[v] \in Body /\ G!Own(p)[v] # "none"
           /\ G!Pending(p) \subseteq DOMAIN G!Own(p)
BY FilesAreBodies DEF BootTyped, BootLocal, G!Own, G!Pending

LEMMA OneBoots ==
    ASSUME BootTyped, NEW p \in Process, NEW o, boot' = [boot EXCEPT ![p] = o]
    PROVE  boot'[p] = o /\ \A q \in Process \ {p} : boot'[q] = boot[q]
BY DEF BootTyped

(* A process that comes, fails, dies or exits disturbs nobody. *)
LEMMA BootLeaves ==
    ASSUME BootInv, NEW p \in Process, NEW o \in BootLocal,
           boot' = [boot EXCEPT ![p] = o],
           o.pc \in {"down", "lock", "exited"}, o.why # "conflict",
           UNCHANGED <<schema, records, adopted>>,
           \A q \in Process \ {p} : lock = q => lock' = q
    PROVE  BootInv'
<1> USE DEF BootInv
<1>1. boot'[p] = o /\ \A q \in Process \ {p} : boot'[q] = boot[q]
  BY OneBoots
<1>2. BootTyped' /\ MadeAsRecorded'
  BY DEF BootTyped, MadeAsRecorded
<1>3. LockHeld' /\ ReadIsCurrent' /\ G!BootsDoNotRace'
  BY <1>1 DEF LockHeld, ReadIsCurrent, G!BootsDoNotRace, Applying
<1>4. \A q \in Process \ {p} : G!Pending(q)' = G!Pending(q) /\ G!Own(q)' = G!Own(q)
  BY <1>1 DEF G!Pending, G!Own, G!Recorded
<1>5. CommitsSome' /\ ServesRecorded'
  BY <1>1, <1>4 DEF CommitsSome, ServesRecorded
<1> QED
  BY <1>2, <1>3, <1>5

(* The process that holds the lock goes on; the tables stay. *)
LEMMA BootGoesOn ==
    ASSUME BootInv, NEW p \in Process, NEW o \in BootLocal,
           boot' = [boot EXCEPT ![p] = o],
           o.pc \in Applying => lock' = p,
           o.pc \in {"files", "commit"} => o.known = records,
           o.pc = "commit" => DOMAIN Files[o.build] \ G!Recorded(o.known) # {},
           o.pc = "serving" =>
               \A v \in DOMAIN Files[o.build] : records[v] = Files[o.build][v],
           o.why # "conflict",
           UNCHANGED <<schema, records, adopted>>,
           \A q \in Process \ {p} : boot[q].pc \in Applying => lock' = q
    PROVE  BootInv'
<1> USE DEF BootInv
<1>1. boot'[p] = o /\ \A q \in Process \ {p} : boot'[q] = boot[q]
  BY OneBoots
<1>2. BootTyped' /\ MadeAsRecorded'
  BY DEF BootTyped, MadeAsRecorded
<1>3. LockHeld' /\ ReadIsCurrent' /\ G!BootsDoNotRace'
  BY <1>1 DEF LockHeld, ReadIsCurrent, G!BootsDoNotRace
<1>4. CommitsSome' /\ ServesRecorded'
  BY <1>1 DEF CommitsSome, ServesRecorded, G!Pending, G!Own, G!Recorded
<1> QED
  BY <1>2, <1>3, <1>4

(* The holder of the lock commits a file under a version that is not on record: *)
(* nobody else was at work, and who serves has no file there.                   *)
LEMMA BootWrites ==
    ASSUME BootInv, NEW p \in Process, boot[p].pc = "commit",
           NEW v \in G!Pending(p), records[v] = "none", G!Written(p, v),
           NEW o \in BootLocal, boot' = [boot EXCEPT ![p] = o],
           o.pc \in {"files", "exited"}, o.why # "conflict",
           o.pc = "files" => o.known = records' /\ lock' = p,
           UNCHANGED adopted
    PROVE  BootInv'
<1> USE DEF BootInv
<1>1. boot'[p] = o /\ \A q \in Process \ {p} : boot'[q] = boot[q]
  BY OneBoots
<1>2. v \in G!Version /\ v \in DOMAIN G!Own(p) /\ G!Own(p)[v] \in Body
  BY OwnBodies
<1>3. /\ records' = [records EXCEPT ![v] = G!Own(p)[v]]
      /\ schema' = [schema EXCEPT ![v] = IF schema[v] = "none" THEN G!Own(p)[v] ELSE schema[v]]
  BY DEF G!Written, G!None
<1>4. BootTyped'
  BY <1>2, <1>3 DEF BootTyped
<1>5. \A q \in Process \ {p} : boot'[q].pc \notin Applying
  BY <1>1 DEF LockHeld, Applying
<1>6. LockHeld' /\ ReadIsCurrent' /\ CommitsSome' /\ G!BootsDoNotRace'
  BY <1>1, <1>5 DEF LockHeld, ReadIsCurrent, CommitsSome, G!BootsDoNotRace, Applying
<1>7. MadeAsRecorded'
  BY <1>2, <1>3 DEF MadeAsRecorded, BootTyped
<1>8. ServesRecorded'
  <2> SUFFICES ASSUME NEW q \in Process, boot'[q].pc = "serving",
                      NEW w \in DOMAIN G!Own(q)'
               PROVE  records'[w] = G!Own(q)'[w]
    BY DEF ServesRecorded
  <2>1. q # p /\ boot'[q] = boot[q] /\ G!Own(q)' = G!Own(q)
    BY <1>1 DEF G!Own
  <2>2. records[w] = G!Own(q)[w] /\ records[w] # "none"
    BY <2>1, OwnBodies DEF ServesRecorded
  <2> QED
    BY <1>3, <2>1, <2>2 DEF BootTyped
<1> QED
  BY <1>4, <1>6, <1>7, <1>8

LEMMA BootStepInv == BootInv /\ (G!MigrationsNext \/ UNCHANGED mgVars) => BootInv'
<1> SUFFICES ASSUME BootInv, G!MigrationsNext \/ UNCHANGED mgVars PROVE BootInv'
  OBVIOUS
<1> USE DEF BootInv
<1>0. G!Down \in BootLocal
  BY LoopsAssumption DEF G!MigrationsSizes, G!Down, G!None, BootLocal, Body
<1>1. ASSUME NEW p \in Process, NEW b \in DOMAIN Files, G!Boot(p, b) PROVE BootInv'
  <2> DEFINE o == [G!Down EXCEPT !.pc = "lock", !.build = b]
  <2>1. o \in BootLocal /\ o.pc = "lock" /\ o.why = "none"
    BY <1>0 DEF BootLocal, G!Down, G!None
  <2>2. boot' = [boot EXCEPT ![p] = o] /\ UNCHANGED <<schema, records, adopted, lock>>
    BY <1>1 DEF G!Boot
  <2> HIDE DEF o
  <2> QED
    BY <2>1, <2>2, BootLeaves
<1>2. ASSUME NEW p \in Process, G!Lock(p) PROVE BootInv'
  <2> DEFINE o == [boot[p] EXCEPT !.pc = "read"]
  <2>1. o \in BootLocal /\ o.pc = "read" /\ o.why # "conflict"
    BY DEF BootTyped, BootLocal, Applying, G!BootsDoNotRace
  <2>2. /\ boot' = [boot EXCEPT ![p] = o] /\ UNCHANGED <<schema, records, adopted>>
        /\ lock' = p /\ lock = Nobody
    BY <1>2 DEF G!Lock, G!Free
  <2>3. \A q \in Process \ {p} : boot[q].pc \notin Applying
    BY <2>2, LoopsAssumption DEF LockHeld, G!MigrationsSizes
  <2> HIDE DEF o
  <2> QED
    BY <2>1, <2>2, <2>3, BootGoesOn
<1>3. ASSUME NEW p \in Process, NEW why \in {"ahead", "edited", "failure"},
             G!Ends(p, "exited", why), UNCHANGED <<schema, records, adopted>>
      PROVE  BootInv'
  <2> DEFINE o == [boot[p] EXCEPT !.pc = "exited", !.why = why]
  <2>1. o \in BootLocal /\ o.pc = "exited" /\ o.why = why
    BY DEF BootTyped, BootLocal
  <2>2. boot' = [boot EXCEPT ![p] = o] /\ \A q \in Process \ {p} : lock = q => lock' = q
    BY <1>3 DEF G!Ends
  <2> HIDE DEF o
  <2> QED
    BY <1>3, <2>1, <2>2, BootLeaves
<1>4. ASSUME NEW p \in Process, G!ReadApplied(p) PROVE BootInv'
  <2>1. CASE /\ boot' = [boot EXCEPT ![p].pc = "files", ![p].known = records]
             /\ UNCHANGED lock
    <3> DEFINE o == [boot[p] EXCEPT !.pc = "files", !.known = records]
    <3>1. o \in BootLocal /\ o.pc = "files" /\ o.why # "conflict" /\ o.known = records
      BY DEF BootTyped, BootLocal, Applying, G!BootsDoNotRace
    <3>2. /\ boot' = [boot EXCEPT ![p] = o] /\ UNCHANGED <<schema, records, adopted, lock>>
          /\ lock = p
      BY <1>4, <2>1 DEF G!ReadApplied, LockHeld, Applying
    <3>3. \A q \in Process \ {p} : boot[q].pc \in Applying => lock' = q
      BY <3>2 DEF LockHeld
    <3> HIDE DEF o
    <3> QED
      BY <3>1, <3>2, <3>3, BootGoesOn
  <2>2. CASE G!Ends(p, "exited", "ahead")
    BY <1>3, <1>4, <2>2 DEF G!ReadApplied
  <2> QED
    BY <1>4, <2>1, <2>2 DEF G!ReadApplied
<1>5. ASSUME NEW p \in Process, G!Unlike(p) PROVE BootInv'
  BY <1>3, <1>5 DEF G!Unlike
<1>6. ASSUME NEW p \in Process, G!Serve(p) PROVE BootInv'
  <2> DEFINE o == [boot[p] EXCEPT !.pc = "serving", !.why = "none"]
  <2>1. /\ o \in BootLocal /\ o.pc = "serving" /\ o.why = "none"
        /\ Files[o.build] = G!Own(p)
    BY DEF BootTyped, BootLocal, G!Own
  <2>2. /\ boot' = [boot EXCEPT ![p] = o] /\ UNCHANGED <<schema, records, adopted>>
        /\ lock = p /\ boot[p].known = records
    BY <1>6 DEF G!Serve, G!Ends, G!None, LockHeld, ReadIsCurrent, Applying
  <2>3. \A q \in Process \ {p} : boot[q].pc \notin Applying
    BY <2>2 DEF LockHeld
  <2>4. \A v \in DOMAIN G!Own(p) : records[v] = G!Own(p)[v]
    BY <1>6, <2>2 DEF G!Serve, G!Edited, G!Passed
  <2> HIDE DEF o
  <2> QED
    BY <2>1, <2>2, <2>3, <2>4, BootGoesOn DEF Applying
<1>7. ASSUME NEW p \in Process, G!Begin(p) PROVE BootInv'
  <2> DEFINE o == [boot[p] EXCEPT !.pc = "commit"]
  <2>1. /\ o \in BootLocal /\ o.pc = "commit" /\ o.why # "conflict"
        /\ o.known = boot[p].known /\ Files[o.build] = G!Own(p)
    BY DEF BootTyped, BootLocal, Applying, G!BootsDoNotRace, G!Own
  <2>2. /\ boot' = [boot EXCEPT ![p] = o] /\ UNCHANGED <<schema, records, adopted, lock>>
        /\ lock = p /\ boot[p].known = records /\ G!Pending(p) # {}
    BY <1>7 DEF G!Begin, LockHeld, ReadIsCurrent, Applying
  <2>3. \A q \in Process \ {p} : boot[q].pc \in Applying => lock' = q
    BY <2>2 DEF LockHeld
  <2>4. DOMAIN Files[o.build] \ G!Recorded(o.known) # {}
    BY <2>1, <2>2 DEF G!Pending
  <2> HIDE DEF o
  <2> QED
    BY <2>1, <2>2, <2>3, <2>4, BootGoesOn
<1>8. ASSUME NEW p \in Process, boot[p].pc = "commit"
      PROVE  /\ G!Min(G!Pending(p)) \in G!Pending(p)
             /\ records[G!Min(G!Pending(p))] = "none" /\ lock = p
  <2>1. G!Pending(p) \in SUBSET Nat /\ G!Pending(p) # {}
    BY <1>8, OwnBodies, VersionsAreNumbers DEF CommitsSome
  <2>2. G!Min(G!Pending(p)) \in G!Pending(p)
    BY <2>1, FirstIsIn
  <2>3. boot[p].known = records /\ lock = p
    BY <1>8 DEF ReadIsCurrent, LockHeld, Applying
  <2> QED
    BY <2>2, <2>3, OwnBodies DEF G!Pending, G!Recorded, G!None
<1>9. ASSUME NEW p \in Process, G!Commit(p) PROVE BootInv'
  <2> DEFINE v == G!Min(G!Pending(p))
             o == [boot[p] EXCEPT !.pc = "files", !.known[v] = G!Own(p)[v]]
  <2>1. /\ boot[p].pc = "commit" /\ v \in G!Pending(p) /\ records[v] = "none" /\ lock = p
        /\ boot[p].known = records
    BY <1>8, <1>9 DEF G!Commit, ReadIsCurrent
  <2>2. /\ G!Written(p, v) /\ boot' = [boot EXCEPT ![p] = o] /\ lock' = p
        /\ UNCHANGED adopted
    BY <1>9, <2>1 DEF G!Commit, G!None
  <2>3. v \in G!Version /\ G!Own(p)[v] \in Body
    BY <2>1, OwnBodies
  <2>4. /\ o \in BootLocal /\ o.pc = "files" /\ o.why # "conflict"
        /\ o.known = [records EXCEPT ![v] = G!Own(p)[v]]
    BY <2>1, <2>3 DEF BootTyped, BootLocal, Applying, G!BootsDoNotRace
  <2>5. o.known = records'
    BY <2>2, <2>4 DEF G!Written
  <2> HIDE DEF o, v
  <2> QED
    BY <2>1, <2>2, <2>4, <2>5, BootWrites
<1>10. ASSUME NEW p \in Process, G!Fail(p) PROVE BootInv'
  <2>1. CASE UNCHANGED <<schema, records>>
    BY <1>3, <1>10, <2>1 DEF G!Fail
  <2>2. CASE boot[p].pc = "commit" /\ G!Written(p, G!Min(G!Pending(p)))
    <3> DEFINE v == G!Min(G!Pending(p))
               o == [boot[p] EXCEPT !.pc = "exited", !.why = "failure"]
    <3>1. v \in G!Pending(p) /\ records[v] = "none"
      BY <1>8, <2>2
    <3>2. o \in BootLocal /\ o.pc = "exited" /\ o.why = "failure"
      BY DEF BootTyped, BootLocal
    <3>3. boot' = [boot EXCEPT ![p] = o] /\ UNCHANGED adopted
      BY <1>10 DEF G!Fail, G!Ends
    <3> HIDE DEF o, v
    <3> QED
      BY <2>2, <3>1, <3>2, <3>3, BootWrites DEF v
  <2> QED
    BY <1>10, <2>1, <2>2 DEF G!Fail
<1>11. ASSUME NEW p \in Process, G!Die(p) PROVE BootInv'
  <2>1. G!Down.pc = "down" /\ G!Down.why = "none"
    BY DEF G!Down, G!None
  <2>2. /\ boot' = [boot EXCEPT ![p] = G!Down] /\ UNCHANGED <<schema, records, adopted>>
        /\ \A q \in Process \ {p} : lock = q => lock' = q
    BY <1>11 DEF G!Die
  <2> QED
    BY <1>0, <2>1, <2>2, BootLeaves
<1>12. CASE UNCHANGED mgVars
  BY <1>12 DEF mgVars, BootTyped, LockHeld, ReadIsCurrent, CommitsSome, MadeAsRecorded,
               ServesRecorded, G!BootsDoNotRace, G!Pending, G!Own
<1> QED
  BY <1>1, <1>2, <1>4, <1>5, <1>6, <1>7, <1>9, <1>10, <1>11, <1>12
  DEF G!MigrationsNext, G!BootStep

(* However many builds are started at once, fail, lose the answer to a commit   *)
(* and die, a process serves only on a schema that has every file of its build, *)
(* and no boot ends because another one was at it (migrate/migrate.go Apply).   *)
THEOREM SchemaServed == Spec => []SchemaIsServed
<1>1. Init => BootInv
  BY BootInit DEF Init
<1>2. BootInv /\ [Next]_vars => BootInv'
  BY BootStepInv, PartSteps
<1>3. BootInv => SchemaIsServed
  BY OwnBodies DEF BootInv, SchemaIsServed, G!SchemaIsServed, G!ServesItsSchema,
                   ServesRecorded, MadeAsRecorded
<1> QED
  BY <1>1, <1>2, <1>3, PTL DEF Spec

-----------------------------------------------------------------------------
(* Roster.                                                                  *)

PullLocal == [pc : {"idle", "pull", "write", "over"}, refs : SUBSET Person]

RosterTyped == /\ always \subseteq listed /\ listed \subseteq Person
               /\ rows \in [Person -> {"none", "track", "manual"}]
               /\ pulls \in [R!Runner -> PullLocal]

(* What a runner is about to write has everybody in it who has been listed     *)
(* from the start: a page that may be a part of the roster is not written.      *)
PulledWhole == \A r \in R!Runner : pulls[r].pc = "write" => always \subseteq pulls[r].refs

RosterInv == RosterTyped /\ PulledWhole

LEMMA RosterInitInv == R!RosterInit => RosterInv
BY DEF R!RosterInit, R!Idle, RosterInv, RosterTyped, PulledWhole, PullLocal

LEMMA PullsMove ==
    ASSUME RosterInv, NEW r \in R!Runner, NEW pc, NEW refs,
           [pc |-> pc, refs |-> refs] \in PullLocal, R!Goes(r, pc, refs),
           pc = "write" => always \subseteq refs,
           always' \subseteq always, always' \subseteq listed', listed' \subseteq Person,
           rows' \in [Person -> {"none", "track", "manual"}]
    PROVE  RosterInv'
BY DEF RosterInv, RosterTyped, PulledWhole, R!Goes

LEMMA PullsRest ==
    ASSUME RosterInv, UNCHANGED pulls,
           always' \subseteq always, always' \subseteq listed', listed' \subseteq Person,
           rows' \in [Person -> {"none", "track", "manual"}]
    PROVE  RosterInv'
BY DEF RosterInv, RosterTyped, PulledWhole

LEMMA RosterStepInv == RosterInv /\ (R!RosterNext \/ UNCHANGED roVars) => RosterInv'
<1> SUFFICES ASSUME RosterInv, R!RosterNext \/ UNCHANGED roVars PROVE RosterInv'
  OBVIOUS
<1>0. always \subseteq listed /\ listed \subseteq Person /\ rows \in [Person -> {"none", "track", "manual"}]
  BY DEF RosterInv, RosterTyped
<1>1. ASSUME NEW p \in Person, R!Join(p) \/ R!Leave(p) PROVE RosterInv'
  BY <1>0, <1>1, PullsRest DEF R!Join, R!Leave
<1>2. CASE R!Retire \/ R!FirstContent \/ UNCHANGED roVars
  BY <1>0, <1>2, PullsRest DEF R!Retire, R!FirstContent, roVars
<1>3. ASSUME NEW r \in R!Runner, R!Enumerate(r) \/ R!MemberSync(r) PROVE RosterInv'
  <2>1. UNCHANGED <<always, listed, rows>> /\ (UNCHANGED pulls \/ R!Goes(r, "pull", {}))
    BY <1>3 DEF R!Enumerate, R!MemberSync
  <2>2. [pc |-> "pull", refs |-> {}] \in PullLocal
    BY DEF PullLocal
  <2>3. CASE UNCHANGED pulls
    BY <1>0, <2>1, <2>3, PullsRest
  <2>4. CASE R!Goes(r, "pull", {})
    BY <1>0, <2>1, <2>2, <2>4, PullsMove
  <2> QED
    BY <2>1, <2>3, <2>4
<1>4. ASSUME NEW r \in R!Runner, R!Pull(r) \/ R!Reconcile(r) PROVE RosterInv'
  <2>1. UNCHANGED <<always, listed>>
    BY <1>4 DEF R!Pull, R!Reconcile
  <2>2. rows' \in [Person -> {"none", "track", "manual"}]
    BY <1>0, <1>4 DEF R!Pull, R!Reconcile, R!Reconciled
  <2>3. CASE R!Goes(r, R!After(r), {})
    <3>1. [pc |-> R!After(r), refs |-> {}] \in PullLocal /\ R!After(r) # "write"
      BY DEF PullLocal, R!After
    <3> HIDE DEF R!After
    <3> QED
      BY <1>0, <2>1, <2>2, <2>3, <3>1, PullsMove
  <2>4. ASSUME NEW page \in SUBSET listed, page = listed \/ R!Cardinality(page) = PageLimit,
               R!Whole(page), R!Goes(r, "write", page)
        PROVE  RosterInv'
    <3>0. PageLimit \in Nat
      BY LoopsAssumption DEF R!RosterSizes
    <3>1. page = listed
      <4>1. R!Cardinality(page) < PageLimit
        BY <2>4 DEF R!Whole
      <4>2. R!Cardinality(page) # PageLimit
        BY <3>0, <4>1
      <4> QED
        BY <2>4, <4>2
    <3>2. [pc |-> "write", refs |-> page] \in PullLocal
      BY <1>0, <3>1 DEF PullLocal
    <3> QED
      BY <1>0, <2>1, <2>2, <2>4, <3>1, <3>2, PullsMove
  <2>5. CASE R!Reconcile(r)
    BY <2>3, <2>5 DEF R!Reconcile
  <2>6. CASE R!Pull(r)
    <3>1. \/ R!Goes(r, R!After(r), {})
          \/ \E page \in SUBSET listed :
                /\ page = listed \/ R!Cardinality(page) = PageLimit
                /\ R!Whole(page) /\ R!Goes(r, "write", page)
      BY <2>6 DEF R!Pull
    <3> QED
      BY <2>3, <2>4, <3>1
  <2> QED
    BY <1>4, <2>5, <2>6
<1> QED
  BY <1>1, <1>2, <1>3, <1>4 DEF R!RosterNext, R!RunnerStep

(* A pull that overlaps others, is empty, fails or comes short takes nobody's    *)
(* row away whom Track lists all along (membership/store.go ReconcileWorkspace). *)
THEOREM NoMemberLost == Spec => NoneLostWhileListed
<1>1. RosterInv /\ [Next]_vars
        => [\A p \in always' : rows[p] # "none" => rows'[p] # "none"]_(R!roVars)
  <2> SUFFICES ASSUME RosterInv, [Next]_vars, NEW p \in always', rows[p] # "none"
               PROVE  rows'[p] # "none" \/ UNCHANGED R!roVars
    OBVIOUS
  <2>1. CASE UNCHANGED rows
    BY <2>1
  <2>2. ASSUME NEW r \in R!Runner, R!Reconcile(r), rows' = R!Reconciled(pulls[r].refs)
        PROVE  rows'[p] # "none"
    <3>1. p \in pulls[r].refs
      BY <2>2 DEF R!Reconcile, RosterInv, PulledWhole
    <3>2. p \in Person
      BY <2>2 DEF RosterInv, RosterTyped, R!Reconcile
    <3> QED
      BY <2>2, <3>1, <3>2 DEF R!Reconciled
  <2>3. R!RosterNext \/ UNCHANGED rows
    BY PartSteps DEF roVars
  <2> QED
    BY <2>1, <2>2, <2>3
    DEF R!RosterNext, R!RunnerStep, R!Join, R!Leave, R!Retire, R!FirstContent,
        R!Enumerate, R!MemberSync, R!Pull, R!Reconcile
<1>2. Init => RosterInv
  BY RosterInitInv DEF Init
<1>3. RosterInv /\ [Next]_vars => RosterInv'
  BY RosterStepInv, PartSteps
<1> QED
  BY <1>1, <1>2, <1>3, PTL DEF Spec, NoneLostWhileListed, R!NoneLostWhileListed

-----------------------------------------------------------------------------
(* Spend.                                                                   *)

CallLocal == [pc : {"new", "dial", "sent", "answered", "done"},
              page : Page \cup {NoPage}, payer : Payer]

EventRow == [state : {"none", "unpriced", "priced"},
             page : Page \cup {NoPage}, revision : Nat]

SpendTyped == /\ calls \in [Call -> CallLocal]
              /\ cost \in [Call -> 0..1]
              /\ pages \subseteq Page
              /\ version \in [Page -> Nat]
              /\ own \in [Page -> Nat]
              /\ events \in [Call -> EventRow]

(* Lens has billed nothing before a request reached it; what is bound is over,   *)
(* so it is not billed any more, and its page is there.                        *)
UnsentIsFree == \A c \in Call : calls[c].pc \in {"new", "dial"} => cost[c] = 0

BoundIsOver == \A c \in Call : events[c].state # "none" =>
                   calls[c].pc = "done" /\ events[c].page \in pages

OwnIsSum == \A p \in pages : own[p] = CostOf(Priced(p))

SpendInv == SpendTyped /\ UnsentIsFree /\ BoundIsOver /\ OwnIsSum

(* Costs of two sets of calls that are apart add up. *)
LEMMA UnitsFinite ==
    ASSUME SpendTyped, NEW S \in SUBSET Call
    PROVE  IsFiniteSet(Units(S))
<1>0. 1 \in Int /\ MaxCalls \in Int
  BY SpendAssumption
<1>1. IsFiniteSet(Call) /\ IsFiniteSet(1..1)
  <2>1. IsFiniteSet(1..MaxCalls) /\ IsFiniteSet(1..1)
    BY <1>0, FS_Interval
  <2> QED
    BY <2>1 DEF Call
<1>2. IsFiniteSet(Call \X (1..1))
  BY <1>1, FS_Product
<1>3. Units(S) \subseteq Call \X (1..1)
  BY DEF SpendTyped, Units
<1> QED
  BY <1>2, <1>3, FS_Subset

LEMMA CostAdds ==
    ASSUME SpendTyped, NEW S \in SUBSET Call, NEW T \in SUBSET Call, S \cap T = {}
    PROVE  CostOf(S \cup T) = CostOf(S) + CostOf(T) /\ CostOf(S) \in Nat /\ CostOf(T) \in Nat
<1>1. Units(S \cup T) = Units(S) \cup Units(T)
  BY DEF Units
<1>2. Units(S) \cap Units(T) = {}
  BY DEF Units
<1>3. Cardinality(Units(S) \cap Units(T)) = 0
  BY <1>2, FS_EmptySet
<1>4. IsFiniteSet(Units(S)) /\ IsFiniteSet(Units(T))
  BY UnitsFinite
<1>5. Cardinality(Units(S)) \in Nat /\ Cardinality(Units(T)) \in Nat
  BY <1>4, FS_CardinalityType
<1>6. Cardinality(Units(S) \cup Units(T)) = Cardinality(Units(S)) + Cardinality(Units(T)) - 0
  BY <1>3, <1>4, FS_Union
<1>7. Cardinality(Units(S \cup T)) = Cardinality(Units(S)) + Cardinality(Units(T))
  <2>1. \A m, n \in Nat : m + n - 0 = m + n
    OBVIOUS
  <2> QED
    BY <1>1, <1>5, <1>6, <2>1, Zenon
<1> QED
  BY <1>5, <1>7 DEF CostOf

LEMMA CostOfOne ==
    ASSUME SpendTyped, NEW c \in Call
    PROVE  CostOf({c}) = cost[c]
<1>1. CASE cost[c] = 0
  <2>1. Units({c}) = {}
    BY <1>1 DEF Units
  <2> QED
    BY <1>1, <2>1, FS_EmptySet DEF CostOf
<1>2. CASE cost[c] = 1
  <2>1. Units({c}) = {<<c, 1>>}
    BY <1>2 DEF Units
  <2> QED
    BY <1>2, <2>1, FS_Singleton DEF CostOf
<1> QED
  BY <1>1, <1>2 DEF SpendTyped

LEMMA SpendInitInv == SpendInit => SpendInv
<1> SUFFICES ASSUME SpendInit PROVE SpendInv
  OBVIOUS
<1>1. SpendTyped
  BY SpendAssumption
  DEF SpendInit, SpendTyped, CallLocal, EventRow, NoCall, NoEvent, NoPage, Payer
<1>2. UnsentIsFree /\ BoundIsOver
  BY DEF SpendInit, UnsentIsFree, BoundIsOver, NoEvent
<1>3. ASSUME NEW p \in pages PROVE own[p] = CostOf(Priced(p))
  <2>1. Priced(p) = {}
    BY DEF SpendInit, Priced, NoEvent
  <2>2. Units(Priced(p)) = {}
    BY <2>1 DEF Units
  <2> QED
    BY <2>2, FS_EmptySet DEF CostOf, SpendInit
<1> QED
  BY <1>1, <1>2, <1>3 DEF SpendInv, OwnIsSum

(* The sum stays while no priced call changes its cost or its row. *)
LEMMA SumStays ==
    ASSUME SpendInv, SpendTyped', pages' \subseteq pages,
           \A p \in pages' : own'[p] = own[p],
           \A c \in Call : events[c].state = "priced" => cost'[c] = cost[c],
           \A c \in Call : events[c].page \in pages' \/ events'[c].state = "priced" =>
                              (events'[c].state = "priced" <=> events[c].state = "priced"),
           \A c \in Call : events'[c].state = "priced" => events'[c].page = events[c].page
    PROVE  OwnIsSum'
<1> SUFFICES ASSUME NEW p \in pages' PROVE own'[p] = CostOf(Priced(p))'
  BY DEF OwnIsSum
<1>1. Priced(p)' = Priced(p)
  BY DEF Priced
<1>2. Units(Priced(p))' = Units(Priced(p))
  BY <1>1 DEF Units, Priced
<1> QED
  BY <1>2 DEF SpendInv, OwnIsSum, CostOf

LEMMA CallsMove ==
    ASSUME SpendInv, NEW c \in Call, NEW pc \in {"dial", "sent", "answered", "done"}, Goes(c, pc)
    PROVE  /\ calls' \in [Call -> CallLocal] /\ calls'[c].pc = pc
           /\ \A b \in Call \ {c} : calls'[b] = calls[b]
BY DEF SpendInv, SpendTyped, CallLocal, Goes

LEMMA SpendStepInv == SpendInv /\ (SpendNext \/ UNCHANGED spVars) => SpendInv'
<1> SUFFICES ASSUME SpendInv, SpendNext \/ UNCHANGED spVars PROVE SpendInv'
  OBVIOUS
<1>0. SpendTyped /\ UnsentIsFree /\ BoundIsOver /\ OwnIsSum
  BY DEF SpendInv
<1>1. ASSUME NEW c \in Call, NEW p \in Page \cup {NoPage}, NEW w \in Payer, Run(c, p, w)
      PROVE  SpendInv'
  <2>1. UNCHANGED <<cost, pages, version, own, events>> /\ calls[c].pc = "new"
    BY <1>1 DEF Run
  <2>2. [pc |-> "dial", page |-> p, payer |-> w] \in CallLocal
    BY DEF CallLocal
  <2>3. /\ calls' \in [Call -> CallLocal] /\ calls'[c].pc = "dial"
        /\ \A b \in Call \ {c} : calls'[b] = calls[b]
    BY <1>0, <1>1, <2>2 DEF Run, SpendTyped
  <2>4. SpendTyped'
    BY <1>0, <2>1, <2>3 DEF SpendTyped
  <2>5. UnsentIsFree' /\ BoundIsOver'
    BY <1>0, <2>1, <2>3 DEF UnsentIsFree, BoundIsOver
  <2> QED
    BY <2>1, <2>4, <2>5, SumStays DEF SpendInv
<1>2. ASSUME NEW c \in Call, Reach(c) PROVE SpendInv'
  <2>1. /\ UNCHANGED <<pages, version, own, events>> /\ calls[c].pc = "dial"
        /\ cost' = [cost EXCEPT ![c] = @ + 1] /\ Goes(c, "sent")
    BY <1>2 DEF Reach
  <2>2. /\ calls' \in [Call -> CallLocal] /\ calls'[c].pc = "sent"
        /\ \A b \in Call \ {c} : calls'[b] = calls[b]
    BY <2>1, CallsMove
  <2>3. cost[c] = 0 /\ events[c].state = "none"
    BY <1>0, <2>1 DEF UnsentIsFree, BoundIsOver, SpendTyped, EventRow
  <2>4. cost' \in [Call -> 0..1] /\ \A b \in Call \ {c} : cost'[b] = cost[b]
    BY <1>0, <2>1, <2>3 DEF SpendTyped
  <2>5. SpendTyped'
    BY <1>0, <2>1, <2>2, <2>4 DEF SpendTyped
  <2>6. UnsentIsFree' /\ BoundIsOver'
    BY <1>0, <2>1, <2>2, <2>3, <2>4 DEF UnsentIsFree, BoundIsOver
  <2> QED
    BY <2>1, <2>3, <2>4, <2>5, <2>6, SumStays DEF SpendInv
<1>3. ASSUME NEW c \in Call, Break(c) \/ Answered(c) PROVE SpendInv'
  <2>1. /\ UNCHANGED <<cost, pages, version, own, events>> /\ calls[c].pc \in {"dial", "sent"}
        /\ \/ Goes(c, "dial") /\ calls[c].pc = "dial"
           \/ Goes(c, "done") \/ Goes(c, "answered")
    BY <1>3 DEF Break, Answered, AgainAfter
  <2>2. PICK pc \in {"dial", "answered", "done"} :
           /\ calls' \in [Call -> CallLocal] /\ calls'[c].pc = pc
           /\ \A b \in Call \ {c} : calls'[b] = calls[b]
           /\ pc = "dial" => calls[c].pc = "dial"
    BY <2>1, CallsMove
  <2>3. SpendTyped'
    BY <1>0, <2>1, <2>2 DEF SpendTyped
  <2>4. UnsentIsFree' /\ BoundIsOver'
    BY <1>0, <2>1, <2>2 DEF UnsentIsFree, BoundIsOver
  <2> QED
    BY <2>1, <2>3, <2>4, SumStays DEF SpendInv
<1>4. ASSUME NEW c \in Call, Bind(c) PROVE SpendInv'
  <2> DEFINE p == calls[c].page
             e == [state |-> "unpriced", page |-> p, revision |-> version[p] + 1]
  <2>1. /\ UNCHANGED <<cost, pages, version, own>> /\ calls[c].pc = "answered"
        /\ Goes(c, "done")
        /\ \/ p \in pages /\ events[c] = NoEvent /\ events' = [events EXCEPT ![c] = e]
           \/ UNCHANGED events
    BY <1>4 DEF Bind
  <2>2. /\ calls' \in [Call -> CallLocal] /\ calls'[c].pc = "done"
        /\ \A b \in Call \ {c} : calls'[b] = calls[b]
    BY <2>1, CallsMove
  <2>3. CASE UNCHANGED events
    <3>1. SpendTyped'
      BY <1>0, <2>1, <2>2, <2>3 DEF SpendTyped
    <3>2. UnsentIsFree' /\ BoundIsOver'
      BY <1>0, <2>1, <2>2, <2>3 DEF UnsentIsFree, BoundIsOver
    <3> QED
      BY <2>1, <2>3, <3>1, <3>2, SumStays DEF SpendInv
  <2>4. CASE p \in pages /\ events[c] = NoEvent /\ events' = [events EXCEPT ![c] = e]
    <3>1. e \in EventRow
      BY <1>0, <2>4 DEF SpendTyped, EventRow
    <3>2. events[c].state = "none" /\ e.state = "unpriced" /\ e.page \in pages
      BY <2>4 DEF NoEvent
    <3> HIDE DEF e
    <3>3. /\ events' \in [Call -> EventRow] /\ events'[c] = e
          /\ \A b \in Call \ {c} : events'[b] = events[b]
      BY <1>0, <2>4, <3>1 DEF SpendTyped
    <3>4. SpendTyped'
      BY <1>0, <2>1, <2>2, <3>3 DEF SpendTyped
    <3>5. UnsentIsFree' /\ BoundIsOver'
      BY <1>0, <2>1, <2>2, <3>2, <3>3 DEF UnsentIsFree, BoundIsOver
    <3> QED
      BY <2>1, <3>2, <3>3, <3>4, <3>5, SumStays DEF SpendInv
  <2> QED
    BY <2>1, <2>3, <2>4
<1>5. ASSUME NEW p \in Page, DeletePage(p) PROVE SpendInv'
  <2>1. /\ UNCHANGED <<calls, cost, version>> /\ pages' = pages \ {p}
        /\ own' = [own EXCEPT ![p] = 0]
        /\ events' = [c \in Call |-> IF events[c].page = p THEN NoEvent ELSE events[c]]
    BY <1>5 DEF DeletePage
  <2>2. NoEvent \in EventRow /\ NoEvent.state = "none"
    BY DEF NoEvent, EventRow
  <2>3. SpendTyped'
    BY <1>0, <2>1, <2>2 DEF SpendTyped
  <2>4. UnsentIsFree' /\ BoundIsOver'
    BY <1>0, <2>1, <2>2 DEF UnsentIsFree, BoundIsOver
  <2>5. \A q \in pages' : own'[q] = own[q]
    BY <1>0, <2>1 DEF SpendTyped
  <2>6. /\ \A c \in Call : events[c].page \in pages' => events'[c] = events[c]
        /\ \A c \in Call : events'[c].state = "priced" => events'[c] = events[c]
    BY <2>1, <2>2
  <2> QED
    BY <2>1, <2>3, <2>4, <2>5, <2>6, SumStays DEF SpendInv
<1>6. ASSUME NEW p \in Page, SavePage(p) PROVE SpendInv'
  <2>1. /\ UNCHANGED <<calls, cost, pages, own, events>>
        /\ version' = [version EXCEPT ![p] = @ + 1]
    BY <1>6 DEF SavePage
  <2>2. SpendTyped'
    BY <1>0, <2>1 DEF SpendTyped
  <2>3. UnsentIsFree' /\ BoundIsOver'
    BY <1>0, <2>1 DEF UnsentIsFree, BoundIsOver
  <2> QED
    BY <2>1, <2>2, <2>3, SumStays DEF SpendInv
<1>7. CASE UNCHANGED <<calls, cost, pages, version, own, events>>
  <2>1. SpendTyped'
    BY <1>0, <1>7 DEF SpendTyped
  <2>2. UnsentIsFree' /\ BoundIsOver'
    BY <1>0, <1>7 DEF UnsentIsFree, BoundIsOver
  <2> QED
    BY <1>7, <2>1, <2>2, SumStays DEF SpendInv
<1>8. ASSUME NEW c \in Call, Priceable(c), UNCHANGED <<calls, cost, pages, version>>,
             events' = [events EXCEPT ![c].state = "priced"],
             own' = [own EXCEPT ![events[c].page] = @ + cost[c]]
      PROVE  SpendInv'
  <2> DEFINE p == events[c].page
  <2>1. p \in pages /\ p \in Page /\ events[c].state = "unpriced"
    BY <1>0, <1>8 DEF Priceable, BoundIsOver, SpendTyped
  <2>2. /\ events'[c].state = "priced" /\ events'[c].page = p /\ events'[c] \in EventRow
        /\ \A b \in Call \ {c} : events'[b] = events[b]
    BY <1>0, <1>8 DEF SpendTyped, EventRow
  <2>3. cost[c] \in Nat /\ own[p] \in Nat /\ own'[p] = own[p] + cost[c]
        /\ \A q \in Page \ {p} : own'[q] = own[q]
    BY <1>0, <1>8, <2>1 DEF SpendTyped
  <2>4. SpendTyped'
    <3>1. own' \in [Page -> Nat]
      BY <1>0, <1>8, <2>1, <2>3 DEF SpendTyped
    <3>2. events' \in [Call -> EventRow]
      BY <1>0, <1>8, <2>2 DEF SpendTyped
    <3> QED
      BY <1>0, <1>8, <3>1, <3>2 DEF SpendTyped
  <2>5. UnsentIsFree' /\ BoundIsOver'
    BY <1>0, <1>8, <2>1, <2>2 DEF UnsentIsFree, BoundIsOver
  <2>6. ASSUME NEW q \in pages PROVE own'[q] = CostOf(Priced(q))'
    <3>0. CostOf(Priced(q))' = CostOf(Priced(q)')
      BY <1>8 DEF CostOf, Units
    <3>1. CASE q = p
      <4>1. Priced(q)' = Priced(q) \cup {c} /\ c \notin Priced(q) /\ Priced(q) \subseteq Call
        BY <2>1, <2>2, <3>1 DEF Priced
      <4>2. CostOf(Priced(q) \cup {c}) = CostOf(Priced(q)) + cost[c]
        <5>1. {c} \in SUBSET Call /\ Priced(q) \cap {c} = {}
          BY <4>1
        <5>2. CostOf(Priced(q) \cup {c}) = CostOf(Priced(q)) + CostOf({c})
          BY <1>0, <4>1, <5>1, CostAdds
        <5> QED
          BY <1>0, <5>2, CostOfOne
      <4> QED
        BY <1>0, <2>3, <3>0, <3>1, <4>1, <4>2 DEF OwnIsSum
    <3>2. CASE q # p
      <4>1. Priced(q)' = Priced(q)
        BY <2>1, <2>2, <3>2 DEF Priced
      <4> QED
        BY <1>0, <2>3, <3>0, <3>2, <4>1 DEF OwnIsSum, SpendTyped
    <3> QED
      BY <3>1, <3>2
  <2> QED
    BY <1>8, <2>4, <2>5, <2>6 DEF SpendInv, OwnIsSum
<1>9. ASSUME NEW s \in Sweeper, SweepStep(s) PROVE SpendInv'
  BY <1>7, <1>8, <1>9 DEF SweepStep, Enumerate, Pull, Price
<1>10. ASSUME NEW c \in Call, Age(c) PROVE SpendInv'
  BY <1>7, <1>10 DEF Age
<1> QED
  BY <1>1, <1>2, <1>3, <1>4, <1>5, <1>6, <1>7, <1>9, <1>10
  DEF SpendNext, spVars, Write, Transform, Translate, SuggestTitle, Ask

(* What a page is said to have cost is what Lens billed for the priced calls bound *)
(* to it, each billed at most once and counted once, however many sweeps overlap,  *)
(* dials are tried again and statements fail; and its versions, with what waits    *)
(* for the next save, add up to it (ai_spend.go PriceAISpend, VersionCostSplit).   *)
THEOREM OwnCostCounted == Spec => []OwnCostOnce
<1>1. Init => SpendInv
  BY SpendInitInv DEF Init
<1>2. SpendInv /\ [Next]_vars => SpendInv'
  BY SpendStepInv, PartSteps
<1>3. SpendInv => OwnCostOnce
  <2> SUFFICES ASSUME SpendInv PROVE OwnCostOnce
    OBVIOUS
  <2>1. \A c \in Call : cost[c] <= 1
    BY DEF SpendInv, SpendTyped
  <2>2. ASSUME NEW p \in pages PROVE Attributed(p) + Pending(p) = own[p]
    <3> DEFINE A == {c \in Priced(p) : events[c].revision <= version[p]}
               B == {c \in Priced(p) : events[c].revision > version[p]}
    <3>1. A \in SUBSET Call /\ B \in SUBSET Call
      BY DEF Priced
    <3>2. /\ version[p] \in Nat
          /\ \A c \in Priced(p) : events[c].revision \in Nat
      BY DEF SpendInv, SpendTyped, EventRow, Priced
    <3>3. A \cap B = {} /\ A \cup B = Priced(p)
      BY <3>2
    <3>4. CostOf(A) + CostOf(B) = CostOf(Priced(p))
      BY <3>1, <3>3, CostAdds DEF SpendInv
    <3> QED
      BY <3>4 DEF SpendInv, OwnIsSum, Attributed, Pending
  <2> QED
    BY <2>1, <2>2 DEF OwnCostOnce
<1> QED
  BY <1>1, <1>2, <1>3, PTL DEF Spec

-----------------------------------------------------------------------------
(* Index.                                                                   *)

SomeText == [n : Nat \ {0}, blank : BOOLEAN]
AnyText == SomeText \cup {I!NoText}

WorkerLocal == [pc : {"run", "wait", "embed", "back", "exited"},
                page : Indexed \cup {"none"}, text : AnyText]

IndexTyped == /\ text \in [Indexed -> AnyText]
              /\ hooks \subseteq [page : Indexed, text : SomeText]
              /\ latest \in [Indexed -> AnyText]
              /\ status \in [Indexed -> {"idle", "scheduled", "queued", "inflight"}]
              /\ queue \in Seq(Indexed)
              /\ worker \in [Worker -> WorkerLocal]
              /\ vector \in [Indexed -> Nat]
              /\ accepted \in [Indexed -> AnyText]
              /\ lost \subseteq Indexed

(* The status of a page says where it is: in one place of the queue, or with one *)
(* worker, which holds it from the take to the end of the loop.                 *)
PlacesAreQueued ==
    /\ \A i \in DOMAIN queue : status[queue[i]] = "queued"
    /\ \A i, j \in DOMAIN queue : queue[i] = queue[j] => i = j

WorkIsInflight ==
    /\ \A w \in Worker : worker[w].pc \in {"embed", "back"} <=> worker[w].page # "none"
    /\ \A w \in Worker : worker[w].page # "none" => status[worker[w].page] = "inflight"
    /\ \A v, w \in Worker : worker[v].page = worker[w].page /\ worker[w].page # "none" => v = w

InflightHasWorker ==
    \A p \in Indexed : status[p] = "inflight" => \E w \in Worker : worker[w].page = p

Busy == {w \in Worker : worker[w].page # "none"}

InflightCounts == inflight = Cardinality(Busy)

(* The last text handed in is what waits, or what a worker embeds, or what is      *)
(* stored; nothing of it is known of a page that met a failure.                  *)
LastIsOnItsWay ==
    \A p \in Indexed \ lost :
        /\ latest[p] # I!NoText => latest[p] = accepted[p]
        /\ status[p] = "idle" => vector[p] = I!Shown(accepted[p])
        /\ status[p] \in {"scheduled", "queued"} => latest[p] = accepted[p]
        /\ \A w \in Worker : worker[w].page = p /\ latest[p] = I!NoText =>
              /\ worker[w].pc = "embed" => worker[w].text = accepted[p]
              /\ worker[w].pc = "back" => vector[p] = I!Shown(accepted[p])

IdleIsTaken == \A p \in Indexed : status[p] = "idle" => latest[p] = I!NoText

IndexPlaces == PlacesAreQueued /\ WorkIsInflight /\ InflightHasWorker /\ InflightCounts

IndexInv == IndexTyped /\ IndexPlaces /\ LastIsOnItsWay /\ IdleIsTaken

LEMMA IndexSizes == /\ IsFiniteSet(Indexed) /\ IsFiniteSet(Worker) /\ "none" \notin Indexed
                    /\ \A S : I!Cardinality(S) = Cardinality(S)
<1>1. \A S : I!Cardinality(S) = Cardinality(S)
  BY DEF I!Cardinality, Cardinality
<1>2. \A S : I!IsFiniteSet(S) = IsFiniteSet(S)
  BY DEF I!IsFiniteSet, IsFiniteSet
<1> QED
  BY <1>1, <1>2, LoopsAssumption DEF I!PageIndexSizes

LEMMA BusyFinite == IsFiniteSet(Busy)
BY IndexSizes, FS_Subset, Busy \subseteq Worker DEF Busy

LEMMA EmptyTexts == /\ I!NoText \notin SomeText /\ I!NoText \in AnyText /\ SomeText \subseteq AnyText
                    /\ I!Shown(I!NoText) = 0 /\ \A t \in AnyText : I!Shown(t) \in Nat
BY DEF I!NoText, SomeText, AnyText, I!Shown

LEMMA RestingLocal ==
    \A pc \in {"run", "wait", "exited"} :
        I!At(pc) \in WorkerLocal /\ I!At(pc).page = "none" /\ I!At(pc).pc = pc
BY DEF I!At, WorkerLocal, AnyText

LEMMA IndexInitInv == I!Init => IndexInv
<1> SUFFICES ASSUME I!Init PROVE IndexInv
  OBVIOUS
<1> USE DEF I!Init, I!ThrottleInit
<1>1. IndexTyped
  BY EmptyTexts, RestingLocal DEF IndexTyped
<1>2. PlacesAreQueued /\ WorkIsInflight /\ InflightHasWorker
  BY RestingLocal DEF PlacesAreQueued, WorkIsInflight, InflightHasWorker
<1>3. InflightCounts
  <2>1. Busy = {}
    BY RestingLocal DEF Busy
  <2> QED
    BY <2>1, FS_EmptySet DEF InflightCounts
<1>4. LastIsOnItsWay /\ IdleIsTaken
  BY EmptyTexts, RestingLocal, IndexSizes DEF LastIsOnItsWay, IdleIsTaken
<1> QED
  BY <1>1, <1>2, <1>3, <1>4 DEF IndexInv, IndexPlaces

(* Workers that are woken, or go to sleep, hold no page before or after. *)
SameWork(ws) == /\ worker' \in [Worker -> WorkerLocal]
                /\ \A w \in Worker :
                      \/ worker'[w] = ws[w]
                      \/ /\ ws[w].page = "none" /\ worker'[w].page = "none"
                         /\ worker'[w].pc \notin {"embed", "back"}

LEMMA SignalWakes ==
    ASSUME NEW ws \in [Worker -> WorkerLocal],
           \A w \in Worker : ws[w].pc = "wait" => ws[w].page = "none",
           I!Signal(ws)
    PROVE  SameWork(ws)
<1>1. CASE worker' = ws
  BY <1>1 DEF SameWork
<1>2. ASSUME NEW w \in Worker, ws[w].pc = "wait", worker' = [ws EXCEPT ![w] = I!At("run")]
      PROVE  SameWork(ws)
  BY <1>2, RestingLocal DEF SameWork
<1> QED
  BY <1>1, <1>2 DEF I!Signal

(* What no worker holds moves freely. *)
LEMMA WorkStays ==
    ASSUME IndexInv, SameWork(worker), inflight' = inflight,
           \A p \in Indexed : status'[p] = "inflight" <=> status[p] = "inflight"
    PROVE  /\ WorkIsInflight' /\ InflightHasWorker' /\ InflightCounts'
           /\ \A w \in Worker : worker'[w].page = worker[w].page
           /\ \A w \in Worker : worker[w].page # "none" => worker'[w] = worker[w]
<1>1. /\ \A w \in Worker : worker'[w].page = worker[w].page
      /\ \A w \in Worker : worker[w].page # "none" => worker'[w] = worker[w]
      /\ \A w \in Worker : worker[w].page = "none" => worker'[w].pc \notin {"embed", "back"}
  BY DEF SameWork, IndexInv, IndexPlaces, WorkIsInflight
<1>2. \A w \in Worker : worker[w].page # "none" => worker[w].page \in Indexed
  BY DEF IndexInv, IndexTyped, WorkerLocal
<1>3. WorkIsInflight'
  BY <1>1, <1>2 DEF IndexInv, IndexPlaces, WorkIsInflight
<1>4. InflightHasWorker'
  BY <1>1 DEF IndexInv, IndexPlaces, InflightHasWorker
<1>5. Busy' = Busy
  BY <1>1 DEF Busy
<1>6. InflightCounts'
  BY <1>5 DEF IndexInv, IndexPlaces, InflightCounts
<1> QED
  BY <1>1, <1>3, <1>4, <1>6

LEMMA IndexStepInv == IndexInv /\ (I!Next \/ UNCHANGED ixVars) => IndexInv'
<1> SUFFICES ASSUME IndexInv, I!Next \/ UNCHANGED ixVars PROVE IndexInv'
  OBVIOUS
<1>0. /\ IndexTyped /\ PlacesAreQueued /\ WorkIsInflight /\ InflightHasWorker /\ InflightCounts
      /\ LastIsOnItsWay /\ IdleIsTaken
  BY DEF IndexInv, IndexPlaces
<1>a. \A w \in Worker : worker[w].page # "none" => worker[w].page \in Indexed
  BY DEF IndexInv, IndexTyped, WorkerLocal
<1>b. UNCHANGED worker => SameWork(worker)
  BY <1>0 DEF SameWork, IndexTyped
<1>1. ASSUME NEW p \in Indexed, NEW blank \in BOOLEAN, I!Save(p, blank) PROVE IndexInv'
  <2> DEFINE new == [n |-> text[p].n + 1, blank |-> blank]
  <2>1. new \in SomeText
    <3>1. text[p] \in AnyText
      BY <1>0 DEF IndexTyped
    <3>2. text[p].n \in Nat
      BY <3>1 DEF AnyText, SomeText, I!NoText
    <3>3. text[p].n + 1 \in Nat \ {0}
      BY <3>2
    <3> QED
      BY <3>3 DEF SomeText
  <2>2. /\ text' = [text EXCEPT ![p] = new]
        /\ hooks' = hooks \cup {[page |-> p, text |-> new]}
        /\ UNCHANGED <<latest, status, queue, inflight, worker, vector, accepted, lost>>
    BY <1>1 DEF I!Save, I!throttle
  <2>3. IndexTyped'
    BY <1>0, <2>1, <2>2 DEF IndexTyped, AnyText
  <2>4. WorkIsInflight' /\ InflightHasWorker' /\ InflightCounts'
    BY <1>b, <2>2, WorkStays
  <2>5. PlacesAreQueued' /\ LastIsOnItsWay' /\ IdleIsTaken'
    BY <1>0, <2>2 DEF PlacesAreQueued, LastIsOnItsWay, IdleIsTaken
  <2> QED
    BY <2>3, <2>4, <2>5 DEF IndexInv, IndexPlaces
<1>2. ASSUME NEW h \in hooks, I!Enqueue(h) PROVE IndexInv'
  <2> DEFINE p == h.page
  <2>1. p \in Indexed /\ h.text \in SomeText /\ h.text # I!NoText /\ h.text \in AnyText
    BY <1>0, EmptyTexts DEF IndexTyped
  <2>2. /\ hooks' = hooks \ {h} /\ latest' = [latest EXCEPT ![p] = h.text]
        /\ status' = [status EXCEPT ![p] = IF status[p] = "idle" THEN "scheduled" ELSE status[p]]
        /\ accepted' = [accepted EXCEPT ![p] = h.text] /\ lost' = lost \ {p}
        /\ UNCHANGED <<text, queue, inflight, worker, vector>>
    BY <1>2 DEF I!Enqueue
  <2>3. IndexTyped'
    BY <1>0, <2>1, <2>2 DEF IndexTyped
  <2>4. /\ latest'[p] = h.text /\ accepted'[p] = h.text /\ status'[p] # "idle"
        /\ \A q \in Indexed \ {p} : /\ latest'[q] = latest[q] /\ accepted'[q] = accepted[q]
                                    /\ status'[q] = status[q]
        /\ status[p] # "idle" => status'[p] = status[p]
        /\ status[p] = "idle" => status'[p] = "scheduled"
    BY <1>0, <2>1, <2>2 DEF IndexTyped
  <2>5. WorkIsInflight' /\ InflightHasWorker' /\ InflightCounts'
    BY <1>b, <2>2, <2>4, WorkStays
  <2>6. PlacesAreQueued'
    BY <1>0, <2>2, <2>4 DEF PlacesAreQueued, IndexTyped
  <2>7. LastIsOnItsWay'
    BY <1>0, <2>1, <2>2, <2>4 DEF LastIsOnItsWay
  <2>8. IdleIsTaken'
    BY <1>0, <2>1, <2>4 DEF IdleIsTaken
  <2> QED
    BY <2>3, <2>5, <2>6, <2>7, <2>8 DEF IndexInv, IndexPlaces
<1>3. ASSUME NEW p \in Indexed, I!Promote(p) PROVE IndexInv'
  <2>1. /\ status[p] = "scheduled" /\ status' = [status EXCEPT ![p] = "queued"]
        /\ queue' = Append(queue, p) /\ I!Signal(worker)
        /\ UNCHANGED <<text, hooks, latest, inflight, vector, accepted, lost>>
    BY <1>3 DEF I!Promote
  <2>2. SameWork(worker)
    BY <1>0, <2>1, SignalWakes DEF IndexTyped, WorkIsInflight
  <2>3. IndexTyped'
    BY <1>0, <2>1, <2>2 DEF IndexTyped, SameWork
  <2>4. status'[p] = "queued" /\ \A q \in Indexed \ {p} : status'[q] = status[q]
    BY <1>0, <2>1 DEF IndexTyped
  <2>5. /\ WorkIsInflight' /\ InflightHasWorker' /\ InflightCounts'
        /\ \A w \in Worker : worker'[w].page = worker[w].page
        /\ \A w \in Worker : worker[w].page # "none" => worker'[w] = worker[w]
    BY <2>1, <2>2, <2>4, WorkStays
  <2>6. PlacesAreQueued'
    BY <1>0, <2>1, <2>4 DEF PlacesAreQueued, IndexTyped
  <2>7. LastIsOnItsWay' /\ IdleIsTaken'
    BY <1>0, <2>1, <2>4, <2>5, IndexSizes DEF LastIsOnItsWay, IdleIsTaken
  <2> QED
    BY <2>3, <2>5, <2>6, <2>7 DEF IndexInv, IndexPlaces
<1>4. ASSUME NEW w \in Worker, I!Take(w), queue = <<>> PROVE IndexInv'
  <2>1. PICK pc \in {"wait", "exited"} : worker' = [worker EXCEPT ![w] = I!At(pc)]
    BY <1>4 DEF I!Take
  <2>2. /\ UNCHANGED <<text, hooks, latest, status, queue, inflight, vector, accepted, lost>>
        /\ worker[w].pc = "run"
    BY <1>4 DEF I!Take
  <2>3. SameWork(worker)
    BY <1>0, <2>1, <2>2, RestingLocal DEF SameWork, IndexTyped, WorkIsInflight
  <2>4. IndexTyped'
    BY <1>0, <2>2, <2>3 DEF IndexTyped, SameWork
  <2>5. /\ WorkIsInflight' /\ InflightHasWorker' /\ InflightCounts'
        /\ \A v \in Worker : worker'[v].page = worker[v].page
        /\ \A v \in Worker : worker[v].page # "none" => worker'[v] = worker[v]
    BY <2>2, <2>3, WorkStays
  <2>6. PlacesAreQueued' /\ LastIsOnItsWay' /\ IdleIsTaken'
    BY <1>0, <2>2, <2>5, IndexSizes DEF PlacesAreQueued, LastIsOnItsWay, IdleIsTaken
  <2> QED
    BY <2>4, <2>5, <2>6 DEF IndexInv, IndexPlaces
<1>5. ASSUME NEW w \in Worker, I!Take(w), queue # <<>> PROVE IndexInv'
  <2> DEFINE p == Head(queue)
             o == [pc |-> "embed", page |-> p, text |-> latest[p]]
  <2>1. /\ queue' = Tail(queue) /\ worker' = [worker EXCEPT ![w] = o]
        /\ latest' = [latest EXCEPT ![p] = I!NoText]
        /\ status' = [status EXCEPT ![p] = "inflight"] /\ inflight' = inflight + 1
        /\ UNCHANGED <<text, hooks, vector, accepted, lost>> /\ worker[w].pc = "run"
    BY <1>5 DEF I!Take
  <2>2. p \in Indexed /\ p = queue[1] /\ 1 \in DOMAIN queue /\ status[p] = "queued" /\ p # "none"
    BY <1>0, <1>5, IndexSizes DEF IndexTyped, PlacesAreQueued
  <2>3. o \in WorkerLocal /\ o.page = p /\ o.pc = "embed" /\ o.text = latest[p]
    BY <1>0, <2>2 DEF IndexTyped, WorkerLocal
  <2> HIDE DEF o
  <2>4. /\ worker' \in [Worker -> WorkerLocal] /\ worker'[w] = o
        /\ \A v \in Worker \ {w} : worker'[v] = worker[v]
    BY <1>0, <2>1, <2>3 DEF IndexTyped
  <2>5. /\ latest'[p] = I!NoText /\ status'[p] = "inflight"
        /\ \A q \in Indexed \ {p} : latest'[q] = latest[q] /\ status'[q] = status[q]
    BY <1>0, <2>1, <2>2 DEF IndexTyped
  <2>6. IndexTyped'
    <3>1. Tail(queue) \in Seq(Indexed)
      BY <1>0, <1>5 DEF IndexTyped
    <3>2. latest' \in [Indexed -> AnyText]
      BY <1>0, <2>1, <2>2, EmptyTexts DEF IndexTyped
    <3>3. status' \in [Indexed -> {"idle", "scheduled", "queued", "inflight"}]
      BY <1>0, <2>1, <2>2 DEF IndexTyped
    <3> QED
      BY <1>0, <2>1, <2>4, <3>1, <3>2, <3>3 DEF IndexTyped
  <2>7. \A i \in DOMAIN queue' : i + 1 \in DOMAIN queue /\ i + 1 # 1 /\ queue'[i] = queue[i + 1]
    BY <1>0, <1>5, <2>1 DEF IndexTyped
  <2>8. PlacesAreQueued'
    <3>1. \A i \in DOMAIN queue' : queue'[i] \in Indexed /\ queue'[i] # p
      BY <1>0, <2>2, <2>7 DEF PlacesAreQueued, IndexTyped
    <3>2. \A i \in DOMAIN queue' : status'[queue'[i]] = "queued"
      BY <1>0, <2>5, <2>7, <3>1 DEF PlacesAreQueued
    <3>3. ASSUME NEW i \in DOMAIN queue', NEW j \in DOMAIN queue', queue'[i] = queue'[j]
          PROVE  i = j
      <4>1. i + 1 = j + 1
        BY <1>0, <2>7, <3>3 DEF PlacesAreQueued
      <4>2. i \in Nat /\ j \in Nat
        BY <2>6 DEF IndexTyped
      <4> QED
        BY <4>1, <4>2
    <3> QED
      BY <3>2, <3>3 DEF PlacesAreQueued
  <2>9. worker[w].page = "none" /\ \A v \in Worker : worker[v].page # p
    BY <1>0, <2>1, <2>2 DEF WorkIsInflight
  <2>10. WorkIsInflight'
    BY <1>0, <1>a, <2>2, <2>3, <2>4, <2>5, <2>9 DEF WorkIsInflight
  <2>11. InflightHasWorker'
    BY <1>0, <2>3, <2>4, <2>5, <2>9, IndexSizes DEF InflightHasWorker
  <2>12. InflightCounts'
    <3>1. Busy' = Busy \cup {w} /\ w \notin Busy
      BY <2>2, <2>3, <2>4, <2>9 DEF Busy
    <3> QED
      BY <1>0, <2>1, <3>1, BusyFinite, FS_AddElement DEF InflightCounts
  <2>13. LastIsOnItsWay'
    BY <1>0, <2>1, <2>2, <2>3, <2>4, <2>5, <2>9 DEF LastIsOnItsWay
  <2>14. IdleIsTaken'
    BY <1>0, <2>2, <2>5 DEF IdleIsTaken
  <2> QED
    BY <2>6, <2>8, <2>10, <2>11, <2>12, <2>13, <2>14 DEF IndexInv, IndexPlaces
<1>6. ASSUME NEW w \in Worker, I!Embed(w) PROVE IndexInv'
  <2> DEFINE p == worker[w].page
             t == worker[w].text
  <2>1. /\ worker[w].pc = "embed" /\ worker' = [worker EXCEPT ![w].pc = "back"]
        /\ UNCHANGED <<text, hooks, latest, status, queue, inflight, accepted>>
        /\ \/ vector' = [vector EXCEPT ![p] = I!Shown(t)] /\ UNCHANGED lost
           \/ UNCHANGED vector /\ lost' = lost \cup {p}
    BY <1>6 DEF I!Embed, I!Write, I!Shown
  <2>2. p \in Indexed /\ status[p] = "inflight" /\ t \in AnyText
    BY <1>0, <1>a, <2>1 DEF WorkIsInflight, IndexTyped, WorkerLocal
  <2>3. /\ worker' \in [Worker -> WorkerLocal] /\ worker'[w].pc = "back" /\ worker'[w].page = p
        /\ \A v \in Worker \ {w} : worker'[v] = worker[v]
    BY <1>0, <2>1 DEF IndexTyped, WorkerLocal
  <2>4. IndexTyped'
    <3>1. I!Shown(t) \in Nat
      BY <2>2, EmptyTexts
    <3>2. vector' \in [Indexed -> Nat] /\ lost' \subseteq Indexed
      BY <1>0, <2>1, <2>2, <3>1 DEF IndexTyped
    <3> QED
      BY <1>0, <2>1, <2>3, <3>2 DEF IndexTyped
  <2>5. WorkIsInflight'
    BY <1>0, <2>1, <2>2, <2>3, IndexSizes DEF WorkIsInflight
  <2>6. \A v \in Worker : worker'[v].page = worker[v].page
    BY <2>3
  <2>7. InflightHasWorker'
    BY <1>0, <2>1, <2>6 DEF InflightHasWorker
  <2>8. Busy' = Busy
    BY <2>6 DEF Busy
  <2>9. InflightCounts' /\ PlacesAreQueued' /\ IdleIsTaken'
    BY <1>0, <2>1, <2>8 DEF InflightCounts, PlacesAreQueued, IdleIsTaken
  <2>10. \A v \in Worker : worker[v].page = p => v = w
    BY <1>0, <2>2, IndexSizes DEF WorkIsInflight
  <2>11. LastIsOnItsWay'
    <3>1. CASE vector' = [vector EXCEPT ![p] = I!Shown(t)] /\ UNCHANGED lost
      <4>1. \A q \in Indexed \ {p} : vector'[q] = vector[q]
        BY <1>0, <3>1 DEF IndexTyped
      <4>2. vector'[p] = I!Shown(t)
        BY <1>0, <2>2, <3>1 DEF IndexTyped
      <4>3. p \notin lost /\ latest[p] = I!NoText => t = accepted[p]
        BY <1>0, <2>1, <2>2 DEF LastIsOnItsWay
      <4> QED
        BY <1>0, <2>1, <2>2, <2>3, <2>10, <3>1, <4>1, <4>2, <4>3 DEF LastIsOnItsWay
    <3>2. CASE UNCHANGED vector /\ lost' = lost \cup {p}
      BY <1>0, <2>1, <2>3, <3>2 DEF LastIsOnItsWay
    <3> QED
      BY <2>1, <3>1, <3>2
  <2> QED
    BY <2>4, <2>5, <2>7, <2>9, <2>11 DEF IndexInv, IndexPlaces
<1>7. ASSUME NEW w \in Worker, I!Finish(w) PROVE IndexInv'
  <2> DEFINE p == worker[w].page
             ws == [worker EXCEPT ![w] = I!At("run")]
  <2>1. /\ worker[w].pc = "back" /\ inflight' = inflight - 1
        /\ UNCHANGED <<text, hooks, latest, vector, accepted, lost>>
        /\ \/ /\ latest[p] # I!NoText /\ status' = [status EXCEPT ![p] = "queued"]
              /\ queue' = Append(queue, p) /\ I!Signal(ws)
           \/ /\ latest[p] = I!NoText /\ status' = [status EXCEPT ![p] = "idle"]
              /\ worker' = ws /\ UNCHANGED queue
    BY <1>7 DEF I!Finish
  <2>2. p \in Indexed /\ status[p] = "inflight" /\ p # "none"
    BY <1>0, <1>a, <2>1, IndexSizes DEF WorkIsInflight
  <2>3. /\ ws \in [Worker -> WorkerLocal] /\ ws[w] = I!At("run")
        /\ \A v \in Worker \ {w} : ws[v] = worker[v]
    BY <1>0, RestingLocal DEF IndexTyped
  <2> HIDE DEF ws
  <2>4. SameWork(ws)
    <3>1. \A v \in Worker : ws[v].pc = "wait" => ws[v].page = "none"
      BY <1>0, <2>3, RestingLocal DEF WorkIsInflight
    <3>2. CASE I!Signal(ws)
      BY <2>3, <3>1, <3>2, SignalWakes
    <3>3. CASE worker' = ws
      BY <2>3, <3>3 DEF SameWork
    <3> QED
      BY <2>1, <3>2, <3>3
  <2>5. /\ worker' \in [Worker -> WorkerLocal]
        /\ worker'[w].page = "none" /\ worker'[w].pc \notin {"embed", "back"}
    BY <2>3, <2>4, RestingLocal DEF SameWork
  <2>6. /\ \A v \in Worker \ {w} : worker'[v].page = worker[v].page
        /\ \A v \in Worker \ {w} : worker[v].page # "none" => worker'[v] = worker[v]
        /\ \A v \in Worker \ {w} : worker[v].page = "none" => worker'[v].pc \notin {"embed", "back"}
    BY <1>0, <2>3, <2>4 DEF SameWork, WorkIsInflight
  <2>7. /\ status' \in [Indexed -> {"idle", "scheduled", "queued", "inflight"}]
        /\ status'[p] = IF latest[p] = I!NoText THEN "idle" ELSE "queued"
        /\ \A q \in Indexed \ {p} : status'[q] = status[q]
    BY <1>0, <2>1, <2>2 DEF IndexTyped
  <2>8. IndexTyped'
    <3>1. queue' \in Seq(Indexed)
      <4>1. queue \in Seq(Indexed)
        BY <1>0 DEF IndexTyped
      <4>2. Append(queue, p) \in Seq(Indexed)
        BY <2>2, <4>1
      <4> QED
        BY <2>1, <4>1, <4>2
    <3> QED
      BY <1>0, <2>1, <2>5, <2>7, <3>1 DEF IndexTyped
  <2>9. \A v \in Worker : worker[v].page = p => v = w
    BY <1>0, <2>2 DEF WorkIsInflight
  <2>10. WorkIsInflight'
    BY <1>0, <1>a, <2>2, <2>5, <2>6, <2>7, <2>9 DEF WorkIsInflight
  <2>11. InflightHasWorker'
    <3> SUFFICES ASSUME NEW q \in Indexed, status'[q] = "inflight"
                 PROVE  \E v \in Worker : worker'[v].page = q
      BY DEF InflightHasWorker
    <3>1. q # p /\ status[q] = "inflight"
      BY <2>7
    <3>2. PICK v \in Worker : worker[v].page = q
      BY <1>0, <3>1 DEF InflightHasWorker
    <3> QED
      BY <2>6, <3>1, <3>2
  <2>12. InflightCounts'
    <3>1. Busy' = Busy \ {w} /\ w \in Busy
      BY <2>2, <2>5, <2>6 DEF Busy
    <3> QED
      BY <1>0, <2>1, <3>1, BusyFinite, FS_RemoveElement DEF InflightCounts
  <2>13. PlacesAreQueued'
    <3>1. \A i \in DOMAIN queue : queue[i] \in Indexed /\ queue[i] # p
      BY <1>0, <2>2 DEF PlacesAreQueued, IndexTyped
    <3>2. CASE queue' = Append(queue, p) /\ latest[p] # I!NoText
      BY <1>0, <2>2, <2>7, <3>1, <3>2 DEF PlacesAreQueued, IndexTyped
    <3>3. CASE UNCHANGED queue
      BY <1>0, <2>7, <3>1, <3>3 DEF PlacesAreQueued
    <3> QED
      BY <2>1, <3>2, <3>3
  <2>14. LastIsOnItsWay'
    <3> SUFFICES ASSUME NEW q \in Indexed \ lost'
                 PROVE  /\ latest'[q] # I!NoText => latest'[q] = accepted'[q]
                        /\ status'[q] = "idle" => vector'[q] = I!Shown(accepted'[q])
                        /\ status'[q] \in {"scheduled", "queued"} => latest'[q] = accepted'[q]
                        /\ \A v \in Worker : worker'[v].page = q /\ latest'[q] = I!NoText =>
                              /\ worker'[v].pc = "embed" => worker'[v].text = accepted'[q]
                              /\ worker'[v].pc = "back" => vector'[q] = I!Shown(accepted'[q])
      BY DEF LastIsOnItsWay, I!Shown
    <3>1. CASE q = p
      <4>1. \A v \in Worker : worker'[v].page # p
        BY <2>2, <2>5, <2>6, <2>9
      <4>2. latest[p] # I!NoText => latest[p] = accepted[p]
        BY <1>0, <2>1, <3>1 DEF LastIsOnItsWay
      <4>3. latest[p] = I!NoText => vector[p] = I!Shown(accepted[p])
        BY <1>0, <2>1, <3>1 DEF LastIsOnItsWay
      <4> QED
        BY <2>1, <2>7, <3>1, <4>1, <4>2, <4>3
    <3>2. CASE q # p
      <4>1. \A v \in Worker : worker'[v].page = q => worker'[v] = worker[v]
        BY <2>5, <2>6, IndexSizes
      <4> QED
        BY <1>0, <2>1, <2>7, <3>2, <4>1 DEF LastIsOnItsWay
    <3> QED
      BY <3>1, <3>2
  <2>15. IdleIsTaken'
    BY <1>0, <2>1, <2>7 DEF IdleIsTaken
  <2> QED
    BY <2>8, <2>10, <2>11, <2>12, <2>13, <2>14, <2>15 DEF IndexInv, IndexPlaces
<1>8. CASE I!Stop \/ UNCHANGED ixVars
  <2>1. /\ UNCHANGED <<text, hooks, latest, status, queue, inflight, vector, accepted, lost>>
        /\ \/ worker' = [w \in Worker |-> IF w \in I!Waiting THEN I!At("run") ELSE worker[w]]
           \/ UNCHANGED worker
    BY <1>8 DEF I!Stop, ixVars
  <2>2. SameWork(worker)
    <3>1. CASE worker' = [w \in Worker |-> IF w \in I!Waiting THEN I!At("run") ELSE worker[w]]
      <4>1. \A w \in I!Waiting : worker[w].page = "none"
        BY <1>0 DEF I!Waiting, WorkIsInflight
      <4>2. worker' \in [Worker -> WorkerLocal]
        BY <1>0, <3>1, RestingLocal DEF IndexTyped
      <4> QED
        BY <3>1, <4>1, <4>2, RestingLocal DEF SameWork
    <3> QED
      BY <1>b, <2>1, <3>1
  <2>3. IndexTyped'
    BY <1>0, <2>1, <2>2 DEF IndexTyped, SameWork
  <2>4. /\ WorkIsInflight' /\ InflightHasWorker' /\ InflightCounts'
        /\ \A v \in Worker : worker'[v].page = worker[v].page
        /\ \A v \in Worker : worker[v].page # "none" => worker'[v] = worker[v]
    BY <2>1, <2>2, WorkStays
  <2>5. PlacesAreQueued' /\ LastIsOnItsWay' /\ IdleIsTaken'
    BY <1>0, <2>1, <2>4, IndexSizes DEF PlacesAreQueued, LastIsOnItsWay, IdleIsTaken
  <2> QED
    BY <2>3, <2>4, <2>5 DEF IndexInv, IndexPlaces
<1>9. CASE I!Restart
  <2>1. /\ hooks' = {} /\ latest' = [p \in Indexed |-> I!NoText]
        /\ status' = [p \in Indexed |-> "idle"] /\ queue' = <<>> /\ inflight' = 0
        /\ worker' = [w \in Worker |-> I!At("run")]
        /\ lost' = lost \cup {h.page : h \in hooks} \cup {p \in Indexed : status[p] # "idle"}
        /\ UNCHANGED <<text, vector, accepted>>
    BY <1>9 DEF I!Restart
  <2>2. IndexTyped'
    BY <1>0, <2>1, EmptyTexts, RestingLocal DEF IndexTyped
  <2>3. PlacesAreQueued' /\ WorkIsInflight' /\ InflightHasWorker' /\ IdleIsTaken'
    BY <2>1, RestingLocal DEF PlacesAreQueued, WorkIsInflight, InflightHasWorker, IdleIsTaken
  <2>4. InflightCounts'
    <3>1. Busy' = {}
      BY <2>1, RestingLocal DEF Busy
    <3> QED
      BY <2>1, <3>1, FS_EmptySet DEF InflightCounts
  <2>5. LastIsOnItsWay'
    BY <1>0, <2>1, RestingLocal, IndexSizes DEF LastIsOnItsWay
  <2> QED
    BY <2>2, <2>3, <2>4, <2>5 DEF IndexInv, IndexPlaces
<1> QED
  BY <1>1, <1>2, <1>3, <1>4, <1>5, <1>6, <1>7, <1>8, <1>9
  DEF I!Next, I!SaveSome, I!EnqueueSome

(* However saves, timers, workers and re-queues interleave, fail and are ended,  *)
(* what Stats calls drained shows of every page that met no failure the last      *)
(* text handed in, and no page is with two workers or in the queue twice          *)
(* (pageindex.go IndexPage, promote, worker, Stats).                            *)
THEOREM PagesIndexed == Spec => []PagesAreIndexed
<1>1. Init => IndexInv
  BY IndexInitInv DEF Init
<1>2. IndexInv /\ [Next]_vars => IndexInv'
  BY IndexStepInv, PartSteps
<1>3. IndexInv => PagesAreIndexed
  <2> SUFFICES ASSUME IndexInv PROVE I!DrainedIsIndexed /\ I!OneEmbedPerPage
    BY DEF PagesAreIndexed
  <2> USE DEF IndexInv, IndexPlaces
  <2>1. ASSUME I!Drained PROVE \A p \in Indexed \ lost : vector[p] = I!Shown(accepted[p])
    <3> DEFINE waiting == {p \in Indexed : status[p] \in {"scheduled", "queued"}}
    <3>1. Cardinality(waiting) = 0 /\ inflight = 0
      BY <2>1, IndexSizes DEF I!Drained, I!Pending
    <3>2. waiting = {}
      <4>1. IsFiniteSet(waiting)
        BY IndexSizes, FS_Subset, waiting \subseteq Indexed
      <4> QED
        BY <3>1, <4>1, FS_EmptySet
    <3>3. Busy = {}
      BY <3>1, BusyFinite, FS_EmptySet DEF InflightCounts
    <3>4. \A p \in Indexed : status[p] = "idle"
      BY <3>2, <3>3, IndexSizes DEF IndexTyped, InflightHasWorker, Busy
    <3> QED
      BY <3>4 DEF LastIsOnItsWay
  <2>2. ASSUME NEW p \in Indexed
        PROVE  I!Cardinality({w \in Worker : worker[w].page = p})
                   + I!Cardinality({i \in DOMAIN queue : queue[i] = p}) <= 1
    <3> DEFINE W == {w \in Worker : worker[w].page = p}
               Q == {i \in DOMAIN queue : queue[i] = p}
    <3>1. W = {} \/ \E w : W = {w}
      BY IndexSizes DEF WorkIsInflight
    <3>2. Q = {} \/ \E i : Q = {i}
      BY DEF PlacesAreQueued
    <3>3. W = {} \/ Q = {}
      BY IndexSizes DEF WorkIsInflight, PlacesAreQueued
    <3>4. \/ Cardinality(W) = 0 /\ Cardinality(Q) \in {0, 1}
          \/ Cardinality(Q) = 0 /\ Cardinality(W) \in {0, 1}
      BY <3>1, <3>2, <3>3, FS_EmptySet, FS_Singleton
    <3> HIDE DEF W, Q
    <3>5. Cardinality(W) + Cardinality(Q) <= 1
      BY <3>4
    <3> QED
      BY <3>5, IndexSizes DEF W, Q
  <2> QED
    BY <2>1, <2>2 DEF I!DrainedIsIndexed, I!OneEmbedPerPage
<1> QED
  BY <1>1, <1>2, <1>3, PTL DEF Spec
=============================================================================
