----------------------------- MODULE Migrations ------------------------------
(***************************************************************************)
(* How a process brings the schema to its build before it serves            *)
(* (migrate/migrate.go Apply, main): one session lock, the versions on        *)
(* record read under it, and each missing file with its record in one        *)
(* transaction. A file is its body; what it makes is kept if it is there     *)
(* already (IF NOT EXISTS), which is how a database made by initdb is taken. *)
(***************************************************************************)
EXTENDS Naturals, FiniteSets, FiniteSetsExt

CONSTANTS Process, Nobody,
          Files,     \* of each build: the body under each version
          InitDB,    \* the build whose files initdb may have run
          MaxCrashes \* bound: deaths and failing statements

None == "none"

MigrationsSizes ==
    /\ Nobody \notin Process /\ InitDB \in DOMAIN Files /\ MaxCrashes \in Nat
    /\ \A b \in DOMAIN Files :
          DOMAIN Files[b] \subseteq Nat /\ \A v \in DOMAIN Files[b] : Files[b][v] # None

VARIABLES
    schema,   \* what is in the database, by the version that made it
    records,  \* schema_migrations
    adopted,  \* history: the versions initdb made
    lock,     \* pg_advisory_lock: the session that holds it
    boot,     \* Apply in each process
    crashes

mgVars == <<schema, records, adopted, lock, boot, crashes>>

Version == UNION {DOMAIN Files[b] : b \in DOMAIN Files}
Recorded(r) == {v \in Version : r[v] # None}
Down == [pc |-> "down", why |-> None, build |-> InitDB, known |-> [v \in Version |-> None]]

MigrationsInit ==
    /\ \E made \in {{}, DOMAIN Files[InitDB]} :
          /\ adopted = made
          /\ schema = [v \in Version |-> IF v \in made THEN Files[InitDB][v] ELSE None]
    /\ records = [v \in Version |-> None]
    /\ lock = Nobody /\ boot = [p \in Process |-> Down] /\ crashes = 0

-----------------------------------------------------------------------------
Own(p) == Files[boot[p].build]

\* Apply ends: the lock goes, and the process serves or exits.
Ends(p, pc, why) ==
    /\ boot' = [boot EXCEPT ![p].pc = pc, ![p].why = why]
    /\ lock' = IF lock = p THEN Nobody ELSE lock

Boot(p, b) ==
    /\ boot[p].pc = "down"
    /\ boot' = [boot EXCEPT ![p] = [Down EXCEPT !.pc = "lock", !.build = b]]
    /\ UNCHANGED <<schema, records, adopted, lock, crashes>>

\* Mutant: the lock is another one in every build.
FreeInBuild(p) == lock # Nobody => boot[lock].build # boot[p].build

Free(p) == lock = Nobody

Lock(p) ==
    /\ boot[p].pc = "lock" /\ Free(p)
    /\ lock' = p
    /\ boot' = [boot EXCEPT ![p].pc = "read"]
    /\ UNCHANGED <<schema, records, adopted, crashes>>

\* Applied, and COMPLETENESS: a database ahead of the build is not touched.
ReadApplied(p) ==
    /\ boot[p].pc = "read"
    /\ IF Recorded(records) \subseteq DOMAIN Own(p)
       THEN boot' = [boot EXCEPT ![p].pc = "files", ![p].known = records] /\ UNCHANGED lock
       ELSE Ends(p, "exited", "ahead")
    /\ UNCHANGED <<schema, records, adopted, crashes>>

\* The versions of the files before the first that is not known, that one too.
Pending(p) == DOMAIN Own(p) \ Recorded(boot[p].known)
Passed(p) == {v \in DOMAIN Own(p) : \A w \in Pending(p) : v < w}
Edited(p) == \E v \in Passed(p) : boot[p].known[v] # Own(p)[v]

\* CHECKSUM: a file on record that changed stops the loop where it stands.
Unlike(p) ==
    /\ boot[p].pc = "files" /\ Edited(p)
    /\ Ends(p, "exited", "edited")
    /\ UNCHANGED <<schema, records, adopted, crashes>>

Serve(p) ==
    /\ boot[p].pc = "files" /\ ~Edited(p) /\ Pending(p) = {}
    /\ Ends(p, "serving", None)
    /\ UNCHANGED <<schema, records, adopted, crashes>>

Begin(p) ==
    /\ boot[p].pc = "files" /\ ~Edited(p) /\ Pending(p) # {}
    /\ boot' = [boot EXCEPT ![p].pc = "commit"]
    /\ UNCHANGED <<schema, records, adopted, lock, crashes>>

\* ATOMICITY: what the file makes and its record. A record that is there already
\* refuses the transaction.
Written(p, v) ==
    /\ schema' = [schema EXCEPT ![v] = IF @ = None THEN Own(p)[v] ELSE @]
    /\ records' = [records EXCEPT ![v] = Own(p)[v]]

Commit(p) ==
    LET v == Min(Pending(p))
    IN /\ boot[p].pc = "commit"
       /\ IF records[v] # None
          THEN Ends(p, "exited", "conflict") /\ UNCHANGED <<schema, records>>
          ELSE /\ Written(p, v)
               /\ boot' = [boot EXCEPT ![p].pc = "files", ![p].known[v] = Own(p)[v]]
               /\ UNCHANGED lock
       /\ UNCHANGED <<adopted, crashes>>

\* A statement fails, or the commit's answer is lost after it took effect.
Fail(p) ==
    /\ boot[p].pc \in {"lock", "read", "files", "commit"} /\ crashes < MaxCrashes
    /\ crashes' = crashes + 1
    /\ Ends(p, "exited", "failure")
    /\ \/ UNCHANGED <<schema, records>>
       \/ /\ boot[p].pc = "commit" /\ records[Min(Pending(p))] = None
          /\ Written(p, Min(Pending(p)))
    /\ UNCHANGED adopted

\* The process ends at whatever point, its session with it, and is started again.
Die(p) ==
    /\ boot[p].pc # "down"
    /\ boot[p].pc # "exited" => crashes < MaxCrashes
    /\ crashes' = IF boot[p].pc = "exited" THEN crashes ELSE crashes + 1
    /\ boot' = [boot EXCEPT ![p] = Down]
    /\ lock' = IF lock = p THEN Nobody ELSE lock
    /\ UNCHANGED <<schema, records, adopted>>

BootStep(p) ==
    \/ Lock(p) \/ ReadApplied(p) \/ Unlike(p) \/ Serve(p) \/ Begin(p) \/ Commit(p)

MigrationsNext ==
    \E p \in Process : \/ \E b \in DOMAIN Files : Boot(p, b)
                       \/ BootStep(p) \/ Fail(p) \/ Die(p)

-----------------------------------------------------------------------------
(* Whoever serves does so on a schema that has every file of its build, as it   *)
(* reads there, whatever other builds were started, failed and died meanwhile;   *)
(* what initdb had made is taken at its word (migrate.go Apply).                *)
ServesItsSchema ==
    \A p \in Process : boot[p].pc = "serving" =>
        \A v \in DOMAIN Own(p) :
            records[v] = Own(p)[v] /\ (v \notin adopted => schema[v] = Own(p)[v])

(* A boot exits only for a failure of its own, or because the schema is another  *)
(* build's: never because two were at it at once (migrate.go "N replicas         *)
(* starting together cannot race each other's applies").                        *)
BootsDoNotRace == \A p \in Process : boot[p].why # "conflict"

SchemaIsServed == ServesItsSchema /\ BootsDoNotRace
=============================================================================
