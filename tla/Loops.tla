------------------------------- MODULE Loops --------------------------------
(***************************************************************************)
(* What main runs before and beside the server: the schema is brought to    *)
(* the build, then the throttle embeds what was saved, what AI calls cost   *)
(* is pulled from Lens and who belongs to a workspace from Track, the last  *)
(* two by processes that overlap. They write different tables and never     *)
(* wait for each other, so a behaviour is of one.                           *)
(***************************************************************************)
EXTENDS Spend, TLC

CONSTANTS Person, Loop, Nudge, PageLimit, MaxMoves, MaxMisses,
          Indexed, Worker, MaxTexts, MaxFailures, MaxRestarts,
          Process, Nobody, Files, InitDB, MaxCrashes

VARIABLES
    focus,                                            \* whose behaviour this is
    listed, known, content, rows, pulls, moves, misses, always,
    text, hooks, latest, status, queue, inflight, stopped, worker, vector, accepted, lost,
    failures, restarts,
    schema, records, adopted, lock, boot, crashes

R == INSTANCE Roster
I == INSTANCE PageIndex WITH Page <- Indexed, MaxSaves <- MaxTexts
G == INSTANCE Migrations

ASSUME LoopsAssumption == R!RosterSizes /\ I!PageIndexSizes /\ G!MigrationsSizes

roVars == <<listed, known, content, rows, pulls, moves, misses, always>>
ixVars == <<text, hooks, latest, status, queue, inflight, stopped, worker, vector, accepted,
            lost, failures, restarts>>
mgVars == <<schema, records, adopted, lock, boot, crashes>>
vars == <<focus, spVars, roVars, ixVars, mgVars>>

\* The parts that are not looked at start, and stay, in one state.
Init ==
    /\ focus \in {"spend", "roster", "index", "boot"}
    /\ SpendInit /\ R!RosterInit /\ I!Init /\ G!MigrationsInit
    /\ focus # "boot" => adopted = {}
    /\ focus # "roster" => listed = {} /\ ~content /\ rows = [p \in Person |-> "none"]

OfSpend(A) == focus = "spend" /\ A /\ UNCHANGED <<focus, roVars, ixVars, mgVars>>
OfRoster(A) == focus = "roster" /\ A /\ UNCHANGED <<focus, spVars, ixVars, mgVars>>
OfIndex(A) == focus = "index" /\ A /\ UNCHANGED <<focus, spVars, roVars, mgVars>>
OfBoot(A) == focus = "boot" /\ A /\ UNCHANGED <<focus, spVars, roVars, ixVars>>

Next ==
    OfSpend(SpendNext) \/ OfRoster(R!RosterNext) \/ OfIndex(I!Next) \/ OfBoot(G!MigrationsNext)

\* The file of version 2 was edited in one build; the first has no third.
Builds == [first |-> 1 :> "a" @@ 2 :> "a",
           next |-> 1 :> "a" @@ 2 :> "a" @@ 3 :> "a",
           edited |-> 1 :> "a" @@ 2 :> "b" @@ 3 :> "a"]

\* SpendFairness, RosterFairness and that of PageIndex.
Fairness ==
    /\ \A s \in Sweeper : WF_vars(OfSpend(SweepStep(s)))
    /\ \A r \in Loop : WF_vars(OfRoster(R!RunnerStep(r)))
    /\ \A r \in Nudge : WF_vars(OfRoster(R!Pull(r) \/ R!Reconcile(r)))
    /\ \A p \in Indexed : WF_vars(OfIndex(I!EnqueueSome(p))) /\ WF_vars(OfIndex(I!Promote(p)))
    /\ \A w \in Worker : WF_vars(OfIndex(I!Work(w)))

Spec == Init /\ [][Next]_vars /\ Fairness

-----------------------------------------------------------------------------
(* Spend: OwnCostOnce and EventuallyPriced, and the following.               *)

(* Roster: no overlap, failure or short pull takes a member's row away while   *)
(* Track lists him (membership/store.go ReconcileWorkspace).                  *)
NoneLostWhileListed == R!NoneLostWhileListed

(* Roster: the table comes to Track's roster once that rests                   *)
(* (membership/syncer.go).                                                   *)
RosterConverges == focus = "roster" => R!RosterConverges

(* Index: what Stats calls drained is indexed, and an older embedding never      *)
(* lands after a newer one (pageindex.go promote, worker).                      *)
PagesAreIndexed == I!DrainedIsIndexed /\ I!OneEmbedPerPage

(* Index: an accepted text is taken, and Stop returns (pageindex.go worker).   *)
TakenOrStopped == I!TakenOrStopped

(* Boot: whoever serves has the schema of its build, and boots do not make each  *)
(* other fail (migrate/migrate.go Apply).                                       *)
SchemaIsServed == G!SchemaIsServed

=============================================================================
