-------------------------------- MODULE Gates --------------------------------
(***************************************************************************)
(* The three gates a request may meet: the rule that says who may do what,   *)
(* a share link instead of an account, and the limiter and the token before  *)
(* Lens. They share no row and no lock, so a behaviour is one of theirs.     *)
(***************************************************************************)
EXTENDS Access, FiniteSets

CONSTANTS Link, Page, Old, Key, MaxClock, MaxVisits, MaxRestarts,
          Caller, Tenant, Rate, Burst, Idle, Life, Skew, MaxTicks, MaxRefusals

VARIABLES
    focus,                                            \* whose behaviour this is
    links, there, key, known, clock, visit, visits, failed, restarts, ended,
    ticks, buckets, admitted, tokens, holder, callers, refusals

\* Of three callers two belong to the workspace.
MembersOf == [w \in Tenant |-> Caller \ {CHOOSE c \in Caller : TRUE}]

S == INSTANCE Shares WITH troubles <- failed
L == INSTANCE LensGate WITH clock <- ticks, Members <- MembersOf

ASSUME GatesAssumption == L!GateSizes /\ S!SharesSizes

shVars == <<links, there, key, known, clock, visit, visits, failed, restarts, ended>>
gateVars == <<ticks, buckets, admitted, tokens, holder, callers, refusals>>

\* The parts that are not looked at start, and stay, in one state.
Init ==
    /\ focus \in {"access", "shares", "lens"}
    /\ IF focus = "access" THEN AccessInit
       ELSE /\ past = <<FirstWorld(Stranger, FALSE, [t \in Team |-> {}], <<"page", "everyone">>, "none")>>
            /\ ask = NoAsk /\ troubles = 0
    /\ S!SharesInit /\ (focus # "shares" => key = "none")
    /\ L!GateInit

Next ==
    \/ focus = "access" /\ AccessNext /\ UNCHANGED <<focus, shVars, gateVars>>
    \/ focus = "shares" /\ S!SharesNext /\ UNCHANGED <<focus, acVars, gateVars>>
    \/ focus = "lens" /\ L!GateNext /\ UNCHANGED <<focus, acVars, shVars>>

Spec == Init /\ [][Next]_<<focus, acVars, shVars, gateVars>>

-----------------------------------------------------------------------------
(* Permissions: DecidedByRule of Access, and the following.                  *)

(* The rows and what each request holds of them.                             *)
TypeOK == AccessTypeOK /\ S!SharesTypeOK /\ L!GateTypeOK

(* Shares: a page is shown through a link while its token stands, to whoever   *)
(* holds it, and to nobody else (sharing/store.go Validate).                  *)
ShownWhileItStands == S!ShownWhileItStands

(* Lens: a workspace is let through no oftener than its limit                  *)
(* (ratelimit.go Allow, sweepLocked).                                        *)
AdmittedWithinRate == L!AdmittedWithinRate

(* Lens: callers of a workspace share one mint while its token lives           *)
(* (lenscreds/provider.go TokenFor).                                         *)
OneMintPerLifetime == L!OneMintPerLifetime

=============================================================================
