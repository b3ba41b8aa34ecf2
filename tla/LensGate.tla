------------------------------ MODULE LensGate ------------------------------
(***************************************************************************)
(* What stands between a request and Lens: the workspace's rate limit        *)
(* (ratelimit) and the workspace's token, minted when there is none          *)
(* (lenscreds).  Time advances in ticks of the limiter's sweep interval.     *)
(***************************************************************************)
EXTENDS Naturals, FiniteSets, FiniteSetsExt

CONSTANTS Caller, Tenant,
          Members,  \* who belongs to each workspace
          Rate,     \* tokens a bucket regains in a tick
          Burst,
          Idle,     \* ticks until an idle bucket is dropped (defaultTTL)
          Life, Skew, \* ticks a Lens token is good, and how early it is replaced
          MaxTicks, MaxRefusals \* bounds

Nobody == "nobody"

\* config.Load takes the rate and the burst as they come from the environment.
GateSizes ==
    /\ Nobody \notin Caller
    /\ {Rate, Burst, Idle, Life, Skew, MaxTicks, MaxRefusals} \subseteq Nat
    /\ 0 < Idle
    /\ 1 < Skew /\ Skew < Life   \* a mint and a call end within a tick each

VARIABLES
    clock,
    buckets,  \* Limiter.buckets
    admitted, \* history: requests let through, by workspace
    tokens,   \* Provider.cache
    holder,   \* entry.mu
    callers,  \* the requests
    refusals  \* mints that failed

gateVars == <<clock, buckets, admitted, tokens, holder, callers, refusals>>

NoBucket == [level |-> 0, seen |-> MaxTicks + 1]
NoToken == [expiresAt |-> 0, ends |-> 0]
AtRest == [pc |-> "idle", tenant |-> Nobody, ends |-> 0, since |-> 0]

GateTypeOK ==
    /\ clock \in 0..MaxTicks
    /\ buckets \in [Tenant -> [level : 0..Burst, seen : 0..MaxTicks + 1]]
    /\ admitted \in [Tenant -> Nat]
    /\ tokens \in [Tenant -> [expiresAt : 0..MaxTicks + Life, ends : 0..MaxTicks + Life]]
    /\ holder \in [Tenant -> Caller \cup {Nobody}]
    /\ callers \in [Caller -> [pc : {"idle", "token", "mint", "call"}, tenant : Tenant \cup {Nobody},
                               ends : 0..MaxTicks + Life, since : 0..MaxTicks]]

GateInit ==
    /\ clock = 0
    /\ buckets = [w \in Tenant |-> NoBucket]
    /\ admitted = [w \in Tenant |-> 0]
    /\ tokens = [w \in Tenant |-> NoToken]
    /\ holder = [w \in Tenant |-> Nobody]
    /\ callers = [c \in Caller |-> AtRest]
    /\ refusals = 0

-----------------------------------------------------------------------------
(* Limiter.                                                                 *)

\* Mutant: the sweep drops every bucket.
SweepAll(b) == [w \in Tenant |-> NoBucket]

\* sweepLocked, once a tick.
Swept(b) == [w \in Tenant |-> IF b[w] # NoBucket /\ clock - b[w].seen > Idle
                              THEN NoBucket ELSE b[w]]

\* A rate or a burst of nothing admits nothing.
Enabled == Rate > 0 /\ Burst > 0

\* Allow(key): a new bucket is full.
Allow(w) ==
    LET kept == Swept(buckets)
        level == IF kept[w] = NoBucket THEN Burst ELSE kept[w].level
    IN [ok |-> Enabled /\ level > 0,
        buckets |-> IF ~Enabled THEN buckets
                    ELSE [kept EXCEPT ![w] = [level |-> IF level > 0 THEN level - 1 ELSE 0,
                                              seen |-> clock]]]

\* AuthorizeWorkspace, then Allow on the membership it returned.
WorkspaceLimit(c, w) ==
    /\ callers[c] = AtRest
    /\ c \in Members[w]
    /\ LET answer == Allow(w)
       IN /\ buckets' = answer.buckets
          /\ IF answer.ok
             THEN /\ admitted' = [admitted EXCEPT ![w] = @ + 1]
                  /\ callers' = [callers EXCEPT ![c] = [AtRest EXCEPT !.pc = "token", !.tenant = w]]
             ELSE UNCHANGED <<admitted, callers>>
    /\ UNCHANGED <<clock, tokens, holder, refusals>>

\* Work without a caller, an index run or the cost sweep, needs a token all the same.
Background(c, w) ==
    /\ callers[c] = AtRest
    /\ callers' = [callers EXCEPT ![c] = [AtRest EXCEPT !.pc = "token", !.tenant = w]]
    /\ UNCHANGED <<clock, buckets, admitted, tokens, holder, refusals>>

-----------------------------------------------------------------------------
(* Provider.TokenFor.                                                       *)

\* Mutant: a token is used up to its last moment.
WarmToTheEnd(w) == tokens[w] # NoToken /\ clock < tokens[w].expiresAt

Warm(w) == tokens[w] # NoToken /\ clock + Skew < tokens[w].expiresAt

\* Mutant: the mutex of the entry is not held across the mint.
EntryOpen(w) == TRUE

\* e.mu.Lock
EntryFree(w) == holder[w] = Nobody

Hit(c) ==
    LET w == callers[c].tenant IN
    /\ callers[c].pc = "token"
    /\ EntryFree(w) /\ Warm(w)
    /\ callers' = [callers EXCEPT ![c].pc = "call", ![c].ends = tokens[w].ends, ![c].since = clock]
    /\ UNCHANGED <<clock, buckets, admitted, tokens, holder, refusals>>

BeginMint(c) ==
    LET w == callers[c].tenant IN
    /\ callers[c].pc = "token"
    /\ EntryFree(w) /\ ~Warm(w)
    /\ holder' = [holder EXCEPT ![w] = c]
    /\ callers' = [callers EXCEPT ![c].pc = "mint", ![c].since = clock]
    /\ UNCHANGED <<clock, buckets, admitted, tokens, refusals>>

\* mint: the expiry Lens states, or one counted from the answer when it states none;
\* on a failure the caller gets an error and never the admin key.
EndMint(c) ==
    LET w == callers[c].tenant IN
    /\ callers[c].pc = "mint"
    /\ holder' = [holder EXCEPT ![w] = Nobody]
    /\ \/ /\ \E made \in callers[c].since..clock : \E stated \in {made, clock} :
                 tokens' = [tokens EXCEPT ![w] = [expiresAt |-> stated + Life, ends |-> made + Life]]
          /\ callers' = [callers EXCEPT ![c].pc = "call", ![c].ends = tokens'[w].ends,
                                        ![c].since = clock]
          /\ UNCHANGED refusals
       \/ /\ refusals < MaxRefusals
          /\ refusals' = refusals + 1
          /\ callers' = [callers EXCEPT ![c] = AtRest]
          /\ UNCHANGED tokens
    /\ UNCHANGED <<clock, buckets, admitted>>

\* The call itself carries the token, and is over, well or badly.
EndCall(c) ==
    /\ callers[c].pc = "call"
    /\ callers' = [callers EXCEPT ![c] = AtRest]
    /\ UNCHANGED <<clock, buckets, admitted, tokens, holder, refusals>>

\* A mint and a call end within a tick: the clients' timeouts are shorter.
Tick ==
    /\ clock < MaxTicks
    /\ \A c \in Caller : callers[c].pc \in {"mint", "call"} => callers[c].since = clock
    /\ clock' = clock + 1
    /\ buckets' = [w \in Tenant |-> IF buckets[w] = NoBucket THEN NoBucket
                                    ELSE [buckets[w] EXCEPT !.level = Min({Burst, @ + Rate})]]
    /\ UNCHANGED <<admitted, tokens, holder, callers, refusals>>

GateNext ==
    \/ \E c \in Caller, w \in Tenant : WorkspaceLimit(c, w) \/ Background(c, w)
    \/ \E c \in Caller : Hit(c) \/ BeginMint(c) \/ EndMint(c) \/ EndCall(c)
    \/ Tick

GateSpec == GateInit /\ [][GateNext]_gateVars

-----------------------------------------------------------------------------
(* What a bucket regains in a tick, at most: its rate, or, when that is too low   *)
(* to fill it before it is dropped, a whole burst in the time until then.         *)
Regain == Min({g \in Rate..Rate + Burst : Burst <= g * Idle})

(* What a workspace is let through stays within its burst and its rate, whatever *)
(* buckets are dropped and made again, as long as its rate fills a bucket before *)
(* it is dropped; with a lower rate, within its burst and a burst for each time   *)
(* it could be dropped (Regain). Only its own members' requests use it up        *)
(* (ratelimit.go Allow, sweepLocked; middleware.go WorkspaceLimit "a denied      *)
(* request never touches the bucket").                                          *)
AdmittedWithinRate ==
    \A w \in Tenant :
        /\ admitted[w] <= Burst + Regain * clock
        /\ buckets[w] # NoBucket => admitted[w] + buckets[w].level \in Burst..Burst + Regain * clock

(* ratelimit.go sweepLocked: a bucket idle long enough to be dropped "would have *)
(* refilled to full anyway. Eviction therefore costs no enforcement".           *)
EvictionCostsNothing == \A w \in Tenant : admitted[w] <= Burst + Rate * clock

(* A workspace's token is replaced only when none is good for longer than the    *)
(* skew: callers that race coalesce on one mint.  And no call goes out with a    *)
(* token that has ended (provider.go TokenFor, entry "racing callers coalesce    *)
(* onto a single mint").                                                       *)
OneMintPerLifetime ==
    [][\A w \in Tenant :
          /\ tokens'[w] # tokens[w] => clock + Skew >= tokens[w].expiresAt
          /\ \A c \in Caller : callers'[c].pc = "call" => clock' < callers'[c].ends]_gateVars

=============================================================================
