----------------------------- MODULE GatesProofs -----------------------------
(***************************************************************************)
(* What TLAPS proves about Gates: the limiter and the token before Lens, and *)
(* the share links, for any number of callers, workspaces, links and pages,  *)
(* and any rate, burst and life of a token.                                *)
(***************************************************************************)
EXTENDS Gates, OrderLemmas, TLAPS

vars == <<focus, acVars, shVars, gateVars>>

(* A behaviour of Gates is, in each part, one of that part alone. *)
LEMMA PartSteps ==
    ASSUME [Next]_vars
    PROVE  /\ S!SharesNext \/ UNCHANGED S!shVars
           /\ L!GateNext \/ UNCHANGED L!gateVars
BY DEF Next, vars, shVars, gateVars, S!shVars, L!gateVars

LEMMA Sizes ==
    /\ Rate \in Nat /\ Burst \in Nat /\ Idle \in Nat /\ Life \in Nat /\ Skew \in Nat
    /\ MaxTicks \in Nat /\ 0 < Idle /\ 1 < Skew /\ Skew < Life
    /\ "nobody" \notin Caller
BY GatesAssumption DEF L!GateSizes, L!Nobody

-----------------------------------------------------------------------------
(* The limiter.                                                             *)

(* The smaller of two numbers. *)
LEMMA LesserOfTwo ==
    ASSUME NEW m \in Nat, NEW n \in Nat
    PROVE  L!Min({m, n}) = IF m <= n THEN m ELSE n
<1>1. (IF m <= n THEN m ELSE n) \in {m, n} /\ \A y \in {m, n} : (IF m <= n THEN m ELSE n) <= y
  OBVIOUS
<1>2. \A x \in {m, n} : (\A y \in {m, n} : x <= y) => x = (IF m <= n THEN m ELSE n)
  OBVIOUS
<1> QED
  BY <1>1, <1>2 DEF L!Min

(* What a bucket regains is its rate at least, and fills it before it is dropped. *)
LEMMA Regains ==
    L!Regain \in Nat /\ Rate <= L!Regain /\ Burst <= L!Regain * Idle
<1> DEFINE G == {g \in Rate..Rate + Burst : Burst <= g * Idle}
<1>1. Rate + Burst \in G
  <2>1. \A r, b, i \in Nat : 0 < i => b <= (r + b) * i
    BY Z3
  <2> QED
    BY <2>1, Sizes
<1>2. G \in SUBSET Nat
  BY Sizes
<1>3. PICK n \in G : \A m \in G : n <= m
  <2> HIDE DEF G
  <2> QED
    BY <1>1, <1>2, LeastOne
<1>4. L!Regain \in G
  <2>1. L!Regain = CHOOSE x \in G : \A y \in G : x <= y
    BY DEF L!Regain, L!Min
  <2> HIDE DEF G
  <2> QED
    BY <1>3, <2>1
<1> QED
  BY <1>4, Sizes

BucketsTyped == /\ ticks \in 0..MaxTicks
                /\ buckets \in [Tenant -> [level : 0..Burst, seen : 0..MaxTicks + 1]]
                /\ admitted \in [Tenant -> Nat]

(* What a workspace may still be let through at once, n tokens, is what its burst *)
(* and what a bucket regains have left of it.                                  *)
Accounted(w, n) == /\ Burst <= admitted[w] + n
                   /\ admitted[w] + n <= Burst + L!Regain * ticks

(* Nothing is let through after the bucket was last asked for: if it is dropped and *)
(* made full, the time since has earned that burst.                              *)
Earned(w) == admitted[w] <= Burst + L!Regain * buckets[w].seen

BucketStands(w) == IF buckets[w] = L!NoBucket THEN Accounted(w, Burst)
                   ELSE /\ buckets[w].seen <= ticks
                        /\ Accounted(w, buckets[w].level)
                        /\ Earned(w)

BucketInv == BucketsTyped /\ \A w \in Tenant : BucketStands(w)

LEMMA BucketInit == L!GateInit => BucketInv
<1> SUFFICES ASSUME L!GateInit PROVE BucketInv
  OBVIOUS
<1>1. L!NoBucket \in [level : 0..Burst, seen : 0..MaxTicks + 1]
  BY Sizes DEF L!NoBucket
<1>2. BucketsTyped
  BY <1>1, Sizes DEF L!GateInit, BucketsTyped
<1>3. ASSUME NEW w \in Tenant PROVE BucketStands(w)
  <2>1. buckets[w] = L!NoBucket /\ admitted[w] = 0 /\ ticks = 0
    BY DEF L!GateInit
  <2>2. L!Regain * ticks = 0
    BY <2>1, Regains
  <2> QED
    BY <2>1, <2>2, Sizes DEF BucketStands, Accounted
<1> QED
  BY <1>2, <1>3 DEF BucketInv

(* A workspace whose bucket is dropped may be let through a whole burst again. *)
LEMMA DroppedEarned ==
    ASSUME BucketInv, NEW w \in Tenant, buckets[w] # L!NoBucket, ticks - buckets[w].seen > Idle
    PROVE  Accounted(w, Burst)
<1>1. /\ buckets[w].seen \in Nat /\ ticks \in Nat /\ admitted[w] \in Nat
      /\ buckets[w].seen + Idle <= ticks /\ Earned(w)
  BY Sizes DEF BucketInv, BucketsTyped, BucketStands
<1>2. \A r, s, i, t \in Nat : s + i <= t => r * s + r * i <= r * t
  BY Z3
<1>3. /\ L!Regain * buckets[w].seen + L!Regain * Idle <= L!Regain * ticks
      /\ L!Regain * buckets[w].seen \in Nat /\ L!Regain * Idle \in Nat /\ L!Regain * ticks \in Nat
  BY <1>1, <1>2, Regains, Sizes
<1> QED
  BY <1>1, <1>3, Regains, Sizes DEF Earned, Accounted

(* The sweep leaves every workspace with what it may still be let through. *)
LEMMA SweptStands ==
    ASSUME BucketInv, NEW w \in Tenant
    PROVE  /\ L!Swept(buckets)[w] \in [level : 0..Burst, seen : 0..MaxTicks + 1]
           /\ L!Swept(buckets)[w] = L!NoBucket => Accounted(w, Burst)
           /\ L!Swept(buckets)[w] # L!NoBucket => /\ L!Swept(buckets)[w] = buckets[w]
                                                  /\ Accounted(w, buckets[w].level)
<1>1. L!NoBucket \in [level : 0..Burst, seen : 0..MaxTicks + 1]
  BY Sizes DEF L!NoBucket
<1>2. L!Swept(buckets)[w] = IF buckets[w] # L!NoBucket /\ ticks - buckets[w].seen > Idle
                            THEN L!NoBucket ELSE buckets[w]
  BY DEF L!Swept
<1>3. CASE buckets[w] # L!NoBucket /\ ticks - buckets[w].seen > Idle
  <2>1. Accounted(w, Burst)
    BY <1>3, DroppedEarned
  <2> QED
    BY <1>1, <1>2, <1>3, <2>1
<1>4. CASE ~ (buckets[w] # L!NoBucket /\ ticks - buckets[w].seen > Idle)
  BY <1>2, <1>4 DEF BucketInv, BucketsTyped, BucketStands
<1> QED
  BY <1>3, <1>4

LEMMA AllowKeeps ==
    ASSUME BucketInv, NEW c \in Caller, NEW w \in Tenant, L!WorkspaceLimit(c, w), L!Enabled
    PROVE  BucketInv'
<1> DEFINE kept == L!Swept(buckets)
           had == IF kept[w] = L!NoBucket THEN Burst ELSE kept[w].level
           left == [level |-> IF had > 0 THEN had - 1 ELSE 0, seen |-> ticks]
<1>1. /\ buckets' = [kept EXCEPT ![w] = left]
      /\ had > 0 => admitted' = [admitted EXCEPT ![w] = @ + 1]
      /\ ~ (had > 0) => admitted' = admitted
      /\ ticks' = ticks
  BY DEF L!WorkspaceLimit, L!Allow
<1>2. kept \in [Tenant -> [level : 0..Burst, seen : 0..MaxTicks + 1]]
  <2>1. kept = [v \in Tenant |-> kept[v]]
    BY DEF L!Swept
  <2> QED
    BY <2>1, SweptStands
<1>3. had \in 0..Burst /\ Accounted(w, had)
  BY <1>2, SweptStands, Sizes
<1> HIDE DEF kept, had
<1>4. left \in [level : 0..Burst, seen : 0..MaxTicks + 1]
  BY <1>3, Sizes DEF BucketInv, BucketsTyped
<1>5. ticks \in Nat /\ ticks <= MaxTicks /\ \A v \in Tenant : admitted[v] \in Nat
  BY Sizes DEF BucketInv, BucketsTyped
<1>6. BucketsTyped'
  <2>1. buckets' \in [Tenant -> [level : 0..Burst, seen : 0..MaxTicks + 1]]
    BY <1>1, <1>2, <1>4
  <2>2. admitted' \in [Tenant -> Nat]
    BY <1>1, <1>5 DEF BucketInv, BucketsTyped
  <2> QED
    BY <1>1, <2>1, <2>2 DEF BucketInv, BucketsTyped
<1>7. BucketStands(w)'
  <2>1. buckets'[w] = left
    BY <1>1, <1>2
  <2>2. left # L!NoBucket
    BY <1>5, Sizes DEF L!NoBucket
  <2>3. admitted'[w] + left.level = admitted[w] + had
    <3>1. CASE had > 0
      <4>1. admitted'[w] = admitted[w] + 1
        BY <1>1, <3>1 DEF BucketInv, BucketsTyped
      <4> QED
        BY <3>1, <4>1, <1>3, <1>5, Sizes
    <3>2. CASE ~ (had > 0)
      BY <1>1, <3>2, <1>3, <1>5, Sizes
    <3> QED
      BY <3>1, <3>2
  <2>5. (L!Regain)' = L!Regain
    BY DEF L!Regain
  <2>4. Accounted(w, buckets[w].level)'
    BY <1>1, <1>3, <2>1, <2>3, <2>5 DEF Accounted
  <2>6. Earned(w)'
    <3>1. left.level \in Nat /\ admitted'[w] \in Nat /\ buckets'[w].seen = ticks
      BY <1>4, <1>6, <2>1 DEF BucketsTyped
    <3>2. admitted'[w] + left.level <= Burst + L!Regain * ticks /\ L!Regain * ticks \in Nat
      BY <1>3, <1>5, <2>3, Regains DEF Accounted
    <3> QED
      BY <2>5, <3>1, <3>2, Sizes DEF Earned
  <2>7. buckets'[w].seen <= ticks'
    BY <1>1, <1>5, <2>1
  <2>8. (L!NoBucket)' = L!NoBucket
    BY DEF L!NoBucket
  <2> QED
    BY <2>1, <2>2, <2>4, <2>6, <2>7, <2>8 DEF BucketStands
<1>8. ASSUME NEW v \in Tenant, v # w PROVE BucketStands(v)'
  <2>1. buckets'[v] = kept[v] /\ admitted'[v] = admitted[v]
    BY <1>1, <1>2, <1>8 DEF BucketInv, BucketsTyped
  <2>2. CASE kept[v] = L!NoBucket
    <3>1. Accounted(v, Burst)
      BY <2>2, SweptStands DEF kept
    <3> QED
      BY <1>1, <2>1, <2>2, <3>1 DEF BucketStands, Accounted
  <2>3. CASE kept[v] # L!NoBucket
    <3>1. buckets'[v] = buckets[v] /\ buckets[v] # L!NoBucket
      BY <2>1, <2>3, SweptStands DEF kept
    <3> QED
      BY <1>1, <2>1, <3>1 DEF BucketInv, BucketStands, Accounted, Earned
  <2> QED
    BY <2>2, <2>3
<1> QED
  BY <1>6, <1>7, <1>8 DEF BucketInv

LEMMA TickKeeps ==
    ASSUME BucketInv, L!Tick
    PROVE  BucketInv'
<1> DEFINE filled(w) == [buckets[w] EXCEPT !.level = L!Min({Burst, @ + Rate})]
<1>1. /\ ticks' = ticks + 1 /\ ticks < MaxTicks /\ admitted' = admitted
      /\ buckets' = [w \in Tenant |-> IF buckets[w] = L!NoBucket THEN L!NoBucket ELSE filled(w)]
  BY DEF L!Tick
<1>2. ticks \in Nat /\ ticks' \in 0..MaxTicks
  BY <1>1, Sizes DEF BucketInv, BucketsTyped
<1>3. /\ L!Regain * ticks' = L!Regain * ticks + L!Regain
      /\ L!Regain * ticks \in Nat /\ (L!Regain)' = L!Regain
  BY <1>1, <1>2, Regains DEF L!Regain
<1>4. ASSUME NEW w \in Tenant
      PROVE  /\ buckets[w].level \in 0..Burst /\ buckets[w].seen \in 0..MaxTicks + 1
             /\ filled(w) = [level |-> IF Burst <= buckets[w].level + Rate THEN Burst
                                       ELSE buckets[w].level + Rate, seen |-> buckets[w].seen]
             /\ filled(w) \in [level : 0..Burst, seen : 0..MaxTicks + 1]
  <2>1. buckets[w] \in [level : 0..Burst, seen : 0..MaxTicks + 1]
    BY DEF BucketInv, BucketsTyped
  <2>2. buckets[w].level + Rate \in Nat
    BY <2>1, Sizes
  <2>3. L!Min({Burst, buckets[w].level + Rate})
            = IF Burst <= buckets[w].level + Rate THEN Burst ELSE buckets[w].level + Rate
    BY <2>2, Sizes, LesserOfTwo
  <2>4. filled(w) = [level |-> IF Burst <= buckets[w].level + Rate THEN Burst
                               ELSE buckets[w].level + Rate, seen |-> buckets[w].seen]
    BY <2>1, <2>3
  <2> QED
    BY <2>1, <2>2, <2>4, Sizes
<1> HIDE DEF filled
<1>5. BucketsTyped'
  <2>1. \A w \in Tenant : buckets'[w] \in [level : 0..Burst, seen : 0..MaxTicks + 1]
    BY <1>1, <1>4, Sizes DEF L!NoBucket
  <2> QED
    BY <1>1, <1>2, <2>1 DEF BucketInv, BucketsTyped
<1>6. ASSUME NEW w \in Tenant PROVE BucketStands(w)'
  <2>1. admitted[w] \in Nat /\ admitted'[w] = admitted[w] /\ BucketStands(w)
    BY <1>1 DEF BucketInv, BucketsTyped
  <2>2. CASE buckets[w] = L!NoBucket
    <3>1. buckets'[w] = L!NoBucket
      BY <1>1, <2>2
    <3> QED
      BY <3>1, <2>1, <2>2, <1>3, Regains, Sizes DEF BucketStands, Accounted
  <2>3. CASE buckets[w] # L!NoBucket
    <3>1. buckets'[w] = filled(w) /\ buckets[w].seen <= ticks
      BY <1>1, <2>1, <2>3 DEF BucketStands
    <3>2. buckets'[w] # L!NoBucket
      BY <1>2, <1>4, <3>1, <1>1, Sizes DEF L!NoBucket
    <3>3. Accounted(w, buckets[w].level) /\ Earned(w)
      BY <2>1, <2>3 DEF BucketStands
    <3>4. Accounted(w, buckets[w].level)'
      <4>1. /\ buckets'[w].level \in Nat /\ buckets[w].level \in Nat
            /\ buckets[w].level <= buckets'[w].level
            /\ buckets'[w].level <= buckets[w].level + L!Regain
        BY <1>4, <3>1, Regains, Sizes
      <4> QED
        BY <1>3, <2>1, <3>3, <4>1, Regains, Sizes DEF Accounted
    <3>7. Earned(w)'
      BY <1>3, <1>4, <2>1, <3>1, <3>3 DEF Earned
    <3>8. buckets'[w].seen <= ticks'
      BY <1>1, <1>2, <1>4, <3>1
    <3>9. (L!NoBucket)' = L!NoBucket
      BY DEF L!NoBucket
    <3> QED
      BY <3>2, <3>4, <3>7, <3>8, <3>9 DEF BucketStands
  <2> QED
    BY <2>2, <2>3
<1> QED
  BY <1>5, <1>6 DEF BucketInv

LEMMA BucketStays ==
    ASSUME BucketInv, UNCHANGED <<ticks, buckets, admitted>>
    PROVE  BucketInv'
BY DEF BucketInv, BucketsTyped, BucketStands, Accounted, Earned, L!Regain

LEMMA BucketStep == BucketInv /\ [Next]_vars => BucketInv'
<1> SUFFICES ASSUME BucketInv, [Next]_vars PROVE BucketInv'
  OBVIOUS
<1>1. CASE UNCHANGED L!gateVars
  BY <1>1, BucketStays DEF L!gateVars
<1>2. ASSUME NEW c \in Caller, NEW w \in Tenant, L!WorkspaceLimit(c, w) PROVE BucketInv'
  <2>1. CASE L!Enabled
    BY <1>2, <2>1, AllowKeeps
  <2>2. CASE ~L!Enabled
    BY <1>2, <2>2, BucketStays DEF L!WorkspaceLimit, L!Allow
  <2> QED
    BY <2>1, <2>2
<1>3. ASSUME NEW c \in Caller, NEW w \in Tenant, L!Background(c, w) PROVE BucketInv'
  BY <1>3, BucketStays DEF L!Background
<1>4. ASSUME NEW c \in Caller, L!Hit(c) \/ L!BeginMint(c) \/ L!EndMint(c) \/ L!EndCall(c)
      PROVE  BucketInv'
  BY <1>4, BucketStays DEF L!Hit, L!BeginMint, L!EndMint, L!EndCall
<1>5. CASE L!Tick
  BY <1>5, TickKeeps
<1> QED
  BY PartSteps, <1>1, <1>2, <1>3, <1>4, <1>5 DEF L!GateNext

LEMMA BucketShows == BucketInv => AdmittedWithinRate
<1> SUFFICES ASSUME BucketInv PROVE L!AdmittedWithinRate
  BY DEF AdmittedWithinRate
<1>1. ticks \in Nat /\ L!Regain * ticks \in Nat
  BY Regains, Sizes DEF BucketInv, BucketsTyped
<1>2. ASSUME NEW w \in Tenant
      PROVE  /\ admitted[w] <= Burst + L!Regain * ticks
             /\ buckets[w] # L!NoBucket =>
                    admitted[w] + buckets[w].level \in Burst..Burst + L!Regain * ticks
  <2>1. admitted[w] \in Nat /\ buckets[w].level \in 0..Burst /\ BucketStands(w)
    BY DEF BucketInv, BucketsTyped
  <2> QED
    BY <1>1, <2>1, Sizes DEF BucketStands, Accounted
<1> QED
  BY <1>2 DEF L!AdmittedWithinRate

(* A workspace is let through at most its burst and its rate in all, or what a rate   *)
(* that would fill a bucket before it is dropped would give it, whatever the sweep    *)
(* drops; for any rate and burst (ratelimit.go Allow, sweepLocked).                  *)
THEOREM WithinRate == Spec => []AdmittedWithinRate
<1>1. Init => BucketInv
  BY BucketInit DEF Init
<1>2. BucketInv /\ [Next]_vars => BucketInv'
  BY BucketStep
<1> QED
  BY <1>1, <1>2, BucketShows, PTL DEF Spec, vars

-----------------------------------------------------------------------------
(* The token before Lens.                                                   *)

CallersTyped ==
    /\ ticks \in Nat
    /\ tokens \in [Tenant -> [expiresAt : Nat, ends : Nat]]
    /\ holder \in [Tenant -> Caller \cup {"nobody"}]
    /\ callers \in [Caller -> [pc : {"idle", "token", "mint", "call"},
                               tenant : Tenant \cup {"nobody"}, ends : Nat, since : Nat]]

(* Each request: it has a workspace; while it mints it holds the entry, and the    *)
(* token there is nearly over; a mint and a call began at most a tick ago; and    *)
(* the token a call carries was good for two ticks when it left.                  *)
CallerStands(c) ==
    LET w == callers[c].tenant IN
    /\ callers[c].pc # "idle" => w \in Tenant
    /\ callers[c].pc = "mint" => holder[w] = c /\ tokens[w].expiresAt <= ticks + Skew
    /\ callers[c].pc \in {"mint", "call"} => /\ callers[c].since <= ticks
                                             /\ ticks <= callers[c].since + 1
    /\ callers[c].pc = "call" => callers[c].since + 2 <= callers[c].ends

(* A token is taken to live at most a tick longer than it does. *)
TokenStands(w) == tokens[w].expiresAt <= tokens[w].ends + 1

MintInv == /\ CallersTyped
           /\ \A w \in Tenant : TokenStands(w)
           /\ \A c \in Caller : CallerStands(c)

LEMMA MintInit == L!GateInit => MintInv
BY DEF L!GateInit, MintInv, CallersTyped, TokenStands, CallerStands, L!NoToken, L!Nobody, L!AtRest

CallerType == [pc : {"idle", "token", "mint", "call"}, tenant : Tenant \cup {"nobody"},
               ends : Nat, since : Nat]

LEMMA OneMoves ==
    ASSUME CallersTyped, NEW c \in Caller, NEW o, callers' = [callers EXCEPT ![c] = o]
    PROVE  /\ callers'[c] = o /\ \A d \in Caller \ {c} : callers'[d] = callers[d]
           /\ o \in CallerType => callers' \in [Caller -> CallerType]
BY DEF CallersTyped, CallerType

(* A request that comes, goes or begins its call leaves the others as they were. *)
LEMMA MintStays ==
    ASSUME MintInv, NEW c \in Caller, NEW o \in CallerType,
           callers' = [callers EXCEPT ![c] = o],
           UNCHANGED <<ticks, tokens, holder>>,
           o.pc # "idle" => o.tenant \in Tenant,
           o.pc # "mint",
           o.pc = "call" => o.since = ticks /\ o.since + 2 <= o.ends
    PROVE  MintInv'
<1>1. callers'[c] = o /\ \A d \in Caller \ {c} : callers'[d] = callers[d]
  BY OneMoves DEF MintInv
<1>2. CallersTyped'
  BY OneMoves DEF MintInv, CallersTyped, CallerType
<1>3. CallerStands(c)'
  BY <1>1, <1>2 DEF CallerStands, CallersTyped
<1>4. ASSUME NEW d \in Caller \ {c} PROVE CallerStands(d)'
  BY <1>1 DEF MintInv, CallerStands
<1>5. \A w \in Tenant : TokenStands(w)'
  BY DEF MintInv, TokenStands
<1> QED
  BY <1>2, <1>3, <1>4, <1>5 DEF MintInv

LEMMA AtRestTyped == L!AtRest \in CallerType /\ L!AtRest.pc = "idle"
BY DEF L!AtRest, L!Nobody, CallerType

LEMMA HitKeeps ==
    ASSUME MintInv, NEW c \in Caller, L!Hit(c)
    PROVE  MintInv'
<1> DEFINE w == callers[c].tenant
           o == [callers[c] EXCEPT !.pc = "call", !.ends = tokens[w].ends, !.since = ticks]
<1>1. /\ callers' = [callers EXCEPT ![c] = o]
      /\ UNCHANGED <<ticks, tokens, holder>>
      /\ callers[c].pc = "token" /\ tokens[w] # L!NoToken /\ ticks + Skew < tokens[w].expiresAt
  BY DEF L!Hit, L!Warm, MintInv, CallersTyped
<1>2. w \in Tenant /\ callers[c] \in CallerType
  BY <1>1 DEF MintInv, CallersTyped, CallerStands, CallerType
<1>3. tokens[w].ends \in Nat /\ tokens[w].expiresAt \in Nat /\ ticks \in Nat /\ TokenStands(w)
  BY <1>2 DEF MintInv, CallersTyped
<1>4. o \in CallerType /\ o.pc = "call" /\ o.tenant = w /\ o.since = ticks /\ o.ends = tokens[w].ends
  BY <1>2, <1>3 DEF CallerType
<1>5. ticks + 2 <= tokens[w].ends
  BY <1>1, <1>3, Sizes DEF TokenStands
<1> HIDE DEF o
<1> QED
  BY <1>1, <1>2, <1>4, <1>5, MintStays

LEMMA BeginMintKeeps ==
    ASSUME MintInv, NEW c \in Caller, L!BeginMint(c)
    PROVE  MintInv'
<1> DEFINE w == callers[c].tenant
           o == [callers[c] EXCEPT !.pc = "mint", !.since = ticks]
<1>1. /\ callers' = [callers EXCEPT ![c] = o]
      /\ holder' = [holder EXCEPT ![w] = c]
      /\ UNCHANGED <<ticks, tokens>>
      /\ callers[c].pc = "token" /\ holder[w] = "nobody"
      /\ tokens[w] = L!NoToken \/ ~ (ticks + Skew < tokens[w].expiresAt)
  BY DEF L!BeginMint, L!EntryFree, L!Nobody, L!Warm, MintInv, CallersTyped
<1>2. w \in Tenant /\ callers[c] \in CallerType
  BY <1>1 DEF MintInv, CallersTyped, CallerStands, CallerType
<1>3. tokens[w].expiresAt \in Nat /\ ticks \in Nat
  BY <1>2 DEF MintInv, CallersTyped
<1>4. o \in CallerType /\ o.pc = "mint" /\ o.tenant = w /\ o.since = ticks
  BY <1>2, <1>3 DEF CallerType
<1>5. tokens[w].expiresAt <= ticks + Skew
  BY <1>1, <1>3, Sizes DEF L!NoToken
<1> HIDE DEF o
<1>6. callers'[c] = o /\ \A d \in Caller \ {c} : callers'[d] = callers[d]
  BY <1>1, OneMoves DEF MintInv
<1>7. CallersTyped'
  BY <1>1, <1>2, <1>4, OneMoves DEF MintInv, CallersTyped, CallerType
<1>8. holder'[w] = c /\ \A v \in Tenant : v # w => holder'[v] = holder[v]
  BY <1>1, <1>2 DEF MintInv, CallersTyped
<1>9. CallerStands(c)'
  BY <1>1, <1>2, <1>3, <1>4, <1>5, <1>6, <1>8 DEF CallerStands
<1>10. ASSUME NEW d \in Caller \ {c} PROVE CallerStands(d)'
  <2>1. CallerStands(d) /\ callers'[d] = callers[d] /\ d # "nobody"
    BY <1>6, Sizes DEF MintInv
  <2>2. callers[d].pc = "mint" => callers[d].tenant # w
    BY <1>1, <2>1 DEF CallerStands
  <2> QED
    BY <1>1, <1>8, <2>1, <2>2 DEF CallerStands
<1>11. \A v \in Tenant : TokenStands(v)'
  BY <1>1 DEF MintInv, TokenStands
<1> QED
  BY <1>7, <1>9, <1>10, <1>11 DEF MintInv

(* The mint is over: the entry is free, and the token is the new one or the old. *)
LEMMA MintEnds ==
    ASSUME MintInv, NEW c \in Caller, callers[c].pc = "mint", NEW o \in CallerType,
           NEW w, w = callers[c].tenant,
           NEW token \in [expiresAt : Nat, ends : Nat],
           callers' = [callers EXCEPT ![c] = o],
           holder' = [holder EXCEPT ![w] = "nobody"],
           tokens' = [tokens EXCEPT ![w] = token],
           ticks' = ticks,
           token.expiresAt <= token.ends + 1,
           o.pc \in {"idle", "call"},
           o.pc = "call" => o.tenant = w /\ o.since = ticks /\ o.since + 2 <= o.ends
    PROVE  MintInv'
<1>1. callers'[c] = o /\ \A d \in Caller \ {c} : callers'[d] = callers[d]
  BY OneMoves DEF MintInv
<1>2. w \in Tenant /\ holder[w] = c
  BY DEF MintInv, CallerStands
<1>3. CallersTyped'
  <2>1. callers' \in [Caller -> CallerType]
    BY OneMoves DEF MintInv
  <2> QED
    BY <2>1, <1>2 DEF MintInv, CallersTyped, CallerType
<1>4. /\ tokens'[w] = token /\ \A v \in Tenant : v # w => tokens'[v] = tokens[v]
      /\ holder'[w] = "nobody" /\ \A v \in Tenant : v # w => holder'[v] = holder[v]
  BY <1>2 DEF MintInv, CallersTyped
<1>5. CallerStands(c)'
  BY <1>1, <1>2, <1>3 DEF CallerStands, CallersTyped
<1>6. ASSUME NEW d \in Caller \ {c} PROVE CallerStands(d)'
  <2>1. CallerStands(d) /\ callers'[d] = callers[d]
    BY <1>1 DEF MintInv
  <2>2. callers[d].pc = "mint" => callers[d].tenant # w
    BY <1>2, <2>1 DEF CallerStands
  <2> QED
    BY <1>4, <2>1, <2>2 DEF CallerStands
<1>7. \A v \in Tenant : TokenStands(v)'
  BY <1>4 DEF MintInv, TokenStands
<1> QED
  BY <1>3, <1>5, <1>6, <1>7 DEF MintInv

LEMMA EndMintKeeps ==
    ASSUME MintInv, NEW c \in Caller, L!EndMint(c)
    PROVE  MintInv'
<1> DEFINE w == callers[c].tenant
<1>1. callers[c].pc = "mint" /\ holder' = [holder EXCEPT ![w] = "nobody"] /\ ticks' = ticks
  BY DEF L!EndMint, L!Nobody
<1>2. /\ w \in Tenant /\ callers[c] \in CallerType /\ ticks \in Nat /\ callers[c].since \in Nat
      /\ callers[c].since <= ticks /\ ticks <= callers[c].since + 1
      /\ tokens[w] \in [expiresAt : Nat, ends : Nat] /\ TokenStands(w)
  BY <1>1 DEF MintInv, CallersTyped, CallerStands, CallerType
<1>3. CASE \E made \in callers[c].since..ticks : \E stated \in {made, ticks} :
               /\ tokens' = [tokens EXCEPT ![w] = [expiresAt |-> stated + Life, ends |-> made + Life]]
               /\ callers' = [callers EXCEPT ![c].pc = "call", ![c].ends = tokens'[w].ends,
                                             ![c].since = ticks]
  <2>0. PICK made \in callers[c].since..ticks : \E stated \in {made, ticks} :
               /\ tokens' = [tokens EXCEPT ![w] = [expiresAt |-> stated + Life, ends |-> made + Life]]
               /\ callers' = [callers EXCEPT ![c].pc = "call", ![c].ends = tokens'[w].ends,
                                             ![c].since = ticks]
    BY <1>3
  <2>1. PICK stated \in {made, ticks} :
               /\ tokens' = [tokens EXCEPT ![w] = [expiresAt |-> stated + Life, ends |-> made + Life]]
               /\ callers' = [callers EXCEPT ![c].pc = "call", ![c].ends = tokens'[w].ends,
                                             ![c].since = ticks]
    BY <2>0
  <2> DEFINE token == [expiresAt |-> stated + Life, ends |-> made + Life]
             o == [callers[c] EXCEPT !.pc = "call", !.ends = made + Life, !.since = ticks]
  <2>2. made \in Nat /\ made <= ticks /\ ticks <= made + 1 /\ stated \in Nat /\ stated <= made + 1
    BY <1>2, <2>1
  <2>3. tokens'[w] = token
    BY <1>2, <2>1 DEF MintInv, CallersTyped
  <2>4. callers' = [callers EXCEPT ![c] = o]
    <3>1. tokens'[w].ends = made + Life
      BY <2>3
    <3>2. callers' = [callers EXCEPT ![c].pc = "call", ![c].ends = made + Life, ![c].since = ticks]
      BY <2>1, <3>1
    <3> QED
      BY <3>2 DEF MintInv, CallersTyped
  <2>5. token \in [expiresAt : Nat, ends : Nat] /\ token.expiresAt <= token.ends + 1
    BY <2>2, Sizes
  <2>6. /\ o \in CallerType /\ o.pc = "call" /\ o.tenant = w /\ o.since = ticks
        /\ o.ends = made + Life
    <3>1. made + Life \in Nat
      BY <2>2, Sizes
    <3> QED
      BY <1>2, <3>1 DEF CallerType
  <2>7. ticks + 2 <= made + Life
    BY <1>2, <2>2, Sizes
  <2>8. tokens' = [tokens EXCEPT ![w] = token]
    BY <2>1
  <2> HIDE DEF o, token
  <2> QED
    BY <1>1, <2>4, <2>5, <2>6, <2>7, <2>8, MintEnds
<1>4. CASE callers' = [callers EXCEPT ![c] = L!AtRest] /\ UNCHANGED tokens
  <2>1. tokens' = [tokens EXCEPT ![w] = tokens[w]]
    BY <1>2, <1>4 DEF MintInv, CallersTyped
  <2>2. tokens[w].expiresAt <= tokens[w].ends + 1
    BY <1>2 DEF TokenStands
  <2> QED
    BY <1>1, <1>2, <1>4, <2>1, <2>2, AtRestTyped, MintEnds
<1> QED
  BY <1>3, <1>4 DEF L!EndMint

LEMMA MintTick ==
    ASSUME MintInv, L!Tick
    PROVE  MintInv'
<1>1. /\ ticks' = ticks + 1 /\ UNCHANGED <<tokens, holder, callers>>
      /\ \A c \in Caller : callers[c].pc \in {"mint", "call"} => callers[c].since = ticks
  BY DEF L!Tick
<1>2. ticks \in Nat /\ CallersTyped'
  BY <1>1 DEF MintInv, CallersTyped
<1>3. ASSUME NEW c \in Caller PROVE CallerStands(c)'
  <2>1. callers[c].tenant \in Tenant => tokens[callers[c].tenant].expiresAt \in Nat
    BY DEF MintInv, CallersTyped
  <2> QED
    BY <1>1, <1>2, <2>1, Sizes DEF MintInv, CallerStands
<1>4. \A w \in Tenant : TokenStands(w)'
  BY <1>1 DEF MintInv, TokenStands
<1> QED
  BY <1>2, <1>3, <1>4 DEF MintInv

LEMMA MintUnchanged ==
    ASSUME MintInv, UNCHANGED <<ticks, tokens, holder, callers>>
    PROVE  MintInv'
BY DEF MintInv, CallersTyped, CallerStands, TokenStands

LEMMA MintStep == MintInv /\ [Next]_vars => MintInv'
<1> SUFFICES ASSUME MintInv, [Next]_vars PROVE MintInv'
  OBVIOUS
<1>1. CASE UNCHANGED L!gateVars
  BY <1>1, MintUnchanged DEF L!gateVars
<1>2. ASSUME NEW c \in Caller, NEW w \in Tenant, L!WorkspaceLimit(c, w) \/ L!Background(c, w)
      PROVE  MintInv'
  <2> DEFINE o == [L!AtRest EXCEPT !.pc = "token", !.tenant = w]
  <2>1. o \in CallerType /\ o.pc = "token" /\ o.tenant = w
    BY DEF L!AtRest, L!Nobody, CallerType
  <2> HIDE DEF o
  <2>2. CASE callers' = callers /\ UNCHANGED <<ticks, tokens, holder>>
    BY <2>2, MintUnchanged
  <2>3. CASE callers' = [callers EXCEPT ![c] = o] /\ UNCHANGED <<ticks, tokens, holder>>
    BY <2>1, <2>3, MintStays
  <2> QED
    BY <1>2, <2>2, <2>3 DEF L!WorkspaceLimit, L!Background, o
<1>3. ASSUME NEW c \in Caller, L!Hit(c) PROVE MintInv'
  BY <1>3, HitKeeps
<1>4. ASSUME NEW c \in Caller, L!BeginMint(c) PROVE MintInv'
  BY <1>4, BeginMintKeeps
<1>5. ASSUME NEW c \in Caller, L!EndMint(c) PROVE MintInv'
  BY <1>5, EndMintKeeps
<1>6. ASSUME NEW c \in Caller, L!EndCall(c) PROVE MintInv'
  BY <1>6, AtRestTyped, MintStays DEF L!EndCall
<1>7. CASE L!Tick
  BY <1>7, MintTick
<1> QED
  BY PartSteps, <1>1, <1>2, <1>3, <1>4, <1>5, <1>6, <1>7 DEF L!GateNext

(* What a step does to the tokens and the calls. *)
MintsOnce == \A w \in Tenant :
                 /\ tokens'[w] # tokens[w] => ticks + Skew >= tokens[w].expiresAt
                 /\ \A c \in Caller : callers'[c].pc = "call" => ticks' < callers'[c].ends

LEMMA MintShows == MintInv /\ MintInv' /\ [Next]_vars => [MintsOnce]_(L!gateVars)
<1> SUFFICES ASSUME MintInv, MintInv', [Next]_vars
             PROVE  \A w \in Tenant :
                 /\ tokens'[w] # tokens[w] => ticks + Skew >= tokens[w].expiresAt
                 /\ \A c \in Caller : callers'[c].pc = "call" => ticks' < callers'[c].ends
  BY DEF MintsOnce
<1>1. ASSUME NEW c \in Caller, callers'[c].pc = "call" PROVE ticks' < callers'[c].ends
  BY <1>1 DEF MintInv, CallersTyped, CallerStands
<1>2. ASSUME NEW w \in Tenant, tokens'[w] # tokens[w] PROVE ticks + Skew >= tokens[w].expiresAt
  <2>1. \E c \in Caller : L!EndMint(c)
    BY <1>2, PartSteps DEF L!GateNext, L!gateVars, L!WorkspaceLimit, L!Background, L!Hit,
       L!BeginMint, L!EndCall, L!Tick
  <2>2. PICK c \in Caller : L!EndMint(c)
    BY <2>1
  <2>3. callers[c].pc = "mint" /\ callers[c].tenant = w
    BY <1>2, <2>2 DEF L!EndMint, MintInv, CallersTyped
  <2>4. tokens[w].expiresAt <= ticks + Skew /\ tokens[w].expiresAt \in Nat /\ ticks \in Nat
    BY <2>3 DEF MintInv, CallersTyped, CallerStands
  <2> QED
    BY <2>4, Sizes
<1> QED
  BY <1>1, <1>2

(* Whoever mints holds the workspace's entry until the answer, so a token is replaced *)
(* only when none is good for longer than the skew; and a call that leaves with a     *)
(* token is over before the token is (provider.go TokenFor, mint).                   *)
THEOREM MintedOnce == Spec => OneMintPerLifetime
<1>1. Init => MintInv
  BY MintInit DEF Init
<1>2. MintInv /\ [Next]_vars => MintInv'
  BY MintStep
<1>3. Spec => [][MintsOnce]_(L!gateVars)
  BY <1>1, <1>2, MintShows, PTL DEF Spec, vars
<1> QED
  BY <1>3, PTL DEF OneMintPerLifetime, L!OneMintPerLifetime, MintsOnce

-----------------------------------------------------------------------------
(* The share links.                                                         *)

LEMMA LinkSizes ==
    /\ Old \subseteq Link /\ "none" \notin Key /\ "unsigned" \notin Key /\ "none" \notin Page
    /\ MaxClock \in Nat /\ Page # {}
BY GatesAssumption DEF S!SharesSizes, S!None, S!Unsigned

LinkRow == [page : Page \cup {"none"}, expires : Nat, password : BOOLEAN, views : Nat]

Gone == [page |-> "none", expires |-> 0, password |-> FALSE, views |-> 0]

(* The table and the tokens people hold: a link that has ended has no row and gets  *)
(* none, and a token is of a link that is there or has ended.                      *)
TableStands ==
    /\ clock \in Nat
    /\ links \in [Link -> LinkRow]
    /\ known \subseteq [link : Link, by : Key \cup {"unsigned"}]
    /\ key \in Key \cup {"none"}
    /\ \A l \in Link : l \in ended => links[l] = Gone
    /\ \A t \in known : links[t.link] = Gone => t.link \in ended
    /\ \A l \in Old : [link |-> l, by |-> "unsigned"] \in known

Signed(t) == t.by = key \/ (t.by = "unsigned" /\ t.link \in Old)

VisitType == [pc : {"read", "count", "load", "shown", "refused"},
              token : [link : Link, by : Key \cup {"unsigned"}], password : BOOLEAN,
              row : LinkRow, from : Nat, stood : BOOLEAN]

(* The row a visit read says the same of its link as the table does, or the link has *)
(* ended since.                                                                    *)
RowHolds(l, row) == \/ l \in ended
                    \/ /\ links[l].page = row.page
                       /\ links[l].expires = row.expires
                       /\ links[l].password = row.password

Shut(l, password) == \/ l \in ended \/ links[l].page \notin there
                     \/ clock > links[l].expires
                     \/ links[l].password /\ ~ password

(* A visit whose token did not stand when it began reads nothing: the signature is   *)
(* wrong, or the link had ended.  One that read the row passed all that is asked.     *)
VisitStands ==
    visit.pc # "idle" =>
        /\ visit \in VisitType
        /\ visit.from <= clock
        /\ visit.stood => visit.token \in known /\ Signed(visit.token)
        /\ Signed(visit.token) /\ ~ visit.stood => visit.token.link \in ended
        /\ visit.pc \in {"count", "load", "shown"} =>
               /\ visit.stood
               /\ visit.from <= visit.row.expires
               /\ visit.row.password => visit.password
        /\ visit.pc \in {"count", "load"} => RowHolds(visit.token.link, visit.row)
        /\ visit.pc = "refused" /\ visit.stood => Shut(visit.token.link, visit.password)

SharesInv == TableStands /\ VisitStands

LEMMA GoneIsARow == Gone \in LinkRow /\ S!NoRow = Gone
BY DEF Gone, LinkRow, S!NoRow, S!None

LEMMA SharesStart == S!SharesInit => SharesInv
<1> SUFFICES ASSUME S!SharesInit PROVE SharesInv
  OBVIOUS
<1>1. \A p \in Page : [page |-> p, expires |-> S!Never, password |-> FALSE, views |-> 0] \in LinkRow
  BY LinkSizes DEF S!Never, LinkRow
<1>2. (CHOOSE p \in Page : TRUE) \in Page
  BY LinkSizes
<1>3. links \in [Link -> LinkRow]
  BY <1>1, <1>2, GoneIsARow, LinkSizes DEF S!SharesInit
<1>4. known \subseteq [link : Link, by : Key \cup {"unsigned"}]
  BY LinkSizes DEF S!SharesInit, S!Unsigned
<1>5. \A l \in Old : [link |-> l, by |-> "unsigned"] \in known
  BY DEF S!SharesInit, S!Unsigned
<1>6. ASSUME NEW t \in known PROVE links[t.link] # Gone
  <2>1. t.link \in Old /\ t.link \in Link
    BY LinkSizes DEF S!SharesInit
  <2>2. links[t.link].page \in Page
    BY <1>2, <2>1 DEF S!SharesInit
  <2> QED
    BY <2>2, LinkSizes DEF Gone
<1>7. TableStands
  BY <1>3, <1>4, <1>5, <1>6 DEF TableStands, S!SharesInit, S!None
<1> QED
  BY <1>7 DEF SharesInv, VisitStands, S!SharesInit, S!NoVisit

(* What a step that is not the visit's does: time passes, links end, a row that stays *)
(* stays as it is but for its count, and tokens are given out.                      *)
Moved == /\ clock \in Nat /\ clock' \in Nat /\ clock <= clock'
         /\ ended \subseteq ended' /\ known \subseteq known' /\ there' \subseteq there
         /\ \A l \in Link : l \notin ended' /\ links[l] # Gone =>
                /\ links'[l].page = links[l].page
                /\ links'[l].expires = links[l].expires
                /\ links'[l].password = links[l].password

LEMMA VisitWaits ==
    ASSUME SharesInv, Moved, UNCHANGED <<key, visit>>
    PROVE  VisitStands'
<1> SUFFICES ASSUME visit.pc # "idle" PROVE VisitStands'
  BY DEF VisitStands
<1> DEFINE l == visit.token.link
<1>1. VisitStands /\ TableStands
  BY DEF SharesInv
<1>2. l \in Link /\ visit \in VisitType /\ visit.from \in Nat
  BY <1>1 DEF VisitStands, VisitType
<1>3. visit.stood => l \in ended' \/ /\ links[l] # Gone
                                     /\ links'[l].page = links[l].page
                                     /\ links'[l].expires = links[l].expires
                                     /\ links'[l].password = links[l].password
  BY <1>1, <1>2 DEF VisitStands, TableStands, Moved
<1>4. visit.from <= clock'
  BY <1>1, <1>2 DEF VisitStands, Moved
<1>5. visit.stood => visit.token \in known' /\ Signed(visit.token)'
  BY <1>1 DEF VisitStands, Moved, Signed
<1>6. Signed(visit.token)' /\ ~ visit.stood => l \in ended'
  BY <1>1 DEF VisitStands, Moved, Signed
<1>7. visit.pc \in {"count", "load"} => RowHolds(l, visit.row)'
  BY <1>1, <1>3 DEF VisitStands, RowHolds, Moved
<1>8. visit.pc = "refused" /\ visit.stood => Shut(l, visit.password)'
  <2> SUFFICES ASSUME visit.pc = "refused", visit.stood, l \notin ended'
               PROVE  Shut(l, visit.password)'
    BY DEF Shut
  <2>1. Shut(l, visit.password) /\ l \notin ended
    BY <1>1 DEF VisitStands, Moved
  <2>2. links[l].expires \in Nat
    BY <1>1, <1>2 DEF TableStands, LinkRow
  <2> QED
    BY <1>3, <2>1, <2>2 DEF Shut, Moved
<1> QED
  BY <1>1, <1>2, <1>4, <1>5, <1>6, <1>7, <1>8 DEF VisitStands

LEMMA PresentIsAToken ==
    ASSUME TableStands, NEW l \in Link
    PROVE  S!Present(l) \in [link : Link, by : Key \cup {"unsigned"}] /\ S!Present(l).link = l
BY DEF TableStands, S!Present, S!None, S!Unsigned

LEMMA CreateKeeps ==
    ASSUME SharesInv, NEW l \in Link, NEW p \in Page, NEW e \in 0..S!Never,
           NEW password \in BOOLEAN, S!Create(l, p, e, password)
    PROVE  SharesInv'
<1> DEFINE row == S!NewRow(p, e, password)
<1>1. /\ links' = [links EXCEPT ![l] = row] /\ known' = known \cup {S!Present(l)}
      /\ links[l] = Gone /\ l \notin ended
      /\ UNCHANGED <<there, key, clock, visit, ended>>
  BY GoneIsARow DEF S!Create
<1>2. row \in LinkRow /\ row # Gone
  BY LinkSizes DEF S!NewRow, LinkRow, Gone, S!Never
<1> HIDE DEF row
<1>3. TableStands
  BY DEF SharesInv
<1>4. links'[l] = row /\ \A k \in Link : k # l => links'[k] = links[k]
  BY <1>1, <1>3 DEF TableStands
<1>5. S!Present(l) \in [link : Link, by : Key \cup {"unsigned"}] /\ S!Present(l).link = l
  BY <1>3, PresentIsAToken
<1>6. known' \subseteq [link : Link, by : Key \cup {"unsigned"}]
  BY <1>1, <1>3, <1>5 DEF TableStands
<1>7. links' \in [Link -> LinkRow]
  BY <1>1, <1>2, <1>3 DEF TableStands
<1>8. \A k \in Link : k \in ended' => links'[k] = Gone
  BY <1>1, <1>3, <1>4 DEF TableStands
<1>9. \A t \in known' : links'[t.link] = Gone => t.link \in ended'
  BY <1>1, <1>2, <1>3, <1>4, <1>5 DEF TableStands
<1>10. TableStands'
  BY <1>1, <1>3, <1>6, <1>7, <1>8, <1>9 DEF TableStands
<1>11. Moved
  BY <1>1, <1>3, <1>4 DEF Moved, TableStands
<1> QED
  BY <1>1, <1>10, <1>11, VisitWaits DEF SharesInv

LEMMA ListKeeps ==
    ASSUME SharesInv, NEW p \in Page, S!List(p)
    PROVE  SharesInv'
<1>1. /\ known' = known \cup {S!Present(l) : l \in S!LinksOf(p)}
      /\ UNCHANGED <<links, there, key, clock, visit, ended>>
  BY DEF S!List
<1>2. TableStands
  BY DEF SharesInv
<1>3. ASSUME NEW t \in known', t \notin known
      PROVE  t \in [link : Link, by : Key \cup {"unsigned"}] /\ links[t.link] # Gone
  BY <1>1, <1>2, <1>3, PresentIsAToken, GoneIsARow DEF S!LinksOf
<1>4. TableStands'
  BY <1>1, <1>2, <1>3 DEF TableStands
<1>5. Moved
  BY <1>1, <1>2 DEF Moved, TableStands
<1> QED
  BY <1>1, <1>4, <1>5, VisitWaits DEF SharesInv

(* Links that lose their row have ended. *)
LEMMA EndKeeps ==
    ASSUME SharesInv, NEW Lost \in SUBSET Link, \A l \in Lost : links[l] # Gone,
           links' = [l \in Link |-> IF l \in Lost THEN Gone ELSE links[l]],
           ended' = ended \cup Lost, there' \subseteq there,
           UNCHANGED <<key, known, clock, visit>>
    PROVE  SharesInv'
<1>1. TableStands
  BY DEF SharesInv
<1>2. links' \in [Link -> LinkRow]
  BY <1>1, GoneIsARow DEF TableStands
<1>3. \A l \in Link : l \in ended' => links'[l] = Gone
  BY <1>1 DEF TableStands
<1>4. \A t \in known : t.link \in Link
  BY <1>1 DEF TableStands
<1>5. \A t \in known' : links'[t.link] = Gone => t.link \in ended'
  BY <1>1, <1>4 DEF TableStands
<1>6. TableStands'
  BY <1>1, <1>2, <1>3, <1>5 DEF TableStands
<1>7. Moved
  BY <1>1 DEF Moved, TableStands
<1> QED
  BY <1>6, <1>7, VisitWaits DEF SharesInv

LEMMA RevokeKeeps ==
    ASSUME SharesInv, NEW l \in Link, NEW p \in Page, S!Revoke(l, p)
    PROVE  SharesInv'
<1>1. /\ l \in S!LinksOf(p) /\ links' = [links EXCEPT ![l] = Gone]
      /\ ended' = ended \cup {l} /\ UNCHANGED <<there, key, known, clock, visit>>
  BY GoneIsARow DEF S!Revoke, S!Revocable
<1>2. links' = [k \in Link |-> IF k \in {l} THEN Gone ELSE links[k]]
  BY <1>1 DEF SharesInv, TableStands
<1>3. \A k \in {l} : links[k] # Gone
  BY <1>1, GoneIsARow DEF S!LinksOf
<1> QED
  BY <1>1, <1>2, <1>3, EndKeeps

LEMMA DeletePageKeeps ==
    ASSUME SharesInv, NEW p \in Page, S!DeletePage(p)
    PROVE  SharesInv'
<1>1. S!LinksOf(p) \in SUBSET Link /\ \A l \in S!LinksOf(p) : links[l] # Gone
  BY GoneIsARow DEF S!LinksOf
<1> DEFINE Lost == S!LinksOf(p)
<1>2. /\ links' = [l \in Link |-> IF l \in Lost THEN Gone ELSE links[l]]
      /\ ended' = ended \cup Lost
      /\ there' \subseteq there /\ UNCHANGED <<key, known, clock, visit>>
  BY GoneIsARow DEF S!DeletePage
<1> HIDE DEF Lost
<1> QED
  BY <1>1, <1>2, EndKeeps DEF Lost

(* A step of the visit, o, leaves the table, and what the visit is to find. *)
LEMMA VisitGoes ==
    ASSUME SharesInv, NEW o \in VisitType, visit' = o,
           UNCHANGED <<links, there, key, known, clock, ended>>,
           o.from <= clock,
           o.stood => o.token \in known /\ Signed(o.token),
           Signed(o.token) /\ ~ o.stood => o.token.link \in ended,
           o.pc \in {"count", "load", "shown"} =>
               o.stood /\ o.from <= o.row.expires /\ (o.row.password => o.password),
           o.pc \in {"count", "load"} => RowHolds(o.token.link, o.row),
           o.pc = "refused" /\ o.stood => Shut(o.token.link, o.password)
    PROVE  SharesInv'
<1>1. TableStands'
  BY DEF SharesInv, TableStands
<1>2. VisitStands'
  BY DEF VisitStands, Signed, RowHolds, Shut
<1> QED
  BY <1>1, <1>2 DEF SharesInv

LEMMA VisitBegins ==
    ASSUME SharesInv, NEW t \in S!Presentable, NEW password \in BOOLEAN, S!Visit(t, password)
    PROVE  SharesInv'
<1> DEFINE o == [pc |-> "read", token |-> t, password |-> password, row |-> S!NoRow,
                 from |-> clock, stood |-> S!Stands(t)]
<1>1. visit' = o /\ UNCHANGED <<links, there, key, known, clock, ended>>
  BY DEF S!Visit
<1>2. TableStands
  BY DEF SharesInv
<1>3. t \in [link : Link, by : Key \cup {"unsigned"}]
  BY <1>2 DEF TableStands, S!Presentable, S!Unsigned
<1>4. S!Stands(t) \in BOOLEAN
  BY DEF S!Stands
<1>5. /\ o.pc = "read" /\ o.token = t /\ o.from = clock /\ o.stood = S!Stands(t)
      /\ o \in VisitType
  BY <1>2, <1>3, <1>4, GoneIsARow DEF VisitType, TableStands
<1>6. S!Stands(t) => t \in known /\ Signed(t)
  BY DEF S!Stands, Signed, S!Unsigned
<1>7. Signed(t) /\ ~ S!Stands(t) => t.link \in ended
  <2> SUFFICES ASSUME Signed(t), t \notin known PROVE FALSE
    BY DEF S!Stands, Signed, S!Unsigned
  <2>1. t.by = "unsigned"
    BY DEF S!Presentable, S!Unsigned
  <2>2. t.link \in Old /\ t = [link |-> t.link, by |-> "unsigned"]
    BY <1>2, <1>3, <2>1, LinkSizes DEF Signed, TableStands
  <2> QED
    BY <1>2, <2>2 DEF TableStands
<1> HIDE DEF o
<1>8. clock <= clock
  BY <1>2 DEF TableStands
<1> QED
  BY <1>1, <1>5, <1>6, <1>7, <1>8, VisitGoes

LEMMA ValidateKeeps ==
    ASSUME SharesInv, S!Validate
    PROVE  SharesInv'
<1> DEFINE l == visit.token.link
           good == S!NonceOf(visit.token) /\ S!Opens(links[l], visit.password)
           o == IF good THEN [visit EXCEPT !.pc = "count", !.row = links[l]]
                ELSE [visit EXCEPT !.pc = "refused"]
<1>1. visit.pc = "read" /\ visit' = o /\ UNCHANGED <<links, there, key, known, clock, ended>>
  BY DEF S!Validate
<1>2. VisitStands /\ TableStands /\ visit \in VisitType /\ l \in Link /\ links[l] \in LinkRow
  BY <1>1 DEF SharesInv, VisitStands, VisitType, TableStands
<1>3. /\ o \in VisitType /\ o.token = visit.token /\ o.from = visit.from /\ o.stood = visit.stood
      /\ o.password = visit.password
      /\ o.pc = IF good THEN "count" ELSE "refused"
      /\ good => o.row = links[l]
  BY <1>2 DEF VisitType
<1>4. S!NonceOf(visit.token) <=> Signed(visit.token)
  BY <1>2, LinkSizes DEF S!NonceOf, S!Unsigned, S!Prefixed, Signed, TableStands, VisitType
<1>5. /\ visit.from <= clock
      /\ visit.stood => visit.token \in known /\ Signed(visit.token)
      /\ Signed(visit.token) /\ ~ visit.stood => l \in ended
  BY <1>1, <1>2 DEF VisitStands
<1>6. ASSUME good
      PROVE  /\ visit.stood /\ visit.from <= links[l].expires
             /\ links[l].password => visit.password
  <2>1. links[l] # Gone /\ clock <= links[l].expires /\ (links[l].password => visit.password)
    BY <1>6, GoneIsARow DEF S!Opens
  <2>2. visit.stood
    BY <1>2, <1>4, <1>5, <1>6, <2>1 DEF TableStands
  <2>3. visit.from \in Nat /\ clock \in Nat /\ links[l].expires \in Nat
    BY <1>2 DEF VisitType, LinkRow, TableStands
  <2> QED
    BY <1>5, <2>1, <2>2, <2>3
<1>7. ASSUME ~ good, visit.stood PROVE Shut(l, visit.password)
  <2>1. ~ S!Opens(links[l], visit.password) /\ (links[l] = Gone => l \in ended)
    BY <1>2, <1>4, <1>5, <1>7 DEF TableStands
  <2>2. clock \in Nat /\ links[l].expires \in Nat /\ links[l].password \in BOOLEAN
    BY <1>2 DEF LinkRow, TableStands
  <2> QED
    BY <2>1, <2>2, GoneIsARow DEF S!Opens, Shut
<1> HIDE DEF o, good
<1>8. good => RowHolds(o.token.link, o.row)
  BY <1>3 DEF RowHolds
<1> QED
  BY <1>1, <1>3, <1>5, <1>6, <1>7, <1>8, VisitGoes

LEMMA CountKeeps ==
    ASSUME SharesInv, S!CountView
    PROVE  SharesInv'
<1> DEFINE l == visit.token.link
           o == [visit EXCEPT !.pc = "load"]
           more == [links EXCEPT ![l].views = @ + 1]
<1>1. /\ visit.pc = "count" /\ visit' = o /\ UNCHANGED <<there, key, known, clock, ended>>
      /\ links' = links \/ (links[l] # Gone /\ links' = more)
  BY GoneIsARow DEF S!CountView
<1>2. VisitStands /\ TableStands /\ visit \in VisitType /\ l \in Link /\ links[l] \in LinkRow
  BY <1>1 DEF SharesInv, VisitStands, VisitType, TableStands
<1>3. /\ o \in VisitType /\ o.token = visit.token /\ o.from = visit.from /\ o.stood = visit.stood
      /\ o.password = visit.password /\ o.pc = "load" /\ o.row = visit.row
  BY <1>2 DEF VisitType
<1> HIDE DEF o
<1>4. /\ links' \in [Link -> LinkRow]
      /\ \A k \in Link : /\ links'[k].page = links[k].page
                         /\ links'[k].expires = links[k].expires
                         /\ links'[k].password = links[k].password
                         /\ links'[k] = Gone => links[k] = Gone
                         /\ links[k] = Gone => links'[k] = Gone
  <2>1. CASE links' = links
    BY <1>2, <2>1 DEF TableStands
  <2>2. CASE links[l] # Gone /\ links' = more
    <3> DEFINE r == [links[l] EXCEPT !.views = @ + 1]
    <3>1. links' = [links EXCEPT ![l] = r]
      BY <1>2, <2>2 DEF TableStands
    <3>2. /\ r \in LinkRow /\ r.page = links[l].page /\ r.expires = links[l].expires
          /\ r.password = links[l].password /\ r.views = links[l].views + 1
          /\ links[l].views \in Nat
      BY <1>2 DEF LinkRow
    <3>3. r # Gone
      BY <3>2 DEF Gone
    <3> HIDE DEF r
    <3>4. links'[l] = r /\ \A k \in Link : k # l => links'[k] = links[k]
      BY <1>2, <3>1 DEF TableStands
    <3>5. links' \in [Link -> LinkRow]
      BY <1>2, <3>1, <3>2 DEF TableStands
    <3> QED
      BY <2>2, <3>2, <3>3, <3>4, <3>5
  <2> QED
    BY <1>1, <2>1, <2>2
<1>5. \A t \in known : t.link \in Link
  BY <1>2 DEF TableStands
<1>6. TableStands'
  BY <1>1, <1>2, <1>4, <1>5 DEF TableStands
<1>7. RowHolds(visit.token.link, visit.row)'
  BY <1>1, <1>2, <1>3, <1>4 DEF VisitStands, RowHolds
<1>8. VisitStands'
  <2>1. /\ visit' \in VisitType /\ visit'.pc = "load" /\ visit'.token = visit.token
        /\ visit'.from = visit.from /\ visit'.stood = visit.stood
        /\ visit'.password = visit.password /\ visit'.row = visit.row
    BY <1>1, <1>3
  <2>2. Signed(visit.token)' <=> Signed(visit.token)
    BY <1>1, <2>1 DEF Signed
  <2>3. /\ visit.from <= clock
        /\ visit.stood => visit.token \in known /\ Signed(visit.token)
        /\ Signed(visit.token) /\ ~ visit.stood => visit.token.link \in ended
        /\ visit.stood /\ visit.from <= visit.row.expires /\ (visit.row.password => visit.password)
    BY <1>1, <1>2 DEF VisitStands
  <2> QED
    BY <1>1, <1>7, <2>1, <2>2, <2>3 DEF VisitStands
<1> QED
  BY <1>6, <1>8 DEF SharesInv

LEMMA LoadKeeps ==
    ASSUME SharesInv, S!Load
    PROVE  SharesInv'
<1> DEFINE l == visit.token.link
           here == visit.row.page \in there
           o == [visit EXCEPT !.pc = IF here THEN "shown" ELSE "refused"]
<1>1. visit.pc = "load" /\ visit' = o /\ UNCHANGED <<links, there, key, known, clock, ended>>
  BY DEF S!Load
<1>2. VisitStands /\ visit \in VisitType
  BY <1>1 DEF SharesInv, VisitStands
<1>3. /\ o \in VisitType /\ o.token = visit.token /\ o.from = visit.from /\ o.stood = visit.stood
      /\ o.password = visit.password /\ o.pc = (IF here THEN "shown" ELSE "refused")
      /\ o.row = visit.row
  BY <1>2 DEF VisitType
<1>4. ~ here => Shut(l, visit.password)
  BY <1>1, <1>2 DEF VisitStands, RowHolds, Shut
<1> HIDE DEF o
<1>5. /\ visit.from <= clock
      /\ visit.stood => visit.token \in known /\ Signed(visit.token)
      /\ visit.stood /\ visit.from <= visit.row.expires /\ (visit.row.password => visit.password)
  BY <1>1, <1>2 DEF VisitStands
<1> QED
  BY <1>1, <1>3, <1>4, <1>5, VisitGoes

LEMMA VisitEnds ==
    ASSUME SharesInv, visit' = S!NoVisit, UNCHANGED <<links, there, known, clock, ended>>,
           key' \in Key \cup {"none"}
    PROVE  SharesInv'
BY DEF SharesInv, TableStands, VisitStands, S!NoVisit

LEMMA SharesStep == SharesInv /\ [Next]_vars => SharesInv'
<1> SUFFICES ASSUME SharesInv, [Next]_vars PROVE SharesInv'
  OBVIOUS
<1>1. CASE UNCHANGED S!shVars
  BY <1>1 DEF S!shVars, SharesInv, TableStands, VisitStands, Signed, RowHolds, Shut
<1>2. ASSUME NEW l \in Link, NEW p \in Page, NEW e \in 0..S!Never, NEW password \in BOOLEAN,
             S!Create(l, p, e, password)
      PROVE  SharesInv'
  BY <1>2, CreateKeeps
<1>3. ASSUME NEW p \in Page, S!List(p) PROVE SharesInv'
  BY <1>3, ListKeeps
<1>4. ASSUME NEW p \in Page, S!DeletePage(p) PROVE SharesInv'
  BY <1>4, DeletePageKeeps
<1>5. ASSUME NEW l \in Link, NEW p \in Page, S!Revoke(l, p) PROVE SharesInv'
  BY <1>5, RevokeKeeps
<1>6. ASSUME NEW k \in Key \cup {S!None}, S!Restart(k) PROVE SharesInv'
  BY <1>6, VisitEnds DEF S!Restart, S!None
<1>7. ASSUME NEW t \in S!Presentable, NEW password \in BOOLEAN, S!Visit(t, password)
      PROVE  SharesInv'
  BY <1>7, VisitBegins
<1>8. CASE S!Tick
  <2>1. /\ clock' = clock + 1 /\ clock \in Nat
        /\ UNCHANGED <<links, there, key, known, visit, ended>>
    BY <1>8 DEF S!Tick, SharesInv, TableStands
  <2>2. Moved /\ TableStands'
    BY <2>1 DEF Moved, SharesInv, TableStands
  <2> QED
    BY <2>1, <2>2, VisitWaits DEF SharesInv
<1>9. CASE S!Validate
  BY <1>9, ValidateKeeps
<1>10. CASE S!CountView
  BY <1>10, CountKeeps
<1>11. CASE S!Load
  BY <1>11, LoadKeeps
<1>12. CASE S!Leave
  BY <1>12, VisitEnds DEF S!Leave, SharesInv, TableStands
<1>13. CASE S!SharesNext
  BY <1>2, <1>3, <1>4, <1>5, <1>6, <1>7, <1>8, <1>9, <1>10, <1>11, <1>12, <1>13 DEF S!SharesNext
<1> QED
  BY PartSteps, <1>1, <1>13

LEMMA SharesShow == SharesInv => ShownWhileItStands
BY DEF SharesInv, VisitStands, Shut, ShownWhileItStands, S!ShownWhileItStands

(* Whoever is shown a page presented a token that stood when the visit began, and    *)
(* whoever presented one is shown the page unless it was taken away meanwhile         *)
(* (sharing/store.go nonceOf, Validate, Revoke; handler.go Public).                 *)
THEOREM ShownRightly == Spec => []ShownWhileItStands
<1>1. Init => SharesInv
  BY SharesStart DEF Init
<1>2. SharesInv /\ [Next]_vars => SharesInv'
  BY SharesStep
<1> QED
  BY <1>1, <1>2, SharesShow, PTL DEF Spec, vars

-----------------------------------------------------------------------------
(* Permissions.                                                             *)

LEMMA AccessSteps == [Next]_vars => AccessNext \/ UNCHANGED acVars
BY DEF Next, vars

LEMMA Ranks ==
    /\ Level = {"none", "view", "comment", "edit", "admin"}
    /\ Rank["none"] = 0 /\ Rank["view"] = 1 /\ Rank["comment"] = 2 /\ Rank["edit"] = 3
    /\ Rank["admin"] = 4
BY DEF Level, Rank

(* The levels are in one order, from none up to admin. *)
LEMMA LevelsOrdered ==
    /\ \A a \in Level : /\ Rank[a] \in 0..4 /\ AtLeast(a, a) /\ AtLeast(a, "none")
                        /\ AtLeast("admin", a)
                        /\ a # "none" => AtLeast(a, "view")
                        /\ AtLeast("none", a) => a = "none"
    /\ \A a, b \in Level : AtLeast(a, b) \/ AtLeast(b, a)
    /\ \A a, b, c \in Level : AtLeast(a, b) /\ AtLeast(b, c) => AtLeast(a, c)
<1> USE Ranks
<1>1. \A a \in Level : Rank[a] \in 0..4
  OBVIOUS
<1>2. \A a \in Level : a # "none" => Rank[a] >= 1
  OBVIOUS
<1> QED
  BY <1>1, <1>2 DEF AtLeast

LEMMA HigherOfTwo ==
    ASSUME NEW a \in Level, NEW b \in Level
    PROVE  /\ Higher(a, b) \in {a, b} /\ AtLeast(Higher(a, b), a) /\ AtLeast(Higher(a, b), b)
<1>1. AtLeast(a, a) /\ AtLeast(b, b) /\ (AtLeast(a, b) \/ AtLeast(b, a))
  BY LevelsOrdered
<1> QED
  BY <1>1 DEF Higher, AtLeast

(* Of some levels one is the highest. *)
LEMMA HighestIsThere ==
    ASSUME NEW V \in SUBSET Level, "none" \in V
    PROVE  \E l \in V : \A v \in V : AtLeast(l, v)
<1>1. \A a, b \in Level : AtLeast(a, b) <=> Rank[a] >= Rank[b]
  BY DEF AtLeast
<1>2. CASE "admin" \in V
  BY <1>2, LevelsOrdered
<1>3. CASE "admin" \notin V /\ "edit" \in V
  BY <1>1, <1>3, Ranks
<1>4. CASE "admin" \notin V /\ "edit" \notin V /\ "comment" \in V
  BY <1>1, <1>4, Ranks
<1>5. CASE "admin" \notin V /\ "edit" \notin V /\ "comment" \notin V
  BY <1>1, <1>5, Ranks
<1> QED
  BY <1>2, <1>3, <1>4, <1>5

Counted(who, teams) == {s \in Subject : s \in {who, "everyone"} \cup teams}

(* What resolveAccessForTeams answers. *)
LEMMA ResolveIs ==
    ASSUME ask.creator \in BOOLEAN, ask.private \in BOOLEAN, NEW teams,
           ask.read \in [Subject -> Level],
           NEW Counts, Counts = Counted(ask.who, teams),
           NEW answer, answer = Resolve(ask.who, ask.creator, ask.read, teams, ask.private)
    PROVE  /\ answer \in Level
           /\ ask.creator => \A l \in Level : AtLeast(answer, l)
           /\ \A s \in Counts : AtLeast(answer, ask.read[s])
           /\ ~ ask.private => AtLeast(answer, "view")
           /\ \A l \in Level : l # "none" /\ AtLeast(answer, l) =>
                 \/ ask.creator \/ (AtLeast("view", l) /\ ~ ask.private)
                 \/ \E s \in Counts : AtLeast(ask.read[s], l)
<1> DEFINE V == {"none"} \cup {ask.read[s] : s \in Counts}
           Best(l) == /\ l = "none" \/ \E s \in Subject :
                             s \in {ask.who, "everyone"} \cup teams /\ ask.read[s] = l
                      /\ \A s \in Subject :
                             s \in {ask.who, "everyone"} \cup teams => AtLeast(l, ask.read[s])
           best == CHOOSE l \in Level : Best(l)
<1> USE DEF Counted
<1>1. answer = IF ask.creator THEN "admin" ELSE IF best # "none" THEN best
               ELSE IF ask.private THEN "none" ELSE "view"
  BY DEF Resolve
<1>2. V \in SUBSET Level /\ "none" \in V
  BY Ranks
<1>3. PICK l \in V : \A v \in V : AtLeast(l, v)
  BY <1>2, HighestIsThere
<1>4. l \in Level /\ Best(l)
  BY <1>2, <1>3
<1>5. best \in Level /\ Best(best)
  <2> HIDE DEF Best
  <2> QED
    BY <1>4
<1> HIDE DEF best
<1>6. \A s \in Counts : ask.read[s] \in Level /\ AtLeast(best, ask.read[s])
  BY <1>5
<1>7. best = "none" \/ \E s \in Counts : ask.read[s] = best
  BY <1>5
<1> HIDE DEF Best
<1>8. answer \in Level
  BY <1>1, <1>5, Ranks
<1>9. ASSUME NEW s \in Counts PROVE AtLeast(answer, ask.read[s])
  <2>1. AtLeast("admin", ask.read[s]) /\ AtLeast(best, ask.read[s])
    BY <1>6, LevelsOrdered
  <2>2. best = "none" => ask.read[s] = "none" /\ AtLeast("view", ask.read[s]) /\ AtLeast("none", ask.read[s])
    BY <1>6, <2>1, LevelsOrdered, Ranks
  <2> QED
    BY <1>1, <2>1, <2>2
<1>10. ~ ask.private => AtLeast(answer, "view")
  <2>1. AtLeast("admin", "view") /\ AtLeast("view", "view")
    BY LevelsOrdered, Ranks
  <2>2. best # "none" => AtLeast(best, "view")
    BY <1>5, LevelsOrdered
  <2> QED
    BY <1>1, <2>1, <2>2
<1>11. ask.creator => \A k \in Level : AtLeast(answer, k)
  BY <1>1, LevelsOrdered
<1>12. ASSUME NEW k \in Level, k # "none", AtLeast(answer, k), ~ ask.creator
       PROVE  \/ AtLeast("view", k) /\ ~ ask.private
              \/ \E s \in Counts : AtLeast(ask.read[s], k)
  <2>1. answer # "none"
    BY <1>12, LevelsOrdered
  <2>2. CASE answer = best /\ best # "none"
    BY <1>7, <1>12, <2>2
  <2>3. CASE answer = "view" /\ ~ ask.private
    BY <1>12, <2>3
  <2> QED
    BY <1>1, <1>12, <2>1, <2>2, <2>3
<1> QED
  BY <1>8, <1>9, <1>10, <1>11, <1>12

(* Every door asks for the level the operation's route takes. *)
LEMMA DoorsAgree ==
    ASSUME NEW door \in DOMAIN Behind, NEW op \in Behind[door]
    PROVE  /\ DoorNeeds(door, op) = RouteNeeds[op]
           /\ RouteNeeds[op] \in {"view", "comment", "edit", "admin"}
<1>1. CASE door = "rest"
  <2>1. op \in DOMAIN RouteNeeds
    BY <1>1 DEF Behind
  <2> QED
    BY <1>1, <2>1 DEF DoorNeeds, RouteNeeds
<1>2. CASE door = "mcp"
  <2>1. op \in WriteTools \cup GatedReadTools \cup FilteredTools
    BY <1>2 DEF Behind
  <2>2. DoorNeeds(door, op) = ToolNeeds(op)
    BY <1>2 DEF DoorNeeds
  <2> QED
    BY <2>1, <2>2 DEF ToolNeeds, WriteTools, GatedReadTools, FilteredTools, RouteNeeds
<1>3. CASE door = "check"
  <2>1. op \in CheckedWrites \cup CheckedReads
    BY <1>3 DEF Behind
  <2>2. DoorNeeds(door, op) = IF op \in CheckedWrites THEN "edit" ELSE "view"
    BY <1>3 DEF DoorNeeds
  <2> QED
    BY <2>1, <2>2 DEF CheckedWrites, CheckedReads, RouteNeeds
<1>4. door \in {"rest", "mcp", "check"}
  BY DEF Behind
<1> QED
  BY <1>1, <1>2, <1>3, <1>4

TablesTyped ==
    /\ past \in Seq(World) /\ Len(past) \in Nat \ {0}
    /\ \A i \in 1..Len(past) : past[i] \in World /\ past[i].creator = past[1].creator

AskType == [pc : {"none", "meta", "spaceGrants", "grants", "decide", "done"},
            who : Member \cup {""}, on : On, need : Level, due : Level, in : BOOLEAN,
            creator : BOOLEAN, private : BOOLEAN,
            read : [Subject -> Level], spoiled : BOOLEAN,
            from : Nat, till : Nat, ok : BOOLEAN]

So(a) == a.from..Len(past)

(* The levels a request has read were each granted at some moment since it began, on  *)
(* what it asks for or on the space of it.                                          *)
Told(a) == \A s \in Subject : a.read[s] # "none" =>
               \E i \in So(a), y \in On : /\ a.on = "space" => y = "space"
                                          /\ past[i].grants[<<y, s>>] = a.read[s]

(* And none of those it has asked for is below what was granted all along. *)
HasRead(a, y) == a.spoiled \/ \A s \in Subject : \E i \in So(a) :
                                   AtLeast(a.read[s], past[i].grants[<<y, s>>])

(* DecidedByRule, of the request a. *)
Decided(a) ==
    LET W == a.from..a.till IN
    /\ a.ok => /\ a.who \in past[a.from].members
               /\ \E i, j \in W : i <= j /\ Grounds(past[i], past[j].roster, a.who, a.on, a.due) # {}
    /\ \/ a.ok \/ a.spoiled \/ a.who \notin past[a.from].members
       \/ \E i \in W : a.on \notin past[i].there
       \/ \A x \in (On \X Subject) \cup {Open, Own} :
              \E i \in W : x \notin Grounds(past[i], past[i].roster, a.who, a.on, a.due)

Begun(a) == /\ a.who \in Member /\ a.from \in 1..Len(past)
            /\ a.due \in {"view", "comment", "edit", "admin"} /\ a.need = a.due
            /\ a.in <=> a.who \in past[a.from].members

Found(a) == /\ a.in
            /\ a.creator <=> a.who = past[1].creator
            /\ \E i \in So(a) : past[i].private = a.private
            /\ Told(a)

Reading == {"spaceGrants", "grants", "decide"}

AskStands(a) ==
    /\ a \in AskType
    /\ a.pc # "none" => Begun(a)
    /\ a.pc # "done" => ~ a.ok
    /\ a.pc \in {"meta", "spaceGrants"} => a.read = NoGrants
    /\ a.pc = "spaceGrants" => a.on = "page"
    /\ a.pc \in Reading => Found(a)
    /\ a.pc \in {"grants", "decide"} /\ a.on = "page" => HasRead(a, "space")
    /\ a.pc = "decide" => HasRead(a, a.on)
    /\ a.pc = "done" => Decided(a)

AccessInv == TablesTyped /\ AskStands(ask)

LEMMA SubjectOfLevels == NoGrants \in [Subject -> Level] /\ \A s \in Subject : NoGrants[s] = "none"
BY Ranks DEF NoGrants

LEMMA FirstWorldIsAWorld ==
    ASSUME NEW creator \in Member \cup {Stranger}, NEW private \in BOOLEAN,
           NEW r \in [Team -> SUBSET Member], NEW x, NEW l \in Level
    PROVE  FirstWorld(creator, private, r, x, l) \in World
<1>1. [y \in On \X Subject |-> IF y = x THEN l ELSE "none"] \in [On \X Subject -> Level]
  BY Ranks
<1> QED
  BY <1>1 DEF FirstWorld, World

LEMMA OneWorld ==
    ASSUME NEW w \in World, past = <<w>>, ask = NoAsk
    PROVE  AccessInv
<1>1. TablesTyped
  BY DEF TablesTyped
<1>2. NoAsk \in AskType /\ NoAsk.pc = "none" /\ ~ NoAsk.ok
  BY SubjectOfLevels, Ranks DEF NoAsk, AskType, On
<1> QED
  BY <1>1, <1>2 DEF AccessInv, AskStands, Reading

LEMMA AccessStart == Init => AccessInv
<1> SUFFICES ASSUME Init PROVE AccessInv
  OBVIOUS
<1>1. CASE focus = "access"
  <2>1. AccessInit
    BY <1>1 DEF Init
  <2>2. PICK creator \in Member \cup {Stranger}, private \in BOOLEAN, r \in [Team -> SUBSET Member],
             x \in On \X Subject, l \in GrantLevels \cup {"none"} :
             past = <<FirstWorld(creator, private, r, x, l)>>
    BY <2>1 DEF AccessInit
  <2>3. l \in Level
    BY AccessAssumption, Ranks
  <2>4. FirstWorld(creator, private, r, x, l) \in World
    BY <2>3, FirstWorldIsAWorld
  <2> QED
    BY <2>1, <2>2, <2>4, OneWorld DEF AccessInit
<1>2. CASE focus # "access"
  <2> DEFINE w == FirstWorld(Stranger, FALSE, [t \in Team |-> {}], <<"page", "everyone">>, "none")
  <2>1. past = <<w>> /\ ask = NoAsk
    BY <1>2 DEF Init
  <2>2. [t \in Team |-> {}] \in [Team -> SUBSET Member]
    OBVIOUS
  <2>3. w \in World
    BY <2>2, FirstWorldIsAWorld, Ranks
  <2> HIDE DEF w
  <2> QED
    BY <2>1, <2>3, OneWorld
<1> QED
  BY <1>1, <1>2

LEMMA NowIs == TablesTyped => Now = past[Len(past)] /\ Now \in World /\ Now.creator = past[1].creator
BY DEF TablesTyped, Now, Last

(* Whatever another request does to the tables, what was granted when stays so. *)
LEMMA ChangeKeeps ==
    ASSUME AccessInv, NEW w \in World, w.creator = Now.creator, Change(w)
    PROVE  AccessInv'
<1>1. /\ past' = Append(past, w) /\ ask' = ask
      /\ ask.pc # "none" /\ ask.pc # "done"
  BY DEF Change
<1>2. TablesTyped /\ AskStands(ask)
  BY DEF AccessInv
<1>3. /\ Len(past') = Len(past) + 1 /\ Len(past) \in Nat /\ past' \in Seq(World)
      /\ past'[Len(past) + 1] = w
      /\ \A i \in 1..Len(past) : past'[i] = past[i]
  BY <1>1, <1>2 DEF TablesTyped
<1>4. TablesTyped'
  <2>1. w.creator = past[1].creator
    BY <1>2, NowIs
  <2>2. past'[1] = past[1]
    BY <1>2, <1>3 DEF TablesTyped
  <2>3. ASSUME NEW i \in 1..Len(past') PROVE past'[i] \in World /\ past'[i].creator = past'[1].creator
    <3>1. i = Len(past) + 1 \/ i \in 1..Len(past)
      BY <1>3
    <3> QED
      BY <1>2, <1>3, <2>1, <2>2, <3>1 DEF TablesTyped
  <2> QED
    BY <1>3, <2>3 DEF TablesTyped
<1>5. ask \in AskType /\ Begun(ask)
  BY <1>1, <1>2 DEF AskStands
<1>6. past'[1] = past[1] /\ past'[ask.from] = past[ask.from]
  BY <1>2, <1>3, <1>5 DEF TablesTyped, Begun
<1>7. So(ask) \subseteq So(ask)' /\ \A i \in So(ask) : past'[i] = past[i]
  <2>1. ask.from \in Nat /\ 1 <= ask.from
    BY <1>3, <1>5 DEF Begun
  <2> QED
    BY <1>1, <1>3, <2>1 DEF So
<1>8. Begun(ask)'
  <2>1. ask.from \in 1..Len(past')
    BY <1>3, <1>5 DEF Begun
  <2> QED
    BY <1>1, <1>5, <1>6, <2>1 DEF Begun
<1>9. Found(ask) => Found(ask)'
  <2> SUFFICES ASSUME Found(ask) PROVE Found(ask)'
    OBVIOUS
  <2>1. (\E i \in So(ask) : past[i].private = ask.private)'
    BY <1>1, <1>7 DEF Found
  <2>2. Told(ask)'
    <3> SUFFICES ASSUME NEW s \in Subject, ask.read[s] # "none"
                 PROVE  (\E i \in So(ask), y \in On : /\ ask.on = "space" => y = "space"
                                                      /\ past[i].grants[<<y, s>>] = ask.read[s])'
      BY <1>1 DEF Told
    <3>1. PICK i \in So(ask), y \in On : /\ ask.on = "space" => y = "space"
                                         /\ past[i].grants[<<y, s>>] = ask.read[s]
      BY DEF Found, Told
    <3>2. i \in So(ask)' /\ past'[i].grants[<<y, s>>] = ask.read[s]
      BY <1>7, <3>1
    <3> QED
      BY <1>1, <3>1, <3>2
  <2> QED
    BY <1>1, <1>6, <2>1, <2>2 DEF Found
<1>10. \A y : HasRead(ask, y) => HasRead(ask, y)'
  BY <1>1, <1>7 DEF HasRead
<1>11. AskStands(ask)'
  BY <1>1, <1>2, <1>8, <1>9, <1>10 DEF AskStands
<1> QED
  BY <1>4, <1>11 DEF AccessInv

LEMMA ChangesAreWorlds ==
    ASSUME AccessInv
    PROVE  /\ \A on \in On, s \in Subject, l \in Level :
                  LET w == [Now EXCEPT !.grants[<<on, s>>] = l]
                  IN w \in World /\ w.creator = Now.creator
           /\ \A private \in BOOLEAN : LET w == [Now EXCEPT !.private = private]
                                       IN w \in World /\ w.creator = Now.creator
           /\ \A left \in SUBSET On : LET w == [Now EXCEPT !.there = left]
                                       IN w \in World /\ w.creator = Now.creator
           /\ \A t \in Team, Q \in SUBSET Member : LET w == [Now EXCEPT !.roster[t] = Q]
                                                   IN w \in World /\ w.creator = Now.creator
           /\ \A Q \in SUBSET Member : LET w == [Now EXCEPT !.members = Q]
                                       IN w \in World /\ w.creator = Now.creator
<1>1. Now \in World
  BY NowIs DEF AccessInv
<1> HIDE DEF Now
<1>2. ASSUME NEW on \in On, NEW s \in Subject, NEW l \in Level
      PROVE  LET w == [Now EXCEPT !.grants[<<on, s>>] = l]
             IN w \in World /\ w.creator = Now.creator
  <2>1. [Now.grants EXCEPT ![<<on, s>>] = l] \in [On \X Subject -> Level]
    BY <1>1 DEF World
  <2> QED
    BY <1>1, <2>1 DEF World
<1>3. ASSUME NEW t \in Team, NEW Q \in SUBSET Member
      PROVE  LET w == [Now EXCEPT !.roster[t] = Q] IN w \in World /\ w.creator = Now.creator
  <2>1. [Now.roster EXCEPT ![t] = Q] \in [Team -> SUBSET Member]
    BY <1>1 DEF World
  <2> QED
    BY <1>1, <2>1 DEF World
<1> QED
  BY <1>1, <1>2, <1>3 DEF World

LEMMA OthersKeep ==
    ASSUME AccessInv
    PROVE  /\ \A on \in On, s \in Subject : RevokeByID(on, s) => AccessInv'
           /\ \A on \in On, s \in Subject, l \in GrantLevels : Grant(on, s, l) => AccessInv'
           /\ \A private \in BOOLEAN : UpdateSpace(private) => AccessInv'
           /\ DeleteSpace \/ DeletePage => AccessInv'
           /\ \A t \in Team, m \in Member : AddMember(t, m) \/ RemoveMember(t, m) => AccessInv'
           /\ \A Q \in SUBSET Member : Reconcile(Q) => AccessInv'
<1>1. Now \in World
  BY NowIs DEF AccessInv
<1>2. ASSUME NEW on \in On, NEW s \in Subject, NEW l \in Level,
             Change([Now EXCEPT !.grants[<<on, s>>] = l])
      PROVE  AccessInv'
  BY <1>2, ChangesAreWorlds, ChangeKeeps
<1>3. \A on \in On, s \in Subject : RevokeByID(on, s) => AccessInv'
  BY <1>2, Ranks DEF RevokeByID
<1>4. \A on \in On, s \in Subject, l \in GrantLevels : Grant(on, s, l) => AccessInv'
  BY <1>2, AccessAssumption, Ranks DEF Grant
<1>5. \A private \in BOOLEAN : UpdateSpace(private) => AccessInv'
  BY ChangesAreWorlds, ChangeKeeps DEF UpdateSpace
<1>6. ASSUME NEW Q \in SUBSET On, Change([Now EXCEPT !.there = Q]) PROVE AccessInv'
  BY <1>6, ChangesAreWorlds, ChangeKeeps
<1>7. DeleteSpace \/ DeletePage => AccessInv'
  <2>1. {} \in SUBSET On /\ Now.there \ {"page"} \in SUBSET On
    BY <1>1 DEF World
  <2> QED
    BY <1>6, <2>1 DEF DeleteSpace, DeletePage
<1>8. ASSUME NEW t \in Team, NEW Q \in SUBSET Member, Change([Now EXCEPT !.roster[t] = Q])
      PROVE  AccessInv'
  BY <1>8, ChangesAreWorlds, ChangeKeeps
<1>9. \A t \in Team, m \in Member : AddMember(t, m) \/ RemoveMember(t, m) => AccessInv'
  <2> SUFFICES ASSUME NEW t \in Team, NEW m \in Member, AddMember(t, m) \/ RemoveMember(t, m)
               PROVE  AccessInv'
    OBVIOUS
  <2>1. Now.roster[t] \cup {m} \in SUBSET Member /\ Now.roster[t] \ {m} \in SUBSET Member
    BY <1>1 DEF World
  <2> QED
    BY <1>8, <2>1 DEF AddMember, RemoveMember
<1>10. \A Q \in SUBSET Member : Reconcile(Q) => AccessInv'
  BY ChangesAreWorlds, ChangeKeeps DEF Reconcile
<1> QED
  BY <1>3, <1>4, <1>5, <1>7, <1>9, <1>10

LEMMA AskGoes ==
    ASSUME AccessInv, NEW o, AskStands(o), ask' = o, past' = past
    PROVE  AccessInv'
<1>1. Begun(ask)' <=> Begun(o)
  BY DEF Begun
<1>2. So(ask)' = So(o)
  BY DEF So
<1>3. Told(ask)' <=> Told(o)
  BY <1>2 DEF Told
<1>4. Found(ask)' <=> Found(o)
  BY <1>2, <1>3 DEF Found
<1>5. \A y : HasRead(ask, y)' <=> HasRead(o, y)
  BY <1>2 DEF HasRead
<1>6. Decided(ask)' <=> Decided(o)
  BY DEF Decided
<1>7. AskStands(ask)'
  BY <1>1, <1>3, <1>4, <1>5, <1>6 DEF AskStands
<1> QED
  BY <1>7 DEF AccessInv, TablesTyped

LEMMA MiddlewareKeeps ==
    ASSUME AccessInv, NEW m \in Member, NEW door \in DOMAIN Behind, NEW op \in Behind[door],
           Middleware(m, op, door)
    PROVE  AccessInv'
<1> DEFINE on == IF op \in OnSpace THEN "space" ELSE "page"
           o == [NoAsk EXCEPT !.pc = "meta", !.who = m, !.in = m \in Now.members, !.on = on,
                              !.need = DoorNeeds(door, op), !.due = RouteNeeds[op],
                              !.from = Len(past)]
<1>1. ask' = o /\ past' = past
  BY DEF Middleware, Stays
<1>2. TablesTyped /\ Now = past[Len(past)]
  BY NowIs DEF AccessInv
<1>3. DoorNeeds(door, op) = RouteNeeds[op] /\ RouteNeeds[op] \in {"view", "comment", "edit", "admin"}
  BY DoorsAgree
<1>4. on \in On /\ (m \in Now.members) \in BOOLEAN /\ Len(past) \in Nat
  BY <1>2 DEF On, TablesTyped
<1> HIDE DEF on
<1>5. /\ o.pc = "meta" /\ o.who = m /\ (o.in <=> m \in Now.members) /\ o.need = DoorNeeds(door, op)
      /\ o.due = RouteNeeds[op] /\ o.from = Len(past) /\ o.read = NoGrants /\ o.ok = FALSE
  BY DEF NoAsk
<1>6. o \in AskType
  BY <1>3, <1>4, SubjectOfLevels, Ranks DEF NoAsk, AskType
<1> HIDE DEF o
<1>7. Begun(o)
  BY <1>2, <1>3, <1>5 DEF Begun, TablesTyped
<1>8. AskStands(o)
  BY <1>5, <1>6, <1>7 DEF AskStands, Reading
<1> QED
  BY <1>1, <1>8, AskGoes

(* A request that is over without a grant: nothing was decided wrongly when it was not *)
(* a member's, when what it asked for had gone, or when a read failed.               *)
LEMMA Refused ==
    ASSUME AccessInv, ask.pc \notin {"none", "done"}, NEW spoiled \in BOOLEAN,
           \/ spoiled \/ ask.who \notin past[ask.from].members \/ ask.on \notin Now.there,
           ask' = [ask EXCEPT !.pc = "done", !.ok = FALSE, !.spoiled = spoiled, !.till = Len(past)],
           past' = past
    PROVE  AccessInv'
<1> DEFINE o == [ask EXCEPT !.pc = "done", !.ok = FALSE, !.spoiled = spoiled, !.till = Len(past)]
<1>1. TablesTyped /\ Now = past[Len(past)] /\ ask \in AskType /\ Begun(ask)
  BY NowIs DEF AccessInv, AskStands
<1>2. /\ o.pc = "done" /\ o.ok = FALSE /\ o.spoiled = spoiled /\ o.till = Len(past)
      /\ o.who = ask.who /\ o.from = ask.from /\ o.on = ask.on /\ o.due = ask.due
      /\ o.need = ask.need /\ o.in = ask.in
  BY <1>1 DEF AskType
<1>3. o \in AskType
  BY <1>1 DEF AskType, TablesTyped
<1> HIDE DEF o
<1>4. Begun(o)
  BY <1>1, <1>2 DEF Begun
<1>5. Len(past) \in ask.from..Len(past)
  BY <1>1 DEF Begun, TablesTyped
<1>6. Decided(o)
  BY <1>1, <1>2, <1>5 DEF Decided
<1>7. AskStands(o)
  BY <1>2, <1>3, <1>4, <1>6 DEF AskStands, Reading
<1> QED
  BY <1>7, AskGoes DEF o

LEMMA ReadMetaKeeps ==
    ASSUME AccessInv, ReadMeta
    PROVE  AccessInv'
<1>1. /\ ask.pc = "meta" /\ past' = past /\ ask \in AskType /\ Begun(ask) /\ ~ ask.ok
      /\ ask.read = NoGrants
  BY DEF ReadMeta, Stays, AccessInv, AskStands
<1>2. TablesTyped /\ Now = past[Len(past)] /\ Now \in World /\ Now.creator = past[1].creator
  BY NowIs DEF AccessInv
<1>3. CASE ~ (ask.in /\ ask.on \in Now.there)
  <2>1. ask' = [ask EXCEPT !.pc = "done", !.ok = FALSE, !.till = Len(past)]
    BY <1>3 DEF ReadMeta, Finish
  <2>2. ask.spoiled \in BOOLEAN
    BY <1>1 DEF AskType
  <2>3. ask' = [ask EXCEPT !.pc = "done", !.ok = FALSE, !.spoiled = ask.spoiled, !.till = Len(past)]
    BY <1>1, <2>1 DEF AskType
  <2>4. ask.who \notin past[ask.from].members \/ ask.on \notin Now.there
    BY <1>1, <1>3 DEF Begun
  <2> QED
    BY <1>1, <2>2, <2>3, <2>4, Refused
<1>4. CASE ask.in /\ ask.on \in Now.there
  <2> DEFINE private == Now.private
             creator == ask.who = Now.creator
             pc == IF ask.on = "page" THEN "spaceGrants" ELSE "grants"
             o == [ask EXCEPT !.pc = pc, !.private = private, !.creator = creator]
  <2>1. ask' = o
    BY <1>4 DEF ReadMeta
  <2>2. private \in BOOLEAN /\ creator \in BOOLEAN
    BY <1>2 DEF World
  <2>3. private = past[Len(past)].private /\ (creator <=> ask.who = past[1].creator)
    BY <1>2
  <2>4. Len(past) \in So(ask)
    BY <1>1, <1>2 DEF So, Begun, TablesTyped
  <2> HIDE DEF private, creator
  <2>5. /\ o \in AskType /\ o.pc = pc /\ o.private = private /\ o.creator = creator
        /\ o.who = ask.who /\ o.from = ask.from /\ o.on = ask.on /\ o.due = ask.due
        /\ o.need = ask.need /\ o.in = ask.in /\ o.read = NoGrants /\ o.ok = ask.ok
    BY <1>1, <2>2 DEF AskType
  <2> HIDE DEF o
  <2>6. Begun(o) /\ So(o) = So(ask)
    BY <1>1, <2>5 DEF Begun, So
  <2>7. Found(o)
    BY <1>4, <2>3, <2>4, <2>5, <2>6, SubjectOfLevels DEF Found, Told
  <2>8. AskStands(o)
    BY <1>1, <2>5, <2>6, <2>7 DEF AskStands, Reading
  <2> QED
    BY <1>1, <2>1, <2>8, AskGoes
<1> QED
  BY <1>3, <1>4

LEMMA RowsAreLevels ==
    ASSUME TablesTyped, NEW y \in On
    PROVE  /\ Rows(y) \in [Subject -> Level]
           /\ \A s \in Subject : Rows(y)[s] = past[Len(past)].grants[<<y, s>>]
<1>1. Now = past[Len(past)] /\ Now \in World
  BY NowIs
<1>2. \A s \in Subject : <<y, s>> \in On \X Subject
  OBVIOUS
<1>3. \A s \in Subject : Now.grants[<<y, s>>] \in Level
  BY <1>1, <1>2 DEF World
<1> QED
  BY <1>1, <1>3 DEF Rows

LEMMA ReadSpaceGrantsKeeps ==
    ASSUME AccessInv, ReadSpaceGrants
    PROVE  AccessInv'
<1>1. /\ ask.pc = "spaceGrants" /\ past' = past /\ ask \in AskType /\ Begun(ask) /\ ~ ask.ok
      /\ ask.read = NoGrants /\ ask.on = "page" /\ Found(ask)
  BY DEF ReadSpaceGrants, Stays, Trouble, AccessInv, AskStands, Reading
<1>2. TablesTyped
  BY DEF AccessInv
<1>3. "space" \in On /\ Len(past) \in So(ask)
  BY <1>1, <1>2 DEF On, So, Begun, TablesTyped
<1>4. CASE ask' = [ask EXCEPT !.pc = "grants", !.read = Rows("space")]
  <2> DEFINE o == [ask EXCEPT !.pc = "grants", !.read = Rows("space")]
  <2>1. /\ o \in AskType /\ o.pc = "grants" /\ o.private = ask.private /\ o.creator = ask.creator
        /\ o.who = ask.who /\ o.from = ask.from /\ o.on = ask.on /\ o.due = ask.due
        /\ o.need = ask.need /\ o.in = ask.in /\ o.read = Rows("space") /\ o.ok = ask.ok
    BY <1>1, <1>2, <1>3, RowsAreLevels DEF AskType
  <2> HIDE DEF o
  <2>2. Begun(o) /\ So(o) = So(ask)
    BY <1>1, <2>1 DEF Begun, So
  <2>3. \A s \in Subject : /\ o.read[s] = past[Len(past)].grants[<<"space", s>>]
                           /\ o.read[s] \in Level
    BY <1>2, <1>3, <2>1, RowsAreLevels
  <2>4. Told(o)
    BY <1>3, <2>2, <2>3 DEF Told
  <2>5. HasRead(o, "space")
    <3>1. \A s \in Subject : AtLeast(o.read[s], past[Len(past)].grants[<<"space", s>>])
      BY <2>3, LevelsOrdered
    <3> QED
      BY <1>3, <2>2, <3>1 DEF HasRead
  <2>6. Found(o)
    BY <1>1, <2>1, <2>2, <2>4 DEF Found
  <2>7. AskStands(o)
    BY <1>1, <2>1, <2>2, <2>5, <2>6 DEF AskStands, Reading
  <2> QED
    BY <1>1, <1>4, <2>7, AskGoes DEF o
<1>5. CASE ask' = [ask EXCEPT !.pc = "grants", !.spoiled = TRUE]
  <2> DEFINE o == [ask EXCEPT !.pc = "grants", !.spoiled = TRUE]
  <2>1. /\ o \in AskType /\ o.pc = "grants" /\ o.private = ask.private /\ o.creator = ask.creator
        /\ o.who = ask.who /\ o.from = ask.from /\ o.on = ask.on /\ o.due = ask.due
        /\ o.need = ask.need /\ o.in = ask.in /\ o.read = ask.read /\ o.ok = ask.ok /\ o.spoiled
    BY <1>1 DEF AskType
  <2> HIDE DEF o
  <2>2. Begun(o) /\ So(o) = So(ask)
    BY <1>1, <2>1 DEF Begun, So
  <2>3. Found(o) /\ HasRead(o, "space")
    BY <1>1, <2>1, <2>2 DEF Found, Told, HasRead
  <2>4. AskStands(o)
    BY <1>1, <2>1, <2>2, <2>3 DEF AskStands, Reading
  <2> QED
    BY <1>1, <1>5, <2>4, AskGoes DEF o
<1> QED
  BY <1>4, <1>5 DEF ReadSpaceGrants

LEMMA ReadGrantsKeeps ==
    ASSUME AccessInv, ReadGrants
    PROVE  AccessInv'
<1>1. /\ ask.pc = "grants" /\ past' = past /\ ask \in AskType /\ Begun(ask) /\ ~ ask.ok
      /\ ask.on = "page" => HasRead(ask, "space")
      /\ Found(ask)
  BY DEF ReadGrants, Stays, Trouble, AccessInv, AskStands, Reading
<1>2. TablesTyped
  BY DEF AccessInv
<1>3. ask.on \in On /\ Len(past) \in So(ask) /\ ask.read \in [Subject -> Level]
  <2>1. ask.on \in On /\ ask.read \in [Subject -> Level]
    BY <1>1 DEF AskType
  <2> QED
    BY <1>1, <1>2, <2>1 DEF So, Begun, TablesTyped
<1>4. CASE ask' = [ask EXCEPT !.pc = "decide", !.read = AllGrants(ask.read, Rows(ask.on))]
  <2> DEFINE both == AllGrants(ask.read, Rows(ask.on))
             o == [ask EXCEPT !.pc = "decide", !.read = both]
  <2>0. ask' = o
    BY <1>4
  <2>1. ASSUME NEW s \in Subject
        PROVE  LET given == past[Len(past)].grants[<<ask.on, s>>]
               IN /\ ask.read[s] \in Level /\ given \in Level /\ both[s] \in {ask.read[s], given}
                  /\ AtLeast(both[s], ask.read[s]) /\ AtLeast(both[s], given)
    BY <1>2, <1>3, RowsAreLevels, HigherOfTwo DEF AllGrants, Merged
  <2>2. both \in [Subject -> Level]
    BY <2>1 DEF AllGrants, Merged
  <2> HIDE DEF both
  <2>3. /\ o \in AskType /\ o.pc = "decide" /\ o.private = ask.private /\ o.creator = ask.creator
        /\ o.who = ask.who /\ o.from = ask.from /\ o.on = ask.on /\ o.due = ask.due
        /\ o.need = ask.need /\ o.in = ask.in /\ o.read = both /\ o.ok = ask.ok
        /\ o.spoiled = ask.spoiled
    BY <1>1, <2>2 DEF AskType
  <2> HIDE DEF o
  <2>4. Begun(o) /\ So(o) = So(ask)
    BY <1>1, <2>3 DEF Begun, So
  <2>5. Told(o)
    <3> SUFFICES ASSUME NEW s \in Subject, both[s] # "none"
                 PROVE  \E i \in So(ask), y \in On : /\ ask.on = "space" => y = "space"
                                                     /\ past[i].grants[<<y, s>>] = both[s]
      BY <2>3, <2>4 DEF Told
    <3>1. CASE both[s] = ask.read[s]
      BY <1>1, <3>1 DEF Found, Told
    <3>2. CASE both[s] = past[Len(past)].grants[<<ask.on, s>>]
      BY <1>3, <3>2
    <3> QED
      BY <2>1, <3>1, <3>2
  <2>6. HasRead(o, ask.on)
    BY <1>3, <2>1, <2>3, <2>4 DEF HasRead
  <2>7. ask.on = "page" => HasRead(o, "space")
    <3> SUFFICES ASSUME ask.on = "page", ~ ask.spoiled, NEW s \in Subject
                 PROVE  \E i \in So(ask) : AtLeast(both[s], past[i].grants[<<"space", s>>])
      BY <2>3, <2>4 DEF HasRead
    <3>1. PICK i \in So(ask) : AtLeast(ask.read[s], past[i].grants[<<"space", s>>])
      BY <1>1 DEF HasRead
    <3>2. i \in 1..Len(past)
      BY <1>1, <1>2, <3>1 DEF So, Begun, TablesTyped
    <3>3. past[i].grants[<<"space", s>>] \in Level
      BY <1>2, <3>2 DEF TablesTyped, World, On
    <3>4. AtLeast(both[s], ask.read[s]) /\ both[s] \in Level /\ ask.read[s] \in Level
      BY <2>1, <2>2
    <3> QED
      BY <3>1, <3>3, <3>4, LevelsOrdered
  <2>8. Found(o)
    BY <1>1, <2>3, <2>4, <2>5 DEF Found
  <2>9. AskStands(o)
    BY <1>1, <2>3, <2>4, <2>6, <2>7, <2>8 DEF AskStands, Reading
  <2> QED
    BY <1>1, <2>0, <2>9, AskGoes
<1>5. CASE ask' = [ask EXCEPT !.pc = "done", !.spoiled = TRUE, !.till = Len(past)]
  <2>1. ask' = [ask EXCEPT !.pc = "done", !.ok = FALSE, !.spoiled = TRUE, !.till = Len(past)]
    BY <1>1, <1>5 DEF AskType
  <2> QED
    BY <1>1, <2>1, Refused
<1> QED
  BY <1>4, <1>5 DEF ReadGrants

(* What a ground is. *)
LEMMA GroundsAre ==
    ASSUME NEW w \in World, NEW roster, NEW who, NEW on, NEW level
    PROVE  /\ who = w.creator => Own \in Grounds(w, roster, who, on, level)
           /\ ~ w.private /\ level = "view" => Open \in Grounds(w, roster, who, on, level)
           /\ \A y \in On, s \in Subject :
                 <<y, s>> \in Grounds(w, roster, who, on, level) <=>
                     /\ on = "space" => y = "space"
                     /\ AtLeast(w.grants[<<y, s>>], level)
                     /\ s \in {who, "everyone"} \/ (s \in Team /\ who \in roster[s])
           /\ Own \in Grounds(w, roster, who, on, level) => who = w.creator
           /\ Open \in Grounds(w, roster, who, on, level) => ~ w.private /\ level = "view"
<1> DEFINE Granted == {x \in On \X Subject :
                          /\ on = "space" => x[1] = "space"
                          /\ AtLeast(w.grants[x], level)
                          /\ x[2] \in {who, "everyone"} \/ (x[2] \in Team /\ who \in roster[x[2]])}
<1>1. Open \notin On \X Subject /\ Own \notin On \X Subject /\ Own # Open
  BY DEF Open, Own, On
<1>2. Grounds(w, roster, who, on, level) = Granted \cup {x \in {Open} : ~ w.private /\ level = "view"}
                                                   \cup {x \in {Own} : who = w.creator}
  BY DEF Grounds
<1>3. \A x \in On \X Subject : x # Open /\ x # Own
  BY <1>1
<1>4. ASSUME NEW y \in On, NEW s \in Subject
      PROVE  <<y, s>> \in Granted <=>
                     /\ on = "space" => y = "space"
                     /\ AtLeast(w.grants[<<y, s>>], level)
                     /\ s \in {who, "everyone"} \/ (s \in Team /\ who \in roster[s])
  BY DEF On
<1>5. Open \notin Granted /\ Own \notin Granted
  BY <1>1
<1> HIDE DEF Granted
<1>6. \A y \in On, s \in Subject : <<y, s>> \in On \X Subject
  OBVIOUS
<1>7. \A y \in On, s \in Subject :
          <<y, s>> \in Grounds(w, roster, who, on, level) <=> <<y, s>> \in Granted
  BY <1>2, <1>3, <1>6
<1> QED
  BY <1>1, <1>2, <1>4, <1>5, <1>7

(* The comparison of Decide, of a request that has read all it is to read: who is let  *)
(* in has a ground, and who is not lacks each ground at some moment.                 *)
LEMMA DecideKeeps ==
    ASSUME AccessInv, ask.pc = "decide", past' = past,
           NEW teams, teams = IF TeamGranted(ask.read) THEN {t \in Team : ask.who \in Now.roster[t]}
                              ELSE {},
           NEW answer, answer = Resolve(ask.who, ask.creator, ask.read, teams, ask.private),
           ask' = [ask EXCEPT !.pc = "done", !.ok = AtLeast(answer, ask.need), !.till = Len(past)]
    PROVE  AccessInv'
<1> DEFINE o == [ask EXCEPT !.pc = "done", !.ok = AtLeast(answer, ask.need), !.till = Len(past)]
           Counts == {s \in Subject : s \in {ask.who, "everyone"} \cup teams}
           W == ask.from..Len(past)
<1>1. /\ ask \in AskType /\ Begun(ask) /\ Found(ask) /\ HasRead(ask, ask.on)
      /\ ask.on = "page" => HasRead(ask, "space")
  BY DEF AccessInv, AskStands, Reading
<1>2. TablesTyped /\ Now = past[Len(past)] /\ Len(past) \in W /\ W = So(ask)
      /\ W \subseteq 1..Len(past)
  BY <1>1, NowIs DEF AccessInv, Begun, TablesTyped, So
<1>3. ask.creator \in BOOLEAN /\ ask.private \in BOOLEAN /\ ask.read \in [Subject -> Level]
      /\ ask.on \in On
  BY <1>1 DEF AskType
<1>4. /\ answer \in Level
      /\ ask.creator => \A l \in Level : AtLeast(answer, l)
      /\ \A s \in Counts : AtLeast(answer, ask.read[s])
      /\ ~ ask.private => AtLeast(answer, "view")
      /\ \A l \in Level : l # "none" /\ AtLeast(answer, l) =>
            \/ ask.creator \/ (AtLeast("view", l) /\ ~ ask.private)
            \/ \E s \in Counts : AtLeast(ask.read[s], l)
  <2>1. Counts = Counted(ask.who, teams)
    BY DEF Counted
  <2> HIDE DEF Counts
  <2> QED
    BY <1>3, <2>1, ResolveIs
<1>5. ask.due \in Level /\ ask.due # "none" /\ ask.need = ask.due /\ ask.who \in past[ask.from].members
  BY <1>1, Ranks DEF Begun, Found
<1>6. \A i \in W : past[i] \in World /\ past[i].creator = past[1].creator
  BY <1>2 DEF TablesTyped
<1>7. ASSUME AtLeast(answer, ask.due)
      PROVE  \E i, j \in W : /\ i <= j
                             /\ Grounds(past[i], past[j].roster, ask.who, ask.on, ask.due) # {}
  <2>2. \A i \in W : i <= Len(past)
    BY <1>2 DEF TablesTyped
  <2>3. CASE ask.creator
    <3>1. ask.who = past[Len(past)].creator
      BY <1>1, <1>2, <1>6, <2>3 DEF Found
    <3>2. Own \in Grounds(past[Len(past)], past[Len(past)].roster, ask.who, ask.on, ask.due)
      BY <1>2, <1>6, <3>1, GroundsAre
    <3> QED
      BY <1>2, <2>2, <3>2
  <2>4. CASE AtLeast("view", ask.due) /\ ~ ask.private
    <3>1. ask.due = "view"
      BY <1>5, <2>4, Ranks DEF AtLeast
    <3>2. PICK i \in W : past[i].private = ask.private
      BY <1>1, <1>2 DEF Found
    <3>3. Open \in Grounds(past[i], past[Len(past)].roster, ask.who, ask.on, ask.due)
      BY <1>6, <2>4, <3>1, <3>2, GroundsAre
    <3> QED
      BY <1>2, <2>2, <3>2, <3>3
  <2>5. CASE \E s \in Counts : AtLeast(ask.read[s], ask.due)
    <3>1. PICK s \in Counts : AtLeast(ask.read[s], ask.due)
      BY <2>5
    <3>0. ask.read[s] # "none"
      BY <1>5, <3>1, LevelsOrdered
    <3>2. PICK i \in W, y \in On : /\ ask.on = "space" => y = "space"
                                   /\ past[i].grants[<<y, s>>] = ask.read[s]
      BY <1>1, <1>2, <3>0 DEF Found, Told
    <3>3. s \in {ask.who, "everyone"} \/ (s \in Team /\ ask.who \in past[Len(past)].roster[s])
      BY <1>2, <3>1
    <3>4. AtLeast(past[i].grants[<<y, s>>], ask.due)
      BY <3>1, <3>2
    <3>5. <<y, s>> \in Grounds(past[i], past[Len(past)].roster, ask.who, ask.on, ask.due)
      BY <1>6, <3>2, <3>3, <3>4, GroundsAre
    <3> QED
      BY <1>2, <2>2, <3>2, <3>5
  <2> QED
    BY <1>4, <1>5, <1>7, <2>3, <2>4, <2>5
<1>8. ASSUME ~ AtLeast(answer, ask.due), ~ ask.spoiled, NEW x \in (On \X Subject) \cup {Open, Own},
             \A i \in W : x \in Grounds(past[i], past[i].roster, ask.who, ask.on, ask.due)
      PROVE  FALSE
  <2>1. CASE x = Own
    <3>1. ask.creator
      BY <1>1, <1>2, <1>6, <1>8, <2>1, GroundsAre DEF Found
    <3> QED
      BY <1>4, <1>5, <1>8, <3>1
  <2>2. CASE x = Open
    <3>1. PICK i \in W : past[i].private = ask.private
      BY <1>1, <1>2 DEF Found
    <3>2. ~ ask.private /\ ask.due = "view"
      BY <1>6, <1>8, <2>2, <3>1, GroundsAre
    <3> QED
      BY <1>4, <1>8, <3>2
  <2>3. CASE x \in On \X Subject
    <3>1. PICK y \in On, s \in Subject : x = <<y, s>>
      BY <2>3
    <3>2. ASSUME NEW i \in W
          PROVE  /\ ask.on = "space" => y = "space"
                 /\ AtLeast(past[i].grants[<<y, s>>], ask.due)
                 /\ s \in {ask.who, "everyone"} \/ (s \in Team /\ ask.who \in past[i].roster[s])
      BY <1>6, <1>8, <3>1, GroundsAre
    <3>3. HasRead(ask, y)
      BY <1>1, <1>2, <1>3, <3>2 DEF On
    <3>4. PICK i \in W : AtLeast(ask.read[s], past[i].grants[<<y, s>>])
      BY <1>2, <1>8, <3>3 DEF HasRead
    <3>5. past[i].grants[<<y, s>>] \in Level /\ ask.read[s] \in Level
      BY <1>3, <1>6 DEF World
    <3>6. AtLeast(ask.read[s], ask.due)
      BY <1>5, <3>2, <3>4, <3>5, LevelsOrdered
    <3>7. ask.read[s] # "none"
      BY <1>5, <3>6, LevelsOrdered
    <3>8. s \in Counts
      BY <1>2, <3>2, <3>7 DEF TeamGranted
    <3> QED
      BY <1>4, <1>5, <1>8, <3>5, <3>6, <3>8, LevelsOrdered
  <2> QED
    BY <2>1, <2>2, <2>3
<1>9. AtLeast(answer, ask.need) \in BOOLEAN
  BY DEF AtLeast
<1>10. /\ o.pc = "done" /\ (o.ok <=> AtLeast(answer, ask.due)) /\ o.spoiled = ask.spoiled
       /\ o.till = Len(past) /\ o.who = ask.who /\ o.from = ask.from /\ o.on = ask.on
       /\ o.due = ask.due /\ o.need = ask.need /\ o.in = ask.in
  BY <1>1, <1>5 DEF AskType
<1>11. o \in AskType
  BY <1>1, <1>2, <1>9 DEF AskType, TablesTyped
<1>12. ask' = o
  OBVIOUS
<1> HIDE DEF o, Counts
<1>13. Begun(o)
  BY <1>1, <1>10 DEF Begun
<1>14. Decided(o)
  BY <1>5, <1>7, <1>8, <1>10 DEF Decided
<1>15. AskStands(o)
  BY <1>10, <1>11, <1>13, <1>14 DEF AskStands, Reading
<1> QED
  BY <1>12, <1>15, AskGoes

LEMMA AccessStep == AccessInv /\ [Next]_vars => AccessInv'
<1> SUFFICES ASSUME AccessInv, [Next]_vars PROVE AccessInv'
  OBVIOUS
<1>1. CASE UNCHANGED acVars
  BY <1>1, AskGoes DEF acVars, AccessInv
<1>2. ASSUME NEW on \in On, NEW s \in Subject,
             RevokeByID(on, s) \/ \E l \in GrantLevels : Grant(on, s, l)
      PROVE  AccessInv'
  BY <1>2, OthersKeep
<1>3. ASSUME NEW private \in BOOLEAN, UpdateSpace(private) PROVE AccessInv'
  BY <1>3, OthersKeep
<1>4. CASE DeleteSpace \/ DeletePage
  BY <1>4, OthersKeep
<1>5. ASSUME NEW t \in Team, NEW m \in Member, AddMember(t, m) \/ RemoveMember(t, m)
      PROVE  AccessInv'
  BY <1>5, OthersKeep
<1>6. ASSUME NEW members \in SUBSET Member, Reconcile(members) PROVE AccessInv'
  BY <1>6, OthersKeep
<1>7. ASSUME NEW door \in DOMAIN Behind, NEW m \in Member, NEW op \in Behind[door],
             Middleware(m, op, door)
      PROVE  AccessInv'
  BY <1>7, MiddlewareKeeps
<1>8. CASE ReadMeta
  BY <1>8, ReadMetaKeeps
<1>9. CASE ReadSpaceGrants
  BY <1>9, ReadSpaceGrantsKeeps
<1>10. CASE ReadGrants
  BY <1>10, ReadGrantsKeeps
<1>11. CASE Decide
  <2> DEFINE teams == IF TeamGranted(ask.read) THEN {t \in Team : ask.who \in Now.roster[t]} ELSE {}
             answer == Resolve(ask.who, ask.creator, ask.read, teams, ask.private)
  <2>1. ask.pc = "decide" /\ past' = past
    BY <1>11 DEF Decide, Stays, Trouble
  <2>2. \/ ask' = [ask EXCEPT !.pc = "done", !.ok = AtLeast(answer, ask.need), !.till = Len(past)]
        \/ ask' = [ask EXCEPT !.pc = "done", !.spoiled = TRUE, !.till = Len(past)]
    BY <1>11 DEF Decide, Finish
  <2> HIDE DEF teams, answer
  <2>3. CASE ask' = [ask EXCEPT !.pc = "done", !.ok = AtLeast(answer, ask.need), !.till = Len(past)]
    BY <2>1, <2>3, DecideKeeps DEF teams, answer
  <2>4. CASE ask' = [ask EXCEPT !.pc = "done", !.spoiled = TRUE, !.till = Len(past)]
    <3>1. ask \in AskType /\ ~ ask.ok
      BY <2>1 DEF AccessInv, AskStands
    <3>2. ask' = [ask EXCEPT !.pc = "done", !.ok = FALSE, !.spoiled = TRUE, !.till = Len(past)]
      BY <2>4, <3>1 DEF AskType
    <3> QED
      BY <2>1, <3>2, Refused
  <2> QED
    BY <2>2, <2>3, <2>4
<1>12. CASE AccessNext
  BY <1>2, <1>3, <1>4, <1>5, <1>6, <1>7, <1>8, <1>9, <1>10, <1>11, <1>12 DEF AccessNext
<1> QED
  BY AccessSteps, <1>1, <1>12

LEMMA AccessShows == AccessInv => DecidedByRule
BY DEF AccessInv, AskStands, Decided, DecidedByRule, Window

(* Whoever is let through had a ground at some moment of the request, and whoever has   *)
(* one all along is let through, however grants, teams, settings and memberships        *)
(* change between the reads (permission/store.go resolveAccess, CheckPage;             *)
(* middleware.go RequireAccess; mcp/server.go callTool).                              *)
THEOREM DecidedRightly == Spec => []DecidedByRule
<1>1. Init => AccessInv
  BY AccessStart
<1>2. AccessInv /\ [Next]_vars => AccessInv'
  BY AccessStep
<1> QED
  BY <1>1, <1>2, AccessShows, PTL DEF Spec, vars

=============================================================================
