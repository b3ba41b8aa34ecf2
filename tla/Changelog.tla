----------------------------- MODULE Changelog ------------------------------
(***************************************************************************)
(* The release entries of a changelog page, and the entry generated from a   *)
(* list of Track issues: each issue is looked up once for the body and once  *)
(* for the badge, through the cache of the one Track client, which embeds,   *)
(* the freshness scan, the cost sweep and other generations fill as well,    *)
(* while the labels in Track change (internal/changelog/store.go,            *)
(* internal/trackintegration/client.go).                                     *)
(***************************************************************************)
EXTENDS Naturals, Sequences, FiniteSets

CONSTANTS Issue, MaxAsked,       \* the issues of one request, at most so many
          Caller,                \* the other callers of the client
          MaxEntries, MaxChanges, MaxMisses \* bounds

ChangelogSizes == {MaxAsked, MaxEntries, MaxChanges, MaxMisses} \subseteq Nat

VARIABLES
    label,      \* Track: what the labels of each issue make it
    configured, \* the client has a Track to ask
    cache,      \* Client.cache: what a warm reference of each issue says, or "cold"
    fetches,    \* what each other caller is fetching, or Quiet
    gen,        \* the request that generates an entry, or Resting
    entries,    \* changelog_entries, in the order they were inserted
    clock,      \* counts publications
    changes, misses

clVars == <<label, configured, cache, fetches, gen, entries, clock, changes, misses>>

Kind == {"breaking", "security", "feature", "bugfix", "improvement", "deprecated"}
Rank == <<"breaking", "security", "feature", "bugfix", "improvement", "deprecated">>

\* A line of a body: an issue by its title, under its kind, or by its bare id.
Line == [issue : Issue, kind : Kind, named : BOOLEAN]

\* How far a fetch is: not begun, asked for, or answered.
Heard == {"nothing", "asked"} \cup Kind

Quiet == [issue |-> "none", heard |-> "nothing"]

\* What may part the badge from the body: a lookup that failed, a reference the
\* body had read and that went cold, or that another caller's fetch overwrote.
Upset == {"missed", "cold", "overtaken"}

Resting == [pc |-> "rest", asked |-> <<>>, at |-> 1, heard |-> "nothing", lines |-> <<>>,
            kinds |-> {}, upset |-> {}]

ChangelogTypeOK ==
    /\ label \in [Issue -> Kind] /\ configured \in BOOLEAN
    /\ cache \in [Issue -> Kind \cup {"cold"}]
    /\ fetches \in [Caller -> {Quiet} \cup [issue : Issue, heard : Heard]]
    /\ gen.pc \in {"rest", "body", "badge", "insert"} /\ gen.lines \in Seq(Line)
    /\ \A i \in DOMAIN entries : entries[i].type \in Kind \cup {"other"}
    /\ changes \in 0..MaxChanges /\ misses \in 0..MaxMisses

ChangelogInit ==
    /\ label \in [Issue -> {"breaking", "improvement"}] /\ configured \in BOOLEAN
    /\ cache = [i \in Issue |-> "cold"] /\ fetches = [c \in Caller |-> Quiet] /\ gen = Resting
    /\ entries = <<>> /\ clock = 0 /\ changes = 0 /\ misses = 0

-----------------------------------------------------------------------------
(* One lookup, fetchIssue: a warm reference is the answer; otherwise Track is *)
(* asked, with no lock held, and what it said then is stored over whatever is   *)
(* there by now. Every failure, and a Track that is not configured, is no       *)
(* reference; a failure is not cached.                                         *)

\* Mutant: what was fetched is not kept.
Forgotten(issue, kind) == cache

Cached(issue, kind) == [cache EXCEPT ![issue] = kind]

Ask ==
    /\ gen.pc \in {"body", "badge"} /\ gen.heard = "nothing"
    /\ configured /\ cache[gen.asked[gen.at]] = "cold"
    /\ gen' = [gen EXCEPT !.heard = "asked"]
    /\ UNCHANGED <<label, configured, cache, fetches, entries, clock, changes, misses>>

Answer ==
    /\ gen.heard = "asked"
    /\ gen' = [gen EXCEPT !.heard = label[gen.asked[gen.at]]]
    /\ UNCHANGED <<label, configured, cache, fetches, entries, clock, changes, misses>>

\* kind is that of the reference, or "none".
lookupIssue(issue, kind) ==
    \/ ~configured /\ kind = "none" /\ UNCHANGED <<cache, misses>>
    \/ /\ configured /\ gen.heard = "nothing" /\ cache[issue] # "cold" /\ kind = cache[issue]
       /\ UNCHANGED <<cache, misses>>
    \/ /\ gen.heard \in Kind /\ kind = gen.heard
       /\ cache' = Cached(issue, kind) /\ UNCHANGED misses
    \/ /\ gen.heard # "nothing" /\ kind = "none"
       /\ misses < MaxMisses /\ misses' = misses + 1 /\ UNCHANGED cache

issueType(kind) == IF kind = "none" THEN "improvement" ELSE kind

Missed == IF misses' # misses THEN {"missed"} ELSE {}

-----------------------------------------------------------------------------
(* GenerateFromIssues.                                                      *)

Generate(asked) ==
    /\ gen = Resting /\ Len(entries) < MaxEntries
    /\ gen' = [Resting EXCEPT !.pc = IF asked = <<>> THEN "insert" ELSE "body", !.asked = asked]
    /\ UNCHANGED <<label, configured, cache, fetches, entries, clock, changes, misses>>

Advanced(pc, next) == [gen EXCEPT !.pc = IF gen.at = Len(gen.asked) THEN next ELSE pc,
                                  !.at = IF gen.at = Len(gen.asked) THEN 1 ELSE gen.at + 1,
                                  !.heard = "nothing", !.upset = gen.upset \cup Missed]

\* buildContent: the next issue goes under its kind, by its title if it was read.
buildContent ==
    /\ gen.pc = "body"
    /\ \E kind \in Kind \cup {"none"} :
          LET issue == gen.asked[gen.at]
          IN /\ lookupIssue(issue, kind)
             /\ gen' = [Advanced("body", "badge") EXCEPT
                           !.lines = Append(@, [issue |-> issue, kind |-> issueType(kind),
                                                named |-> kind # "none"])]
    /\ UNCHANGED <<label, configured, fetches, entries, clock, changes>>

CountKind ==
    /\ gen.pc = "badge"
    /\ \E kind \in Kind \cup {"none"} :
          /\ lookupIssue(gen.asked[gen.at], kind)
          /\ gen' = [Advanced("badge", "insert") EXCEPT !.kinds = @ \cup {issueType(kind)}]
    /\ UNCHANGED <<label, configured, fetches, entries, clock, changes>>

dominantType(kinds) ==
    IF kinds = {} THEN "improvement"
    ELSE Rank[CHOOSE i \in DOMAIN Rank :
                  Rank[i] \in kinds /\ \A j \in DOMAIN Rank : Rank[j] \in kinds => i <= j]

Entry(type, lines, asked, upset) ==
    [there |-> TRUE, type |-> type, lines |-> lines, asked |-> asked, published |-> 0,
     generated |-> TRUE, upset |-> upset]

\* CreateEntry: an invalid version, or a statement that fails, leaves no entry.
Insert ==
    /\ gen.pc = "insert"
    /\ gen' = Resting
    /\ \/ entries' = Append(entries, Entry(dominantType(gen.kinds), gen.lines, gen.asked, gen.upset))
       \/ UNCHANGED entries
    /\ UNCHANGED <<label, configured, cache, fetches, clock, changes, misses>>

-----------------------------------------------------------------------------
(* Entries by hand. Create checks the type and UpdateEntry does not.          *)

Change == changes < MaxChanges /\ changes' = changes + 1
There == {i \in DOMAIN entries : entries[i].there}

CreateEntry(type) ==
    /\ Change /\ Len(entries) < MaxEntries
    /\ entries' = Append(entries, [Entry(type, <<>>, <<>>, {}) EXCEPT !.generated = FALSE])
    /\ UNCHANGED <<label, configured, cache, fetches, gen, clock, misses>>

UpdateEntry(i, type) ==
    /\ Change /\ i \in There
    /\ entries' = [entries EXCEPT ![i].type = type, ![i].generated = FALSE]
    /\ UNCHANGED <<label, configured, cache, fetches, gen, clock, misses>>

\* A second publication moves the entry to the top of the feed.
PublishEntry(i) ==
    /\ Change /\ i \in There
    /\ clock' = clock + 1
    /\ entries' = [entries EXCEPT ![i].published = clock + 1]
    /\ UNCHANGED <<label, configured, cache, fetches, gen, misses>>

DeleteEntry(i) ==
    /\ Change /\ i \in There
    /\ entries' = [entries EXCEPT ![i].there = FALSE]
    /\ UNCHANGED <<label, configured, cache, fetches, gen, clock, misses>>

-----------------------------------------------------------------------------
(* Track, and time.                                                         *)

Relabel(issue, kind) ==
    /\ Change /\ label[issue] # kind
    /\ label' = [label EXCEPT ![issue] = kind]
    /\ UNCHANGED <<configured, cache, fetches, gen, entries, clock, misses>>

Listed(issue) == \E k \in DOMAIN gen.lines : gen.lines[k].issue = issue

Upsets(why, issue) == gen' = [gen EXCEPT !.upset = @ \cup IF Listed(issue) THEN {why} ELSE {}]

\* cacheTTL passes.
Expire(issue) ==
    /\ cache[issue] # "cold"
    /\ cache' = [cache EXCEPT ![issue] = "cold"]
    /\ Upsets("cold", issue)
    /\ UNCHANGED <<label, configured, fetches, entries, clock, changes, misses>>

-----------------------------------------------------------------------------
(* fetchIssue for the other callers.                                        *)

CallerAsks(c, issue) ==
    /\ fetches[c] = Quiet /\ configured /\ cache[issue] = "cold"
    /\ fetches' = [fetches EXCEPT ![c] = [issue |-> issue, heard |-> "asked"]]
    /\ UNCHANGED <<label, configured, cache, gen, entries, clock, changes, misses>>

CallerAnswered(c) ==
    /\ fetches[c].heard = "asked"
    /\ fetches' = [fetches EXCEPT ![c].heard = label[fetches[c].issue]]
    /\ UNCHANGED <<label, configured, cache, gen, entries, clock, changes, misses>>

CallerStores(c) ==
    LET issue == fetches[c].issue
        kind  == fetches[c].heard
    IN  /\ kind \in Kind
        /\ cache' = [cache EXCEPT ![issue] = kind]
        /\ IF kind = cache[issue] THEN UNCHANGED gen ELSE Upsets("overtaken", issue)
        /\ fetches' = [fetches EXCEPT ![c] = Quiet]
        /\ UNCHANGED <<label, configured, entries, clock, changes, misses>>

CallerFails(c) ==
    /\ fetches[c] # Quiet
    /\ fetches' = [fetches EXCEPT ![c] = Quiet]
    /\ UNCHANGED <<label, configured, cache, gen, entries, clock, changes, misses>>

ChangelogNext ==
    \/ \E n \in 0..MaxAsked : \E asked \in [1..n -> Issue] : Generate(asked)
    \/ Ask \/ Answer \/ buildContent \/ CountKind \/ Insert
    \/ \E c \in Caller : \/ \E issue \in Issue : CallerAsks(c, issue)
                        \/ CallerAnswered(c) \/ CallerStores(c) \/ CallerFails(c)
    \/ \E type \in {"feature", "improvement"} : CreateEntry(type)
    \/ \E i \in 1..MaxEntries : \/ \E type \in {"feature", "other"} : UpdateEntry(i, type)
                                \/ PublishEntry(i) \/ DeleteEntry(i)
    \/ \E issue \in Issue : (\E kind \in {"breaking", "bugfix"} : Relabel(issue, kind)) \/ Expire(issue)

-----------------------------------------------------------------------------
(* A generated entry lists every issue it was asked for, as often as it was    *)
(* named, and its badge is the gravest kind of its body, whatever happens to    *)
(* the labels meanwhile; unless a lookup failed, or a reference the body had    *)
(* read went cold, or was overwritten by another caller's fetch, before        *)
(* the entry was made (store.go GenerateFromIssues, dominantType).              *)
BadgeMatchesBody ==
    \A i \in There :
        LET e == entries[i]
        IN e.generated =>
              /\ [k \in DOMAIN e.lines |-> e.lines[k].issue] = e.asked
              /\ e.upset = {} => e.type = dominantType({e.lines[k].kind : k \in DOMAIN e.lines})

(* store.go lookupIssue: reading through one cache "is what stops the two from *)
(* drifting apart again", as "the badge pass is served warm".                  *)
ServedWarmNeverDrifts ==
    \A i \in There :
        LET e == entries[i]
        IN e.generated /\ e.upset \cap {"missed", "cold"} = {}
              => e.type = dominantType({e.lines[k].kind : k \in DOMAIN e.lines})
=============================================================================
