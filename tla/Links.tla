------------------------------- MODULE Links -------------------------------
(***************************************************************************)
(* The Track issues of a page and what they cost: the links a save           *)
(* reconciles (pagelink), the refs the Track client caches, and the sweep    *)
(* that writes their total to the page (trackintegration/syncer.go).  One    *)
(* page: pages share neither links nor totals.                              *)
(***************************************************************************)
EXTENDS Naturals, FiniteSets

CONSTANTS Issue,
          Saver,    \* goroutines reconciling the links of a save
          Syncer,   \* Docs processes, each with a Track client and a sweep
          MaxEdits, \* bound: saves, links and unlinks
          MaxSpend, \* bound: what Track adds to the issues
          MaxMisses \* bound: statements and requests that fail

LinksSizes == {MaxEdits, MaxSpend, MaxMisses} \subseteq Nat

VARIABLES
    embeds,  \* issues the page's content embeds
    links,   \* page_links: <<issue, type>>
    savers,  \* the reconciliations under way
    spent,   \* Track: the cost of each issue
    cache,   \* Client.cache of each process
    syncs,   \* where each sweep is with the page
    total,   \* pages.ai_cost_usd
    edits, misses,
    settled, \* history: the last reconciliation was alone, complete, of the content
    wished,  \* history: issues linked by hand
    last     \* history: the links and the total of each sweep's last write

linkVars == <<embeds, links, savers, spent, cache, syncs, total, edits, misses,
              settled, wished, last>>

Linked(type) == {i \in Issue : <<i, type>> \in links}

Unread == 99
NoSaver == [pc |-> "idle", current |-> {}, existing |-> {}, alone |-> FALSE]
NoSync == [pc |-> "idle", issues |-> {}, left |-> {}, sum |-> 0]

LinksTypeOK ==
    /\ embeds \subseteq Issue
    /\ links \subseteq Issue \X {"embed", "mention"}
    /\ savers \in [Saver -> [pc : {"idle", "read", "apply"}, current : SUBSET Issue,
                             existing : SUBSET Issue, alone : BOOLEAN]]
    /\ spent \in [Issue -> 0..MaxSpend]
    /\ cache \in [Syncer -> [Issue -> 0..MaxSpend \cup {Unread}]]
    /\ syncs \in [Syncer -> [pc : {"idle", "sum"}, issues : SUBSET Issue,
                             left : SUBSET Issue, sum : Nat]]
    /\ total \in Nat

LinksInit ==
    /\ embeds = {} /\ settled = TRUE
    /\ wished \in SUBSET Issue /\ links = wished \X {"mention"}
    /\ savers = [r \in Saver |-> NoSaver]
    /\ spent = [i \in Issue |-> 0]
    /\ cache = [s \in Syncer |-> [i \in Issue |-> Unread]]
    /\ syncs = [s \in Syncer |-> NoSync]
    /\ total = 0 /\ edits = 0 /\ misses = 0
    /\ last = [s \in Syncer |-> [issues |-> {}, sum |-> 0]]

Edit == edits < MaxEdits /\ edits' = edits + 1
Miss == misses < MaxMisses /\ misses' = misses + 1

-----------------------------------------------------------------------------
(* Store.SyncLinks, called at the end of a save and of a creation.          *)

Busy(R) == \E r \in R : savers[r].pc # "idle"

\* The save's own statement, and ParseEmbeds of the content it returned.
Save(r, content) ==
    /\ savers[r] = NoSaver
    /\ Edit
    /\ embeds' = content
    /\ savers' = [x \in Saver |->
                     IF x = r THEN [pc |-> "read", current |-> content, existing |-> {},
                                    alone |-> ~Busy(Saver)]
                     ELSE [savers[x] EXCEPT !.alone = FALSE]]
    /\ settled' = FALSE
    /\ UNCHANGED <<links, spent, cache, syncs, total, misses, wished, last>>

ReadLinks(r) ==
    /\ savers[r].pc = "read"
    /\ \/ /\ savers' = [savers EXCEPT ![r].pc = "apply", ![r].existing = Linked("embed")]
          /\ UNCHANGED misses
       \/ Miss /\ savers' = [savers EXCEPT ![r] = NoSaver]
    /\ UNCHANGED <<embeds, links, spent, cache, syncs, total, edits, settled, wished, last>>

Added(r) == savers[r].current \ savers[r].existing
Removed(r) == savers[r].existing \ savers[r].current

\* Mutant: reconciling an embed away takes the other links of the issue with it.
UntypedPair(i) == {i} \X {"embed", "mention"}

\* deleteTyped
TypedPair(i) == {<<i, "embed">>}

\* Upserts first, then deletions, one statement each; the first that fails ends it.
Apply(r) ==
    /\ savers[r].pc = "apply"
    /\ LET me == savers[r]
           Keep(current, existing) ==
               savers' = [savers EXCEPT ![r].current = current, ![r].existing = existing]
       IN \/ /\ \E i \in Added(r) :
                    /\ links' = links \cup {<<i, "embed">>}
                    /\ Keep(me.current, me.existing \cup {i})
             /\ UNCHANGED <<misses, settled>>
          \/ /\ Added(r) = {}
             /\ \E i \in Removed(r) :
                    /\ links' = links \ TypedPair(i)
                    /\ Keep(me.current, me.existing \ {i})
             /\ UNCHANGED <<misses, settled>>
          \/ /\ Added(r) \cup Removed(r) = {}
             /\ savers' = [savers EXCEPT ![r] = NoSaver]
             /\ settled' = (me.alone /\ me.current = embeds)
             /\ UNCHANGED <<links, misses>>
          \/ /\ Added(r) \cup Removed(r) # {}
             /\ Miss
             /\ savers' = [savers EXCEPT ![r] = NoSaver]
             /\ UNCHANGED <<links, settled>>
    /\ UNCHANGED <<embeds, spent, cache, syncs, total, edits, wished, last>>

\* Handler.Create and Upsert: the type is the caller's, a mention by default.
Link(i, type) ==
    /\ Edit
    /\ links' = links \cup {<<i, type>>}
    /\ wished' = IF type = "mention" THEN wished \cup {i} ELSE wished
    /\ settled' = (settled /\ type = "mention")
    /\ savers' = [x \in Saver |-> [savers[x] EXCEPT !.alone = @ /\ type = "mention"]]
    /\ UNCHANGED <<embeds, spent, cache, syncs, total, misses, last>>

\* Handler.Delete and Store.Delete: every link of the pair.
Unlink(i) ==
    /\ Edit
    /\ links' = links \ ({i} \X {"embed", "mention"})
    /\ wished' = wished \ {i}
    /\ settled' = FALSE
    /\ savers' = [x \in Saver |-> [savers[x] EXCEPT !.alone = FALSE]]
    /\ UNCHANGED <<embeds, spent, cache, syncs, total, misses, last>>

-----------------------------------------------------------------------------
(* Track, and the client's cache.                                           *)

SpendOn(i) ==
    /\ spent[i] < MaxSpend
    /\ spent' = [spent EXCEPT ![i] = @ + 1]
    /\ UNCHANGED <<embeds, links, savers, cache, syncs, total, edits, misses, settled, wished, last>>

Expire(s, i) ==
    /\ cache[s][i] # Unread
    /\ cache' = [cache EXCEPT ![s][i] = Unread]
    /\ UNCHANGED <<embeds, links, savers, spent, syncs, total, edits, misses, settled, wished, last>>

\* fetchIssue: the warm ref, or Track's answer, which is kept.
Known(s, i) == IF cache[s][i] = Unread THEN spent[i] ELSE cache[s][i]

\* GetIssue, for a rendered embed: a failure is swallowed and keeps nothing. Its
\* fetch and its later store are one step here (Changelog has them apart): by the
\* process's next sweep, two minutes on, an older answer stored late is cold again.
GetIssue(s, i) ==
    /\ cache[s][i] = Unread
    /\ cache' = [cache EXCEPT ![s][i] = spent[i]]
    /\ UNCHANGED <<embeds, links, savers, spent, syncs, total, edits, misses, settled, wished, last>>

-----------------------------------------------------------------------------
(* syncWorkspaceCosts for the page.                                         *)

\* IssueIDsForPage: the embeds only.
BeginSum(s) ==
    /\ syncs[s] = NoSync
    /\ syncs' = [syncs EXCEPT ![s] = [pc |-> "sum", issues |-> Linked("embed"),
                                      left |-> Linked("embed"), sum |-> 0]]
    /\ UNCHANGED <<embeds, links, savers, spent, cache, total, edits, misses, settled, wished, last>>

\* Mutant: an issue that cannot be read costs nothing.
UnreadableFree(s, i) == [syncs[s] EXCEPT !.left = @ \ {i}]

\* pageTotal: an issue that cannot be read leaves the total as it is.
Unreadable(s, i) == NoSync

AddIssue(s) ==
    /\ syncs[s].pc = "sum"
    /\ \E i \in syncs[s].left :
        \/ /\ syncs' = [syncs EXCEPT ![s].left = @ \ {i}, ![s].sum = @ + Known(s, i)]
           /\ cache' = [cache EXCEPT ![s][i] = Known(s, i)]
           /\ UNCHANGED misses
        \/ /\ cache[s][i] = Unread
           /\ Miss
           /\ syncs' = [syncs EXCEPT ![s] = Unreadable(s, i)]
           /\ UNCHANGED cache
    /\ UNCHANGED <<embeds, links, savers, spent, total, edits, settled, wished, last>>

\* UpdateAICost, or its failure.
WriteTotal(s) ==
    /\ syncs[s].pc = "sum" /\ syncs[s].left = {}
    /\ syncs' = [syncs EXCEPT ![s] = NoSync]
    /\ \/ /\ total' = syncs[s].sum
          /\ last' = [last EXCEPT ![s] = [issues |-> syncs[s].issues, sum |-> syncs[s].sum]]
          /\ UNCHANGED misses
       \/ Miss /\ UNCHANGED <<total, last>>
    /\ UNCHANGED <<embeds, links, savers, spent, cache, edits, settled, wished>>

LinksNext ==
    \/ \E r \in Saver, content \in SUBSET Issue : Save(r, content)
    \/ \E r \in Saver : ReadLinks(r) \/ Apply(r)
    \/ \E i \in Issue : Unlink(i) \/ SpendOn(i) \/ Link(i, "embed") \/ Link(i, "mention")
    \/ \E s \in Syncer, i \in Issue : Expire(s, i) \/ GetIssue(s, i)
    \/ \E s \in Syncer : BeginSum(s) \/ AddIssue(s) \/ WriteTotal(s)

LinksSpec == LinksInit /\ [][LinksNext]_linkVars

-----------------------------------------------------------------------------
(* A reconciliation that ran alone and to its end leaves the embed links that   *)
(* the content has, whatever overlaps and failures went before; and none ever   *)
(* touches a link made by hand (pagelink/store.go SyncLinks "the next save      *)
(* reconciles again", deleteTyped).                                            *)
LinksFollowContent ==
    /\ settled => Linked("embed") = embeds
    /\ Linked("mention") = wished

(* The totals a process writes never go down while no issue is unlinked: an     *)
(* issue that cannot be read, or an old cached ref, never takes a page's cost   *)
(* back (syncer.go pageTotal "a partial total must never overwrite a complete   *)
(* one", client.go IssueCost).                                                 *)
NoWriteDown ==
    [][\A s \in Syncer :
          last[s].issues \subseteq last'[s].issues => last'[s].sum >= last[s].sum]_linkVars

=============================================================================
