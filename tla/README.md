# Talyvor Docs: a TLA+ model

Talyvor Docs is a Go server over PostgreSQL with a React client: workspaces of
spaces, spaces of pages in a tree, pages edited live over WebSockets or saved
over REST, with locks, edit sessions, approvals and an append-only version
history; around them search, comments, databases, imports and exports, public
links and domains, and the loops that carry events, mail, embeddings, costs and
rosters between Docs and its neighbours (Track, Lens, mail and webhook
endpoints). This project models it where steps of several actors meet, where a
step can fail half-way, and where a pure algorithm decides something. Where a
comment in the code and the code disagree, a run or section 6 says so.

## 1. Inventory

All paths are under `src/internal` unless they say otherwise. PROJECT.json has
the status of each, and under `hazards` the lines where it can go wrong.

| Component | State it keeps | Operations | What is hard | What makes it correct |
|---|---|---|---|---|
| **collab engine** (`collab/ot.go`) | per page: version, history, snapshot and its author, saved version, clients and their channels | Join, Leave, Apply, transform, BroadcastChange, UpdateCursor, DirtyPages, MarkSaved, DropIdle | called from every socket goroutine and from the saver; two sockets under one client id; full channels | no acknowledged edit is lost; a tab hears of every change it has room for; an operation lands where it was meant |
| **collab socket** (`collab/handler.go`, `access.go`) | per connection: page, client, request context | ServeWS, readPump, writePump, dispatch | tier, guard and Apply are three steps; the context can end while frames still arrive | a frame is tested against current grants and locks |
| **autosaver** (`collab/saver.go`) | a mutex | Start/flush every 5 s, saveIdle from the last socket, savePage | failing saves, a save overlapping edits, a tick racing a departure, restart | stored content moves forward; every snapshot is saved in the end |
| **manual locks** (`pagelock`) | `pages.locked, locked_by` | Lock, Unlock, CanEdit | read, then unconditional write | one holder at a time |
| **edit sessions** (`editsession`) | `page_edit_sessions`: holder, last heartbeat | Acquire, Takeover, Heartbeat, Release, CanEdit, Compose | TTL against heartbeats, concurrent claims | only a stale session is taken over |
| **page saves** (`page/store.go`) | `pages.title, content`, `page_versions` | Create, Update, appendVersion, RestoreVersion | guard, write and version are separate statements; version numbers collide | every committed save has a restore point, and restore points are states the page was in |
| **page tree** (`page/store.go`) | `pages.parent_id, depth` | Create, Update with `parent_id`, Delete, rebaseSubtreeDepth | check, link and re-base are separate statements | a forest, true depths, the depth cap |
| **approvals** (`approval`) | `approval_requests`, `review_decisions`, `pages.doc_status` | RequestApproval, Decide, PublishApproved, SetStatus | decisions seeded one by one, two flips in two statements | a page is approved only by all its reviewers |
| **embedding queue** (`pageindex`) | latest text and status per page, a ready queue | IndexPage, promote, worker, embed, Stop | saves during an embed, timers against Stop | the last text of a page is embedded |
| **search** (`search`) | none of its own | Search, ask, the tools | two offsets, an over-fetch window, an access filter after the ranking | a walk shows each readable match once |
| **outboxes** (`webhooks`, `email`) | delivery and mail rows | enqueue, claim, send, record | crash between claim and record, lease against a slow send | at least or at most once, as each promises |
| **AI spend and links** (`page/ai_spend.go`, `lensintegration`, `trackintegration`, `pagelink`) | spend events, page totals, issue links, a ref cache | bind, price, sweep, SyncLinks, cost sweep | repeated and partial answers, overlapping reconciliations | each call priced once; a partial total never overwrites a complete one |
| **access** (`permission`, `spaceauth`, `authz`, `team`, `space`, MCP's own checks) | grants, teams, memberships, space settings | every check before a handler, a tool or a listing | rows read one by one while others change them | the level served is one that was granted |
| **membership sync** (`membership`, `trackintegration`) | `workspace_members` with a source | sweep, service route, ReconcileWorkspace | two pulls crossing, empty or truncated answers | no listed member is lost; the table comes to the roster |
| **public shares** (`sharing`) | share links, a signing key | Create, Revoke, List, Validate, visit | validation, count and load are three statements | shown exactly while the link stands |
| **credentials and limits** (`lenscreds`, `ratelimit`) | token cache, buckets | TokenFor, Allow, Wait, sweep | concurrent mints, expiry, eviction of a bucket | one mint per lifetime, rate bounded |
| **custom domains** (`customdomain`) | `custom_domains` | Create, Verify, Delete, the router, the public views | proof by DNS, a space made private or deleted afterwards | a name shows what its prover made public |
| **comments** (`comment`) | `page_comments` | Create, Reply, Resolve, Delete, ListByPage, GetStats | a reply into a thread being deleted or resolved | list and badge agree |
| **databases, changelog, templates** (`database`, `changelog`, `templatelib`) | rows, entries, use counts | their CRUD, generation, use | read, merge, write; two lookups of one issue; count apart from creation | no cell lost; badge is the body's; uses counted |
| **import, export, formats** (`importer`, `export`, `mcp/markdown.go`) | none of their own | the two importers, gatherPages, every renderer | files that fail, paging under changes, node types nobody thought of | made is counted; every child is listed; no text dropped |
| **boot** (`migrate`, `cmd/docs`) | `schema_migrations`, a session lock | Apply, guards, shutdown | two builds booting at once, crashes between files | who serves has its schema |
| **browser client** (`src/frontend/src/hooks`) | socket, queue, version, edit-session timers | connect, sendChange, handleMessage, heartbeat | reconnects, queue flushed on open, unmount | every local change is sent once, in order |
| others | | blocks, pins, analytics, support packages, guards, scripts | | left out: section 6 |

How they interact: `cmd/docs/main.go` applies the migrations, then builds one `page.Store` guarded by
`editsession.Compose(lockStore, editSessionStore)`. REST handlers call it, and so
does the AutoSaver's save closure; the socket asks `lockStore` alone before a
frame reaches the engine. The engine calls the AutoSaver back when the last
client leaves a page with something to save. `approval` and `pagelock` share
columns of `pages` with it. `page.Update` starts, in goroutines of their own, the
link reconciliation and the embedding queue. Handlers hand events to a fan-out that
enqueues webhook deliveries and mail; both outboxes, the cost sweeps, the roster
sweep and the workers of the queue are loops of each process, and processes overlap.

Almost no operation of the stores runs in a transaction, so a step of a model is
one SQL statement, one call to a neighbour, or one critical section of a Go mutex;
the few transactions (a migration, a roster's reconciliation) are one step each.

## 2. Modules

| Module | Models |
|---|---|
| `EditGuard` | the decisions of `pagelock`, `editsession` and their conjunction: pure operators over a lock row and a session row |
| `WriteBehind` | abstract: what the collaboration server promises about stored content |
| `Collab`, `MCCollab`, `CollabProofs` | the engine's page states, the socket's checks, the autosaver, the wiring in `main.go`; its instances; its theorems |
| `Messages` | what a tab is told: Join, Leave, presence, cursors, acknowledgements and broadcasts through bounded channels, and what `useCollab` does with each |
| `Transform` | `Apply`'s transform over the history, with the texts the operations make |
| `PageSave`, `MCPageSave`, `PageSaveProofs` | `Update` with the statements of a move that may end it, `appendVersion`, `RestoreVersion`, locks and sessions on one page; theorems |
| `PageTree` | `Create`, moves, `Delete`, `rebaseSubtreeDepth` over one workspace |
| `Approval` | `RequestApproval`, `Decide`, `aggregate`, `PublishApproved` on one page |
| `Links` | the issue links of a page, the Track client's ref cache and the cost sweep |
| `SearchPages` | a walk through a search, and the single answers of the tools |
| `Webhooks`, `Mail` | the two outboxes |
| `Comments` | threads of one page |
| `Domains` | custom domains of several workspaces |
| `Access` | one request of each kind, by the rows it reads in the order it reads them |
| `Shares` | share links, visits, keys across restarts |
| `LensGate` | the rate limiter and the token cache |
| `Spend` | binding and pricing of AI calls |
| `Roster` | the mirror of Track's roster |
| `PageIndex` | the throttle, its timers and workers, and the index they write |
| `Migrations` | the boot of several processes, of several builds |
| `Tables`, `Changelog`, `Templates` | an inline database, a changelog page with the Track client's cache and its other callers, the template library |
| `Imports`, `Exports`, `Markup` | an import file by file, an export batch by batch, every format conversion on small documents |
| `Orders`, `OrderLemmas` | the sequence a total order makes of a set, used by `Exports`, `Tables` and `SearchPages`; what is true of it, and the induction the other proofs use |
| `Delivery`, `DeliveryProofs` | composes Webhooks, Mail, Comments, Messages, Transform, Domains; theorems |
| `Gates`, `GatesProofs` | composes Access, Shares, LensGate; theorems |
| `Publishing`, `PublishingProofs` | composes Approval, Links, SearchPages; theorems |
| `Loops`, `LoopsProofs` | composes Spend, Roster, PageIndex, Migrations; theorems |
| `Documents`, `MCDocuments`, `DocumentsProofs` | composes PageTree, Tables, Changelog, Imports, Templates, Exports; the instance, with Markup as one more part; theorems |

**How the compositions work.** The parts of a composition share no row that two of them
write and no lock, and none waits for another. Interleaving them would only multiply
their states. So a behaviour chooses its part at the start (`focus`) and the
others rest in one state: the states are the sum of the parts', and a property of a part is
a property of the composition. Parts that do share rows are in one module from the start:
locks, sessions, saves and restores in `PageSave`; grants, teams, memberships and
settings in `Access`; links, refs and cost in `Links`.

**Collab.** `pages` and `state` are `OTEngine.pages`. `conn[k]` is one ServeWS
call: `open` while its read loop waits, `resolved` once the tier check of the
frame at hand passed, `guarded` once the lock guard let it through, `leaving`
while its Leave runs the disconnect-time save. `flusher` is the tick goroutine,
`mu` the AutoSaver's mutex, `save[w]` the locals of savePage in each goroutine
that may run it (`Tick` and every connection). `gate` holds the rows the guards
read, `db` the stored content and author. A snapshot is the number of the change
that carried it, so order and authorship can be read off it; `origin` remembers
who sent it. Context that ends early (a second Leave closing the channel, the
30 s deadline) refuses later frames, but turns the lock guard's verdict on the
frame at hand into an error, and an error lets the frame through, as in dispatch.

**PageSave.** A save is `guardLock`, `guardSession`, `write`, then `maxRead` and
`insert` for its version: the one INSERT ... SELECT is two steps because under READ
COMMITTED another insert can commit between the two halves; the unique index
then refuses it and it retries. A save that moves the page as well looks the parent up
before it writes (`parent`) and re-bases the depths after (`rebase`), and ends
there when that fails. A restore is a save by the actor
`"restore"` of a version's title and content. `lost` keeps the committed states
that got no version, by the reason: the append gave up and `logged` it, the re-base failed
(`unbased`), the UPDATE took effect and its answer was lost (`unheard`), the process `died`.
Only the first is in the log; in the second and third the save is answered with an error. `barred[r]` remembers which guards
refused the request's member at every moment since it began.

**PageTree.** The recursive queries are a recursive function of the number of
links followed, so a ring is walked as the SQL walks it: it ends, and `Height`
counts the step that closes it. `drift` marks pages whose link changed after
their depth was written; `overlap` and `halved` remember what the properties
are conditional on.

**Approval.** A request is opened by an insert, one insert per reviewer and the flip
of the page; a decision is the reviewer's own update, a count, and the flips of request
and page. Histories name the ways a verdict can be unsound in this code, so that the
properties say exactly where it is sound: `unseeded` (somebody decided while rows were
missing), `unflipped` (before the page was put in review), `changed` (a reviewer took a
verdict back, and the older count may be written last), `crossed` (operations on two
requests, or a publish and a request, met) and `torn` (an operation ended half-way and
no decision was carried through since). The first is a gap in the quorum the package
comment promises ("all assigned reviewers approve"): if the seeding ends after the first
insert, that reviewer alone approves the page.

**The outboxes.** A webhook attempt is a row (`due`, `claimed`, or an outcome), claimed by one statement and recorded by
another; between them is the HTTP call, whose answer may be lost, and the process may die.
A retry is a new row. Mail is one row under a lease: the lease may run out while the send
is still going on. How long anything waits is left out; a row that waits may fall due at any time.

**Changelog.** `gen` is the request at work and `fetches` what other callers of the same
client have under way: an embed, the freshness scan, the cost sweep, another generation. A lookup
that is not served warm is three steps, as in `fetchIssue`: asked, answered by Track as its labels are
then, and stored over whatever the cache holds by then. `upset` remembers what can part the
badge from the body.

**PageIndex, Spend, Roster.** Texts are numbered in the order they were saved, so that
"newest" can be said. Prices are answered by a Lens that may fail, answer for some requests
only, or have let a call leave its window (`aged`). Pulls of the roster hold the answer they
were given until they write it, which is how an old answer meets a newer one.

**Access.** `ask` is one request: where it asks, what is due, and which row it reads next.
`past` keeps the rows as they were at each of its steps, and `DecidedByRule` compares
the verdict with the rule read at those moments.

**Orders.** `Ordered(S, R)` is the sequence of the members of S in the order R: what an
ORDER BY makes of the rows that match, or a stable sort when R breaks its ties by the old
places. `Tables` alone spells its sort out (`Inserted`), since its comparison is not an order on a
column of mixed values.

**Search.** `Merge` and `VisibleTo` are such orders over the rows of the answer at hand; an
answer is a `Cut` of one.

**Messages, Transform.** `Reading` is what a tab shows after the messages in its channel, and
`Rebased` where a position is after the changes in the history: recursive functions of how many were read.
`Applied` takes a place past the end of a text for its end.

**Markup.** Each conversion is a recursive operator over a tree of node types; the property
compares the words of the result with those of the source. It keeps no state, so it is a
part of `MCDocuments` only, and the theorems are about `Documents` without it. `Ascii` are the
words of which a PDF keeps anything; a text partly in ASCII is two of them.

## 3. Runs

Passing:

| Run | Instance | Shows |
|---|---|---|
| `collab_safety` | 1 page, 2 members in 2 tabs, 2 changes, 1 failure, 1 gate change, 1 restart | `TypeOK`, `NoAckedEditLost`, `AuthorIsWriter`, `IdleOnlyWhileUnsaved`, and that `Collab` implements `WriteBehind` |
| `collab_live` | 1 page, 1 member whose tab dials twice under one client id, 2 changes, 1 gate change, fairness | `EventuallySaved`, `IdleEventuallyReleased`, and `SafeUnderOneClientId`: the three safety properties of `collab_safety` where connections share an id |
| `page_save` | 2 members, one an admin, 2 requests, 3 saves, 1 lock, session or status operation and the unlocks it allows, 1 failure, 2 version attempts | `HistoryIsKept`: every committed state is a restore point unless the log, an error or a death says otherwise, and restore points are states the page was in; `RefusedThroughoutNeverWrites` |
| `publishing` | 2 reviewers, 2 handlers, 2 requests, 3 decisions, 1 publish, 1 operation that ends half-way; 2 issues, 2 savers, 1 cost sweep, 2 edits, 1 miss; 3 rows with scores up to 2, an over-fetch of 2 within a window of 3, limits up to 2 | the four properties of `Approval`; `LinksFollowContent` and `NoWriteDown` of links and cost; `WalkShowsEachOnce` |
| `delivery` | 1 endpoint, 2 events, 2 processes, 1 retry, 1 failure; mail of 2 members, 2 attempts; 4 comments in 2 requests; 3 connections of 2 tabs, channels of 2; a text of 3 characters, 3 changes, 2 kept; 2 host names, 2 workspaces, a quota of 1 | `EventsArrive`, `MailLeavesOnce`, `ListingAgreesWithStats`, `TabsAreTold`, `DomainsStand` |
| `access` | a member and a stranger, 1 team, 2 changes, 1 failing read; 2 links, 2 pages, 2 keys; 3 callers of a workspace, 1 call a tick after a burst of 2, tokens of 4 ticks with a skew of 2, 5 ticks | `DecidedByRule`, `ShownWhileItStands`, `AdmittedWithinRate`, `OneMintPerLifetime` |
| `loops` | 2 calls billed to either of 2 Lens workspaces, 2 sweeping processes, 1 fault; 3 persons, a page limit of 2, a sweep and a service call; 2 pages, 3 texts, 2 workers, 1 failed embed, 1 restart; 2 processes of any of 3 builds, 2 crashes; fairness | `OwnCostOnce`, `EventuallyPriced`; `NoneLostWhileListed`, `RosterConverges`; `PagesAreIndexed`, `TakenOrStopped`; `SchemaIsServed` |
| `documents` | 4 pages, 2 requests, cap 2, 2 moves or deletes; a table of 2 columns, 2 updates at once; an entry of 2 issues, with 1 other caller of the Track client; a zip of 3 files under 2 folders; 2 saved templates; 4 children, 2 a batch; documents of 2 words, one ASCII | `TreeIsAForest`, `DepthsAreTrue`, `TablesKept`, `BadgeMatchesBody`, `MintsAreCounted`, `ExportHasEveryChild`, `ConversionsKeepText` |

Why the bounds are enough. In `Collab` every hazard is between one change and a
save of an earlier one, so two changes give an older and a newer snapshot; two
connections give a last and a not-last leaver, and with the tick three savers
for one mutex. Pages interact only through the mutex and the flush loop, and the theorems
of section 5 cover any number of them. `page_save` takes the retry limit down to 2 so that
running out of attempts is reached with two requests; more than one lock, session or status operation beside three saves is left to
the theorems. A slow fetch needs one caller besides the request. `Approval` needs two
reviewers who decide at once, a third decision to take one back or to repair a half-way
one, and a second request to supersede the first. `PageTree` needs a grandparent, parent
and child and a place to move to, and a cap the moved subtree can just exceed. An outbox
needs two processes for one row, a second event to overtake the first, and a crash in the
window between claim and record. Channels hold two frames so that a third is dropped; a
history of two with three changes has one that is no longer known. The roster needs three
persons against a page limit of two, because an answer that fills a page is not trusted, and two
pulls that cross. Three builds are an old one, a new one and one that goes back. An export
lists two children a batch, so that four children make a batch boundary others can shift. A
walk has a hit on both ranked halves, a tie, and a row the reader may not view inside and
outside the over-fetch. Every bound is a constant of its module.

The models may stop when the bounds are used up and nobody asks for anything, so deadlock
is not checked. Symmetry is used where the members of a set are interchangeable and only
in runs of safety properties.

Violations, each the reading of one comment (PROJECT.json quotes it):

| Run | Comment it refutes | What happens |
|---|---|---|
| `collab_stale_mark` | `savedVersion` "goes away with the state it describes" | a save outlives the state it read and marks the next one |
| `page_lock_race` | Lock "conflicts when somebody else does" | two readers of an unlocked page both lock it |
| `spend_starved` | "Sync prices what it can, for every workspace that has anything waiting" | the first workspaces by id fill every sweep with calls that can no longer be priced |
| `import_quote` | "a single bad asset shouldn't abort a 1000-page import" | a quotation makes the HTML walk call itself on the same element without end |

The passing tree properties are conditional: `TreeIsAForest` on no two
link-writing requests having overlapped, `DepthIsTrue` and `CapHolds` on no
overlap at all, and `CapHolds` on no request having ended between a link and its
re-base, which the code says it does not repair by itself (`store.go:940`). So are
others, most by a variable that remembers what happened: `TablesKept` speaks of
cells no two updates had both read, `BadgeMatchesBody` of entries of which no lookup failed and
no reference the body had read went cold or was overwritten by another caller before the badge
read it, `AdmittedWithinRate` of the
rate itself only where it fills a bucket within the TTL (`Regain`), `IdleOnlyWhileUnsaved` and
`IdleEventuallyReleased` of pages other than the one `LeftPageIsDropped` is refuted by (section 6), `ExportHasEveryChild` of children nobody shifted across
a batch, `WalkShowsEachOnce` of walks whose matches fit the window, whose hidden rows fit the over-fetch and,
over both halves, whose scores do not tie.

## 4. Fairness

`collab_live`: the ticker fires for ever and its goroutine, once
started on a flush, keeps running: weak fairness of `FlushTick`, `FlushNext`
and `DropIdle`. savePage waits for a `sync.Mutex`, which hands itself to a waiter
that has waited for 1 ms, so a waiter is not starved: strong fairness of
`SavePage(w)`. Nothing obliges a client to type, to leave or to come back, an
approver to approve, or the database to fail. A save that is refused is retried
for ever while somebody is connected, so `EventuallySaved` excepts it.

`loops`: the loops of a process come round and end. Weak fairness of each cost sweep's
step, each roster sweep's step, and the steps of a roster call once it was made; of
the goroutine a save starts (`EnqueueSome`), the debounce timer (`Promote`) and each
worker (`Work`). Nobody is obliged to save, to call Lens, to change a roster, to
stop the process or to start another. `spend_starved` assumes the same of its sweep: the starved
calls wait although the loop never stops.

## 5. Theorems

`CollabProofs` proves, for every set of pages, members, connections and client
ids, every assignment of connections to them, and every bound:

- `TypeCorrect`: `Spec => []TypeOK`.
- `AckedEditsKept`: `Spec => []NoAckedEditLost`. The invariant alone is not
  inductive: a save that completes must not clear more than it wrote. `Durable`
  adds that what savePage holds is what the state had at that version, as long as
  the state has not moved on, and that saves wait for each other.
- `StoredMovesForward`: `Spec => Promise!Spec`, the refinement of `WriteBehind`. It
  rests on `Ordered`: at most one goroutine holds the mutex, the snapshot in hand is
  a change accepted on its page, and it is not older than what is stored; without the mutex
  the tick could store an older snapshot after a departing socket stored a newer one.
- `NothingIdleKept`: `IdleOnlyWhileUnsaved`, however connections share client ids. `Attended` says
  whom an idle page waits for: its save, or nobody, if a change sent after the Leave of its own client
  id made it and it has had no snapshot.
- `StoredAuthorIsWriter`: `AuthorIsWriter`, in the same generality. `Authored` carries, from Apply to the
  database, who was found under the change's client id: the sender, unless connections share it.

`PublishingProofs` proves, of the approval, for any number of reviewers, handlers and requests:

- `ApprovalTypeCorrect`: `Spec => []TypeOK`.
- `ApprovedByQuorum`: `QuorumApproves`. Inductive with `CountersSaw` (whoever counts while a
  row is missing decided while it was missing), `QuorumRecorded` and `ApprovalsInHand`
  (an approval about to be written was granted).
- `DecidedRequestsClose`: `NothingLeftOpen`. The invariant is `SomebodyCloses`: as long as a
  decided request is open, and no operation on it stopped half-way, a handler on it has yet to
  count or to write.
- `VerdictsStand`: `VerdictStands`, by `VerdictsHold`: what a request, or a handler about
  to close it, says is still so in the rows.
- `PageFollows`: `PageFollowsLatest`, by `PageInv`. As long as operations on two requests
  have not met, every handler at work is on the latest one (`OneAsk`) and the page is a
  draft before the first (`BeforeAnyAsk`). On a latest request nobody decided early or took
  back, nothing else happens until the page is in review (`OpenedAlone`), what is about to be
  written is the verdict of the rows as they are (`VerdictCurrent`), and the page is behind
  them only while a handler is about to write it or after one stopped half-way (`PageShows`).

`PageSaveProofs`, for any members, requests and bounds:

- `TypeCorrect`, and `HistoryKept`: `HistoryIsKept`, inductive once `PendingAreStates` says that
  what a request is about to append is a state its own save committed.
- `RefusedNeverWrites`: `RefusedThroughoutNeverWrites`, by `Passed`: a guard the request is past
  no longer bars it, whatever became of lock and session since.

`LoopsProofs`, for any processes, builds, calls, pages, workers and persons:

- `SchemaServed`: `SchemaIsServed`. `BootInv`: who reads or applies holds the session lock, so what
  he read is what is recorded, and what initdb did not make is as recorded.
- `NoMemberLost`: `NoneLostWhileListed`, by `PulledWhole`: the answer about to be written
  holds everybody listed from the start.
- `OwnCostCounted`: `OwnCostOnce`. `OwnIsSum` makes a page's total the cost of the calls priced on
  it; what is bound is over, so its cost no longer changes.
- `PagesIndexed`: `PagesAreIndexed`. `IndexPlaces` says that a page's status is where it is: in one place of
  the queue, or with one worker, and in-flight counts the workers. `LastIsOnItsWay`: the last
  accepted text waits, is being embedded, or is stored.

`GatesProofs`, for any workspaces, callers, links, keys, members, teams and rates:

- `WithinRate`: `AdmittedWithinRate`, for any rate and burst. What was admitted and what the bucket still
  holds add up to no more than the burst and what is regained. A tick regains at most `Regain`, the rate
  or, when that is too low to fill a bucket within `Idle` ticks, a burst spread over them
  (`Regains`); so a bucket made again full had earned it (`DroppedEarned`).
- `MintedOnce`: `OneMintPerLifetime`. Who mints holds the workspace's entry, and the token there is
  nearly over. It needs that a mint and a call end within a tick each and that the skew is
  longer than that and shorter than a token's life, as the code's skew and timeouts are.
- `ShownRightly`: `ShownWhileItStands`. A visit holds a row that says what the table says, or the
  link has ended since (`RowHolds`); a link that ended gets no row again (`TableStands`).
- `DecidedRightly`: `DecidedByRule`. Each level a request has read was granted at some moment since
  it began (`Told`), and none it has asked for is below what was granted all along
  (`HasRead`); the verdict follows from the two whichever rows changed in between.

And, for any issues, savers, sweeps and rows, and any ranks, limits and fetch bounds:

- `LinksFollow`: `LinksFollowContent`. A reconciliation alone since its save is the only one, and what it
  read, with what it has changed since, is what is there.
- `NeverWrittenDown`: the action property `NoWriteDown`. The invariant gives each total as the
  size of a set of units, so that two totals compare as two sets do: the sum being made counts of each issue
  at least what the last written one did.
- `EachShownOnce`: `WalkShowsEachOnce`. The invariant is that what was shown is the first
  `offset` rows of `Best`, the readable matches by their worth. What makes it inductive is that
  every answer is a cut of `Best`: the first n rows of the merge are the first n of all matches
  although each half was cut before it (`TopIsFetched`: a row among the first n by score is among
  the first n of the half its score is from), and dropping hidden rows leaves enough of them
  when there are no more than the over-fetch adds (`CutVisible`). The premises of the property
  are used there: a tie is broken by places that depend on n, and more hidden rows than that leave a gap.

`DeliveryProofs`, for any endpoints, events, mails, comments, requests, host names and processes:

- `EventsDelivered`: `EventsArrive`. `OutboxInv`: per event and endpoint there is one frontier, an attempt due or
  in one hand, beyond which no attempt is a row or was sent; and an event owed is at its
  frontier, answered, refused, forgotten by a failure, or tried to the end.
- `MailLeft`: `MailLeavesOnce`. A claim counts a try that was had, is about to be had, or died with its
  process (`TriesStand`); while its lease holds a mail is with one process (`LeaseStands`).
- `PanelAgrees`: `ListingAgreesWithStats`. Every comment that is there has its head and the one it answers
  (`ThreadsStand`), whichever set of comments a cascade takes, and a thread nobody replied to
  when resolved is resolved as one (`MarksStand`).
- `DomainsHold`: `DomainsStand`. A row is verified by its own token, and so is what a request has read of it; a
  workspace whose creations never overlapped has room for the one at hand.
- `TabsTold`: `TabsAreTold`, whose parts are `PresenceIsTrue`, `NobodyMissesAChange` and `PlaceKept`.
  `MsInv`: who holds an id is a connection of that tab; a change not broadcast yet is nobody's
  news, and each later one is in the channel or was read, once and not both; and what a tab will show is
  carried over the messages of its channel by an induction on how many there are (`Climb`).
  `TfInv`: the history's versions are the last ones, each text is what its change made of the one
  before, and no character is twice in a text. Each change shifts a position as it shifts the
  characters, so whichever of them were before it stay before it, over any number of changes.

`DocumentsProofs`, for any number of pages, issues, files, folders, users and children:

- `TreeStaysAForest` and `DepthsStayTrue`: `TreeIsAForest`, `DepthsAreTrue`. As long as no two writers
  of links overlapped, the page a request moves is there and its new parent is not beneath it;
  as long as nothing overlapped, what it read of a depth is so, and what drifted is the subtree it
  is about to re-base. That every page hangs from a root is stated over sets: each non-empty
  set of pages has one whose parent is outside it.
- `MintsCounted`: `MintsAreCounted`. Each file is left, in hand or counted; a folder's page is known by its
  own path; and a template's uses are counted, in flight or lost.
- `BadgesMatch`: `BadgeMatchesBody`. As long as nothing upset the entry, a line of the body is what the cache
  still says, whichever fetches of other callers are under way, so the second pass finds the
  kinds of the first.
- `TablesStand`: `TablesKept`. A row two updates did not overlap on is what they were acknowledged to
  make (`CellsKept`); that the insertion sort orders a column is an induction on the rows it has taken: those
  taken are in order, by cells that compare as numbers do when the column does not mix its types (`Weight`), and
  the next one goes behind the last it is not less than.
- `ExportComplete`: `ExportHasEveryChild`. A child that stays where it was has been listed, or has at
  least `offset` children before it (`ExListed`): a new child comes last among its
  equals, so it never moves another towards the front.

`OrderLemmas` holds what three of these share: a finite set with a total order has one
sequence in that order, whose member at place k has k - 1 before it (`OrderedIs`); two orders that
agree on their first members start alike (`StartAlike`); and what holds of 0 and is passed on up
to k holds of all of them (`Climb`), which stands in for induction over a channel, a history or a sort.

Each rests on an inductive invariant with one lemma per kind of step; each
invariant was checked by TLC before it was proved. Where an argument goes by induction (the tree's
roots, the smallest set a deletion takes, the ranks of an ordering), it is made with a least
element or a minimal member of a well-founded relation instead of an induction theorem.

The assumptions on the constants are named in each module (`...Sizes`, and the
`...Assumption` of a composition, which conjoins them); TLC evaluates them in the runs. They
say that bounds are numbers, that a sentinel is no page, caller, file, link or process, and that what the
code counts is finite: pages, workers, members, users, files, children. Those that say more:
every connection has a member and a client id; `Files` gives each build's migrations by version,
and no migration is the sentinel for none; `FolderOf` gives each file a folder, and folders
have distinct paths, which an archive's do; batch size and limits the code fixes are positive; a
bucket is kept for some time, and the skew of a token is as said above.

Only model-checked: liveness (all of section 4), and one invariant. `ConversionsKeepText` is
about recursive operators, whose value for every document would need induction over data.
`NoFileAborts` and the other properties of the violation runs are refuted, not proved. Type
correctness of `Approval` and `PageSave` is proved and not run.

## 6. Left out

**Not modelled.** Rotation of a webhook secret, branding and text of mails; analytics and
freshness (counters and a daily digest); blocks and pins (single-statement lists); the
text of prompts and the argument checks of tools; support packages, configuration and
routing, the gateway's header check, list queries, static guards and scripts. Of the
browser client only what it does with a message. In the page store: slugs, positions,
icons, page_type, views, verification.

**Assumed.** The store does not change during one walk of a search. `NoWriteDown` is of one
process's sweeps. `Access` has one member, one team, and changes only while the request has
something left to read. `Tables` has one view and uniform columns, and its sort is stable as
Go's is on the few rows of an instance. `Imports` takes files in any order; `StackLimit`
stands for the goroutine's stack. `Markup` leaves marks and indentation out; quotations in HTML are
`Imports`'. `Exports` leaves out two children created at the same instant. `Links` stores an answer of Track as it is
given: one stored late is cold again before the next sweep (30 s against two minutes). The limiter's TTL
is the constant of the code; rate and burst are any numbers. `Messages` leaves
versions and the release of a page's state to `Collab`. `Transform` has one operation a change.

**Known divergences without a run.** Where possible the property the words would have is
written in the module and named here; TLC refutes it in an instance as small as those of section 3.

- Collab: leave promises to "drop everything else so memory doesn't grow for ever" (`ot.go:335`,
  `LeftPageIsDropped`). Of two connections of one tab the first Leave takes out the entry of both and
  drops the page; a change the other sends makes the state again (`ot.go:356`), and its own Leave
  finds no entry and returns (`ot.go:316`). Without a snapshot in that change, which the frame's format
  allows and the web client never omits, the state is never dirty, so nothing releases it. With one,
  it is stored under no author or an earlier one's, though "SnapshotBy is the member id of the client
  whose change produced Snapshot" (`ot.go:96`, `SnapshotByIsAuthor`).
- Collab: the comment that a dropped save "was already tried when the last client left"
  (`DropOnlyAfterIdleSave`), that "the single-writer policy governs only the
  REST save path" (`SavedThroughLockRuleOnly`). Broadcasts may leave out of commit order,
  since Apply and BroadcastChange take the mutex separately.
- Transform: of two overlapping deletes neither is shrunk, a replace moves nothing, and a
  place is kept only within the history's cap and one life of the page's state.
- PageSave: "every committed save's snapshot is a restore point and must never be truncated"
  (`page/store.go:955`, `EveryCommitIsKept`). A save with a `parent_id` commits its UPDATE, fails to
  re-base the depths and returns the error (`store.go:946`): no version, and nothing in the log.
- PageSave and PageTree: the newest version need not be "the state the page is supposedly
  already in" (`NewestVersionIsLive`); the ring guard does not stop new rings (`NoNewRing`).
- Comments: "a head and its replies always share `resolved`" (`comment/store.go:261`,
  `ThreadSharesResolved`) fails for a reply to a thread already resolved.
- Search: rows the reader may not view "must not shift the page boundary"; they do, and a row
  may be shown twice (`NoRowTwice`).
- PageIndex: `FinalTextIndexed`, the reading of "never silently dropped", fails when the
  goroutines of two saves enqueue in the other order.
- Shares: a new signing key ends every link (`sharing/store.go:98`); links that have expired
  are still listed as active; Create's doc says the token is not shown again, List shows it.
- Tables: overlapping UpdateRow calls on one row lose the earlier cells; compareValues is
  not transitive on a column of mixed values. Changelog: reading body and badge
  through one cache "is what stops the two from drifting apart again" (`changelog/store.go:394`,
  `ServedWarmNeverDrifts`); a slower fetch of another caller may store an older answer between the two
  passes (`client.go:178`), and a failed lookup or a reference gone cold parts them too. UpdateEntry checks neither type nor version.
- Markup: bare text between blocks is dropped where the comment says children come through; the
  text of a nested list is imported twice; raw HTML blocks are dropped where `markdown.go`
  says nothing is; a soft line break glues two words; PDF and DOCX drop what follows the
  first block of a list item; "emojis become a placeholder" (`exporter.go:655`,
  `PDFHasPlaceholders`), but `ensureASCII` drops them as it drops everything outside ASCII. `ConversionsKeepText` asks of a PDF the ASCII texts only.
- Limiter: "Eviction therefore costs no enforcement" (`ratelimit.go:137`, `EvictionCostsNothing`) is
  true of the defaults. Rate and burst are taken unchecked from the environment (`config.go:212`); a burst
  that takes longer than the TTL to refill comes back full from an eviction.
- Domains: overlapping creates exceed the quota. Migrations: the comment that releasing the
  connection drops the session lock is not true of a pooled connection, without consequence.
- Browser client: on unmount `ws.onclose = null` does not remove the listener added for
  "close", so the client reconnects (`useCollab.ts:122`); frames in flight or queued at a
  reconnect are lost, or applied against another version.

## 7. Plan

Modelled so far: everything in section 2. Proved: every safety property the passing runs
check but `ConversionsKeepText`.

Next, in this order: the conversions of `Markup` as recursive functions over the nodes of a
document, numbered so that a child comes after its parent, which would bring their property
within the provers' reach; `useCollab` and `useEditSession` as a module against `Messages`; blocks and
analytics.
