------------------------------ MODULE Comments ------------------------------
(***************************************************************************)
(* The comment threads of a page (internal/comment).  A handler checks that *)
(* the comment is one of the page its route authorized (assertInPage), then *)
(* the store runs its statements; each is a step.                           *)
(***************************************************************************)
EXTENDS Naturals, FiniteSets

CONSTANTS Author,
          Request,     \* goroutines serving a request
          MaxComments, \* bound: comments ever made
          MaxOps       \* bound: operations on a comment

CommentsSizes == MaxComments \in Nat /\ MaxOps \in Nat

VARIABLES
    comments,  \* page_comments
    made,      \* the ids handed out
    serving,   \* the locals of each request
    ops,
    late       \* history: threads somebody replied to while they were resolved

cmVars == <<comments, made, serving, ops, late>>

Id == 1..MaxComments
NoParent == 0

Comment == [thread : Id, parent : Id \cup {NoParent}, author : Author, resolved : BOOLEAN]

Gone == [thread |-> 0, parent |-> NoParent, author |-> "", resolved |-> FALSE]

There == {c \in Id : comments[c] # Gone}

Local == [op : {"idle", "reply", "resolve", "unresolve", "delete"},
          id : Id \cup {0}, thread : Id \cup {0}, by : Author \cup {""}]
Free == [op |-> "idle", id |-> 0, thread |-> 0, by |-> ""]

CommentsTypeOK ==
    /\ comments \in [Id -> Comment \cup {Gone}]
    /\ made \in 0..MaxComments
    /\ serving \in [Request -> Local]
    /\ ops \in 0..MaxOps
    /\ late \subseteq Id

CommentsInit ==
    /\ comments = [c \in Id |-> Gone]
    /\ made = 0
    /\ serving = [r \in Request |-> Free]
    /\ ops = 0
    /\ late = {}

Head(c) == comments[c].parent = NoParent

-----------------------------------------------------------------------------
\* Store.Create: a head is its own thread, in one statement.
Create(author) ==
    /\ made < MaxComments
    /\ made' = made + 1
    /\ comments' = [comments EXCEPT ![made + 1] =
                       [thread |-> made + 1, parent |-> NoParent, author |-> author,
                        resolved |-> FALSE]]
    /\ UNCHANGED <<serving, ops, late>>

\* assertInPage, and for a reply or a deletion the read of the parent's thread or
\* of the author that follows it: what they read of a comment never changes.
Begin(r, op, c, by) ==
    /\ serving[r] = Free
    /\ ops < MaxOps
    /\ ops' = ops + 1
    /\ c \in There
    /\ op = "delete" => comments[c].author = by
    /\ serving' = [serving EXCEPT ![r] =
                      [op |-> op, id |-> c, thread |-> comments[c].thread, by |-> by]]
    /\ UNCHANGED <<comments, made, late>>

\* Store.Reply: the insert, refused by its foreign key when the parent is gone.
Reply(r) ==
    /\ serving[r].op = "reply"
    /\ LET t == serving[r].thread
       IN IF serving[r].id \in There /\ made < MaxComments
          THEN /\ made' = made + 1
               /\ comments' = [comments EXCEPT ![made + 1] =
                                  [thread |-> t, parent |-> serving[r].id,
                                   author |-> serving[r].by, resolved |-> FALSE]]
               /\ late' = IF comments[t].resolved THEN late \cup {t} ELSE late
          ELSE UNCHANGED <<comments, made, late>>
    /\ serving' = [serving EXCEPT ![r] = Free]
    /\ UNCHANGED ops

\* Resolve and Unresolve: every comment of the thread the comment is in now.
Mark(r, op, resolved) ==
    /\ serving[r].op = op
    /\ LET c == serving[r].id
       IN comments' = [x \in Id |->
                          IF c \in There /\ x \in There /\ comments[x].thread = comments[c].thread
                          THEN [comments[x] EXCEPT !.resolved = resolved]
                          ELSE comments[x]]
    /\ serving' = [serving EXCEPT ![r] = Free]
    /\ UNCHANGED <<made, ops, late>>

Resolve(r) == Mark(r, "resolve", TRUE)
Unresolve(r) == Mark(r, "unresolve", FALSE)

\* With a comment, a set has the answers to it.
Whole(S) == \A x \in There : comments[x].parent \in S => x \in S

\* A comment and all that answer it, directly or not (ON DELETE CASCADE).
Below(c) == {x \in Id : \A S \in SUBSET Id : c \in S /\ Whole(S) => x \in S}

Delete(r) ==
    /\ serving[r].op = "delete"
    /\ comments' = [x \in Id |-> IF x \in Below(serving[r].id) THEN Gone ELSE comments[x]]
    /\ serving' = [serving EXCEPT ![r] = Free]
    /\ UNCHANGED <<made, ops, late>>

CommentsNext ==
    \/ \E a \in Author : Create(a)
    \/ \E r \in Request, op \in {"reply", "resolve", "unresolve", "delete"},
         c \in Id, a \in Author : Begin(r, op, c, a)
    \/ \E r \in Request : Reply(r) \/ Resolve(r) \/ Unresolve(r) \/ Delete(r)

CommentsSpec == CommentsInit /\ [][CommentsNext]_cmVars

-----------------------------------------------------------------------------
\* ListByPage: the rows the query returns, and those of them shown as threads of
\* their own: the heads, and a reply whose thread's head is not among the rows.
Rows(includeResolved) == {c \in There : includeResolved \/ ~comments[c].resolved}

\* Mutant: a reply is attached by its parent only.
StrayFrom(c, heads) == comments[c].parent \notin heads

Stray(c, heads) == comments[c].thread \notin heads /\ comments[c].parent \notin heads

ListByPage(includeResolved) ==
    LET rows == Rows(includeResolved)
        heads == {c \in rows : Head(c)}
    IN heads \cup {c \in rows \ heads : Stray(c, heads)}

\* GetStats
Total == Cardinality({c \in There : Head(c)})
Resolved == Cardinality({c \in There : Head(c) /\ comments[c].resolved})
Open == Total - Resolved

(* The panel and its badge agree: the list shows as many threads as GetStats    *)
(* counts, open ones as long as nobody replied to a resolved one, whatever     *)
(* deletions, replies and marks overlap (store.go ListByPage, GetStats).       *)
ListingAgreesWithStats ==
    /\ Cardinality(ListByPage(TRUE)) = Total
    /\ late = {} => Cardinality(ListByPage(FALSE)) = Open

(* store.go:261 "a head and its replies always share `resolved`".             *)
ThreadSharesResolved ==
    \A c \in There : comments[c].resolved = comments[comments[c].thread].resolved

=============================================================================
