------------------------------ MODULE Delivery ------------------------------
(***************************************************************************)
(* What leaves the workspace and what is said on a page: the webhook and    *)
(* mail outboxes, the comments, the messages and the transform of a live    *)
(* session, and the spaces shown under a domain of their own. They meet     *)
(* only where a handler hands an event to the notifier, after its own       *)
(* statement and without an answer (approval.Fanout), and share no row and  *)
(* no mutex; so a behaviour is one of theirs, and the states are their sum  *)
(* and not their product.                                                   *)
(***************************************************************************)
EXTENDS Naturals, FiniteSets, TLC

CONSTANTS Hook, Msg, Instance, Backoff, MaxFailures,
          Member, Postman, MaxAttempts, MaxAsks, MaxTroubles,
          Author, Request, MaxComments, MaxOps,
          Sock, NoSock, Tab, TabOf, Buffer, MaxFrames,
          Start, Width, HistoryCap, MaxCommits,
          Host, Space, Owner, Admin, MaxDomains, MaxRows, MaxFlips

VARIABLES
    focus,                                            \* whose behaviour this is
    hooks, rows, sending, emitted, owed, posts, made, refused, answered, forgotten, whFailures,
    prefs, outbox, round, step, asks, sent, wanted, tried, slow, wasted, troubles,
    comments, cmMade, serving, ops, late,
    clients, sock, out, shown, shared, joined, got, missed, redialled, frames,
    history, version, texts, placed,
    domains, last, public, gone, txt, admin, guest, flips, proved, crowded

TypeOf == [m \in Msg |-> IF m = CHOOSE x \in Msg : TRUE THEN "comment.created"
                         ELSE "approval.decided"]

W == INSTANCE Webhooks
M == INSTANCE Mail
C == INSTANCE Comments WITH made <- cmMade
L == INSTANCE Messages WITH sent <- shared
T == INSTANCE Transform
D == INSTANCE Domains

ASSUME DeliveryAssumption ==
    /\ W!WebhooksSizes /\ M!MailSizes /\ C!CommentsSizes
    /\ L!MessagesSizes /\ T!TransformSizes /\ D!DomainsSizes

whVars == <<hooks, rows, sending, emitted, owed, posts, made, refused, answered, forgotten,
            whFailures>>
mailVars == <<prefs, outbox, round, step, asks, sent, wanted, tried, slow, wasted, troubles>>
cmVars == <<comments, cmMade, serving, ops, late>>

liveVars == <<clients, sock, out, shown, shared, joined, got, missed, redialled, frames>>
tfVars == <<history, version, texts, placed>>
dmVars == <<domains, last, public, gone, txt, admin, guest, flips, proved, crowded>>

Init ==
    /\ focus \in {"webhooks", "mail", "comments", "messages", "transform", "domains"}
    /\ W!WebhooksInit /\ M!MailInit /\ C!CommentsInit /\ L!MessagesInit /\ T!TransformInit
    /\ D!DomainsInit

Next ==
    /\ UNCHANGED focus
    /\ \/ focus = "webhooks" /\ W!WebhooksNext
          /\ UNCHANGED <<mailVars, cmVars, liveVars, tfVars, dmVars>>
       \/ focus = "mail" /\ M!MailNext
          /\ UNCHANGED <<whVars, cmVars, liveVars, tfVars, dmVars>>
       \/ focus = "comments" /\ C!CommentsNext
          /\ UNCHANGED <<whVars, mailVars, liveVars, tfVars, dmVars>>
       \/ focus = "messages" /\ L!MessagesNext
          /\ UNCHANGED <<whVars, mailVars, cmVars, tfVars, dmVars>>
       \/ focus = "transform" /\ T!TransformNext
          /\ UNCHANGED <<whVars, mailVars, cmVars, liveVars, dmVars>>
       \/ focus = "domains" /\ D!DomainsNext
          /\ UNCHANGED <<whVars, mailVars, cmVars, liveVars, tfVars>>

Spec == Init /\ [][Next]_<<focus, whVars, mailVars, cmVars, liveVars, tfVars, dmVars>>

\* The first two connections are one tab that dials again.
TabsOf == [s1 |-> "t1", s2 |-> "t1", s3 |-> "t2"]

\* Each space is of a workspace of its own.
Apart == [s \in Space |-> s]

\* Processes are interchangeable, and so are members; requests and host names are
\* given the processes' names, authors and spaces the members'.
DeliverySymmetry == Permutations(Instance) \cup Permutations(Member)

-----------------------------------------------------------------------------
(* The rows and what each loop or handler holds of them.                     *)
TypeOK == W!WebhooksTypeOK /\ M!MailTypeOK /\ C!CommentsTypeOK

(* Webhooks: no attempt is sent twice, each follows the one before it, and no    *)
(* event a live endpoint subscribed to is silently dropped (webhooks/sink.go      *)
(* Emit, DeliverDue, send).                                                    *)
EventsArrive == W!AttemptsFollow /\ W!NoEventForgotten

(* Mail: no member gets a mail twice while its lease holds, and what was       *)
(* queued is tried until it left or was tried often enough (email/sink.go       *)
(* SendDue).                                                                  *)
MailLeavesOnce == M!SentOnce /\ M!NoMailForgotten

(* Comments: the panel shows the threads its badge counts (comment/store.go    *)
(* ListByPage, GetStats).                                                     *)
ListingAgreesWithStats == C!ListingAgreesWithStats

(* Domains: a name shows what the workspace that proved it made public, and no   *)
(* more names than it may have (customdomain/store.go Create, Verify).           *)
DomainsStand == D!DomainsStand

(* Live session: a tab that reads what is sent to it shows who is on the page   *)
(* and hears of every change, and an operation lands where its sender meant it  *)
(* (collab/ot.go Join, leave, BroadcastChange, transform).                     *)
TabsAreTold == L!PresenceIsTrue /\ L!NobodyMissesAChange /\ T!PlaceKept

=============================================================================
