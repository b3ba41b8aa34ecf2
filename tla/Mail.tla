-------------------------------- MODULE Mail --------------------------------
(***************************************************************************)
(* The notification outbox (internal/email/sink.go): one row per mail, sent *)
(* by the loops of Docs processes under a lease.  A statement and an SMTP    *)
(* dialogue are steps of their own.  Time is left out: a row that waits, by  *)
(* a lease or by a backoff, may fall due at any time.                       *)
(***************************************************************************)
EXTENDS Naturals, FiniteSets, SequencesExt

CONSTANTS Member,
          Postman,     \* Docs processes
          MaxAttempts, \* sink.go MaxAttempts
          MaxAsks,     \* bound: approval requests and digests
          MaxTroubles  \* bound: statements that fail and processes that die

MailSizes ==
    /\ MaxAttempts \in Nat /\ MaxAsks \in Nat /\ MaxTroubles \in Nat
    /\ IsFiniteSet(Member)

VARIABLES
    prefs,    \* notification_preferences and their defaults, by kind
    outbox,   \* notification_outbox, by <<member, ask>>
    round,    \* the mails each process claimed and has yet to send, in order
    step,     \* what it does with the first of them
    asks,
    sent,     \* history: how often each mail left
    wanted,   \* history: the mails that should be sent
    tried,    \* history: how often a dialogue about it was over
    slow,     \* history: mails whose lease ran out, or whose record failed
    wasted,   \* history: mails claimed by a process that died or failed to read
    troubles

mailHistory == <<sent, wanted, tried, slow, wasted>>
mailVars == <<prefs, outbox, round, step, asks, mailHistory, troubles>>

Kind == {"approval.requested", "freshness.digest"}
Mail == Member \X (1..MaxAsks)

\* A mail waits for due_at, is due, or left (sent_at).
MailRow == [attempts : 0..MaxAttempts, state : {"waits", "due", "sent"}]
NoMail == [attempts |-> 0, state |-> "none"]

MailTypeOK ==
    /\ prefs \in [Member -> [Kind -> BOOLEAN]]
    /\ outbox \in [Mail -> MailRow \cup {NoMail}]
    /\ round \in [Postman -> Seq(Mail)]
    /\ step \in [Postman -> {"send", "sent", "failed"}]
    /\ asks \in 0..MaxAsks
    /\ sent \in [Mail -> Nat]
    /\ tried \in [Mail -> Nat]
    /\ wanted \cup slow \cup wasted \subseteq Mail
    /\ troubles \in 0..MaxTroubles

MailInit ==
    /\ prefs = [m \in Member |-> [k \in Kind |-> k = "approval.requested"]]
    /\ outbox = [e \in Mail |-> NoMail]
    /\ round = [i \in Postman |-> <<>>]
    /\ step = [i \in Postman |-> "send"]
    /\ asks = 0
    /\ sent = [e \in Mail |-> 0]
    /\ tried = [e \in Mail |-> 0]
    /\ wanted = {} /\ slow = {} /\ wasted = {}
    /\ troubles = 0

Trouble == troubles < MaxTroubles /\ troubles' = troubles + 1

\* PrefsHandler.Put
SetPreference(m, k, on) ==
    /\ prefs[m][k] # on
    /\ prefs' = [prefs EXCEPT ![m][k] = on]
    /\ UNCHANGED <<outbox, round, step, asks, mailHistory, troubles>>

-----------------------------------------------------------------------------
(* What puts rows there: each one INSERT ... SELECT.                        *)

Queue(to) ==
    /\ asks < MaxAsks
    /\ asks' = asks + 1
    /\ LET mails == to \X {asks + 1}
       IN \/ /\ outbox' = [e \in Mail |-> IF e \in mails THEN [attempts |-> 0, state |-> "due"]
                                          ELSE outbox[e]]
             /\ wanted' = wanted \cup mails
             /\ UNCHANGED troubles
          \/ Trouble /\ UNCHANGED <<outbox, wanted>>
    /\ UNCHANGED <<prefs, round, step, sent, tried, slow, wasted>>

\* Sink.Emit: every reviewer but the one who asked, unless turned off.
Emit(reviewers, requester) ==
    Queue({m \in reviewers \ {requester} : prefs[m]["approval.requested"]})

\* Sink.QueueStaleDigest: owners of stale pages and reviewers that keep others
\* waiting, if turned on. That nobody had one in the last 20 hours is left to
\* the choice of them.
QueueStaleDigest(concerned) ==
    Queue({m \in concerned : prefs[m]["freshness.digest"]})

-----------------------------------------------------------------------------
(* Sink.SendDue: claim, then one mail after the other.                       *)

FallDue(e) ==
    /\ outbox[e].state = "waits"
    /\ outbox' = [outbox EXCEPT ![e].state = "due"]
    /\ slow' = IF \E i \in Postman : e \in Range(round[i])
               THEN slow \cup {e} ELSE slow
    /\ UNCHANGED <<prefs, round, step, asks, sent, wanted, tried, wasted, troubles>>

\* Mutant: a mail is tried for ever.
ClaimableForever == {e \in Mail : outbox[e].state = "due"}

Claimable == {e \in Mail : outbox[e].state = "due" /\ outbox[e].attempts < MaxAttempts}

\* Mutant: the claim counts a try and leaves the row due.
LeasedDue(row) == [row EXCEPT !.attempts = @ + 1]

Leased(row) == [attempts |-> row.attempts + 1, state |-> "waits"]

\* In any order: several fall due in the same instant. Rows that are claimed but
\* not read wait out their lease.
ClaimMail(i) ==
    /\ round[i] = <<>>
    /\ \E E \in SUBSET Claimable \ {{}} :
        /\ outbox' = [e \in Mail |->
                         IF e \in E THEN Leased(outbox[e]) ELSE outbox[e]]
        /\ \/ /\ \E order \in SetToSeqs(E) : round' = [round EXCEPT ![i] = order]
              /\ UNCHANGED <<wasted, troubles>>
           \/ /\ Trouble
              /\ wasted' = wasted \cup E
              /\ UNCHANGED round
    /\ UNCHANGED <<prefs, step, asks, sent, wanted, tried, slow>>

\* SMTP.Send. The server took the mail when the data was closed; that QUIT fails
\* afterwards, or the deadline passes, is an error all the same.
Dialogue == {[taken |-> TRUE, error |-> FALSE],
             [taken |-> TRUE, error |-> TRUE],
             [taken |-> FALSE, error |-> TRUE]}

Send(i) ==
    /\ round[i] # <<>> /\ step[i] = "send"
    /\ \E d \in Dialogue :
        LET e == Head(round[i])
        IN /\ sent' = [sent EXCEPT ![e] = IF d.taken THEN @ + 1 ELSE @]
           /\ tried' = [tried EXCEPT ![e] = @ + 1]
           /\ slow' = IF d.taken /\ d.error THEN slow \cup {e} ELSE slow
           /\ step' = [step EXCEPT ![i] = IF d.error THEN "failed" ELSE "sent"]
    /\ UNCHANGED <<prefs, outbox, round, asks, wanted, wasted, troubles>>

Done(i) ==
    /\ round' = [round EXCEPT ![i] = Tail(@)]
    /\ step' = [step EXCEPT ![i] = "send"]

\* Mutant: a failure is written down like a success.
AfterAny(i, was) == "sent"

\* sent_at, or a backoff in place of the lease; what was sent stays sent.
After(i, was) == IF step[i] = "sent" \/ was = "sent" THEN "sent" ELSE "waits"

\* The end of the loop's body.
RecordMail(i) ==
    /\ step[i] # "send"
    /\ LET e == Head(round[i])
       IN \/ /\ outbox' = [outbox EXCEPT ![e].state = After(i, @)]
             /\ UNCHANGED <<slow, troubles>>
          \/ /\ Trouble
             /\ slow' = slow \cup {e}
             /\ UNCHANGED outbox
    /\ Done(i)
    /\ UNCHANGED <<prefs, asks, sent, wanted, tried, wasted>>

\* The process dies: the lease covers what it had claimed.
DieMail(i) ==
    /\ round[i] # <<>>
    /\ Trouble
    /\ round' = [round EXCEPT ![i] = <<>>]
    /\ step' = [step EXCEPT ![i] = "send"]
    /\ slow' = slow \cup Range(round[i])
    /\ wasted' = wasted \cup Range(round[i])
    /\ UNCHANGED <<prefs, outbox, asks, sent, wanted, tried>>

MailNext ==
    \/ \E m \in Member, k \in Kind, on \in BOOLEAN : SetPreference(m, k, on)
    \/ \E reviewers \in SUBSET Member, m \in Member : Emit(reviewers, m)
    \/ \E concerned \in SUBSET Member : QueueStaleDigest(concerned)
    \/ \E e \in Mail : FallDue(e)
    \/ \E i \in Postman : ClaimMail(i) \/ Send(i) \/ RecordMail(i) \/ DieMail(i)

MailSpec == MailInit /\ [][MailNext]_mailVars

-----------------------------------------------------------------------------
(* A mail leaves at most once, unless its lease ran out while a process had    *)
(* it, the dialogue failed after the mail was taken, or what became of it was  *)
(* not recorded; and never more often than it may be tried (sink.go SendDue). *)
SentOnce ==
    \A e \in Mail : /\ e \notin slow => sent[e] <= 1
                    /\ sent[e] <= MaxAttempts

(* A mail that was queued is tried until it has left or had MaxAttempts tries,  *)
(* also when a lease ran out, unless a process that claimed it died or could    *)
(* not read it: a claim is a try, or it is still in a hand (sink.go SendDue,    *)
(* 0026_notification_outbox.sql).                                              *)
NoMailForgotten ==
    \A e \in wanted \ wasted :
        \/ sent[e] > 0
        \/ tried[e] >= MaxAttempts
        \/ \E i \in Postman : e \in Range(round[i])
        \/ outbox[e].state # "sent" /\ outbox[e].attempts < MaxAttempts

=============================================================================
