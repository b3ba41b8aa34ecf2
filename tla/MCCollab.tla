------------------------------ MODULE MCCollab ------------------------------
(* Instances of Collab for TLC.                                             *)
EXTENDS Collab, TLC
CONSTANTS k1, k2, m1, m2, c1, c2

\* two members, each in a browser tab of their own
TwoTabsClient == (k1 :> c1) @@ (k2 :> c2)
TwoTabsMember == (k1 :> m1) @@ (k2 :> m2)

\* one member whose tab dials twice: client_id is kept in sessionStorage
OneTabClient == (k1 :> c1) @@ (k2 :> c1)
OneTabMember == (k1 :> m1) @@ (k2 :> m1)

-----------------------------------------------------------------------------
(* What holds of the edits, of their authors and of what is kept in memory also *)
(* holds where two connections share a client_id, and the Leave of one takes      *)
(* out the entry of the other (ot.go Join, leave, Apply).                        *)
SafeUnderOneClientId == NoAckedEditLost /\ AuthorIsWriter /\ IdleOnlyWhileUnsaved
=============================================================================
