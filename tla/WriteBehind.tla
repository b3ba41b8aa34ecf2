---------------------------- MODULE WriteBehind ----------------------------
(***************************************************************************)
(* What the collaboration server promises about stored content: changes    *)
(* are accepted one after the other, and the stored content of a page is    *)
(* one of the changes accepted on that page and only ever moves forward.    *)
(* Which accepted changes are stored, and when, is left open.               *)
(***************************************************************************)
EXTENDS Naturals

CONSTANT Page

VARIABLES count,     \* how many changes were accepted so far
          accepted,  \* the numbers of the changes accepted on each page
          stored     \* the change each page's stored content came from

vars == <<count, accepted, stored>>

Init == /\ count = 0
        /\ accepted = [p \in Page |-> {}]
        /\ stored = [p \in Page |-> 0]

(* The next change is newer than every change accepted before, on any page. *)
Accept(p) ==
    /\ count' = count + 1
    /\ accepted' = [accepted EXCEPT ![p] = @ \cup {count + 1}]
    /\ UNCHANGED stored

Store(p) ==
    /\ \E n \in accepted[p] :
          /\ n > stored[p]
          /\ stored' = [stored EXCEPT ![p] = n]
    /\ UNCHANGED <<count, accepted>>

Next == \E p \in Page : Accept(p) \/ Store(p)

Spec == Init /\ [][Next]_vars
=============================================================================
