------------------------------ MODULE Transform ------------------------------
(***************************************************************************)
(* The operational transform of a page's live state (collab/ot.go Apply,    *)
(* transform): a change is moved over every committed one its sender had not *)
(* seen. The server keeps no text; `texts` replays the committed operations  *)
(* on one, so that a position can be compared with what it pointed at. A     *)
(* change has one operation, and a text is where its characters came from.   *)
(***************************************************************************)
EXTENDS Integers, Sequences

CONSTANTS Start,      \* the length of the text before the first change
          Width,      \* the longest insert or delete
          HistoryCap, \* historyCap: committed changes kept
          MaxCommits  \* bound: changes

TransformSizes ==
    Start \in Nat /\ Width \in Nat \ {0} /\ HistoryCap \in Nat \ {0} /\ MaxCommits \in Nat

VARIABLES
    history, \* PageState.History: versions and their operations
    version, \* PageState.Version
    texts,   \* history: the text at every version
    placed   \* history: the last change's base, position there, and position committed

tfVars == <<history, version, texts, placed>>

NoPlace == [base |-> 0, pos |-> 0, at |-> 0]

Original == [i \in 1..Start |-> [by |-> 0, i |-> i]]

TransformInit ==
    /\ history = <<>> /\ version = 0 /\ texts = <<Original>> /\ placed = NoPlace

-----------------------------------------------------------------------------
\* Mutant: a delete that reaches over the position moves it by its whole length.
FlooredAtStart(pos, c) ==
    CASE c.type = "delete" /\ c.pos < pos -> IF c.len > pos THEN 0 ELSE pos - c.len
      [] c.type = "insert" /\ c.pos <= pos -> pos + c.len
      [] OTHER -> pos

\* transform: where a position is after one concurrent operation. An insert at
\* the very place goes first; replace and retain move nothing.
Shifted(pos, c) ==
    CASE c.type = "delete" /\ c.pos < pos -> IF pos - c.len < c.pos THEN c.pos ELSE pos - c.len
      [] c.type = "insert" /\ c.pos <= pos -> pos + c.len
      [] OTHER -> pos

\* Apply: over every change kept that is newer than the base, the oldest first.
Rebased(base, op) ==
    LET at[n \in 0..Len(history)] ==
            IF n = 0 THEN op.pos
            ELSE IF history[n].version <= base THEN at[n - 1]
            ELSE Shifted(at[n - 1], history[n].op)
    IN [op EXCEPT !.pos = at[Len(history)]]

Kept(h) == IF Len(h) > HistoryCap THEN Tail(h) ELSE h

\* What the operation does to a text; a place past its end is its end.
Applied(text, op, by) ==
    LET cut == IF op.pos > Len(text) THEN Len(text) ELSE op.pos
        before == SubSeq(text, 1, cut)
    IN CASE op.type = "insert" -> before \o [i \in 1..op.len |-> [by |-> by, i |-> i]]
                                         \o SubSeq(text, cut + 1, Len(text))
         [] op.type = "delete" -> before \o SubSeq(text, cut + op.len + 1, Len(text))
         [] OTHER -> text

\* A member who saw version `base` sends an operation on its text.
Apply(base, op) ==
    /\ version < MaxCommits
    /\ LET o == Rebased(base, op)
       IN /\ version' = version + 1
          /\ history' = Kept(Append(history, [version |-> version + 1, op |-> o]))
          /\ texts' = Append(texts, Applied(texts[version + 1], o, version + 1))
          /\ placed' = [base |-> base, pos |-> op.pos, at |-> o.pos]

TransformNext ==
    \E base \in 0..version : \E type \in {"insert", "delete", "retain"} :
        \E pos \in 0..Len(texts[base + 1]) : \E len \in 1..Width :
            /\ type = "delete" => pos + len <= Len(texts[base + 1])
            /\ type = "retain" => len = 1
            /\ Apply(base, [type |-> type, pos |-> pos, len |-> len])

-----------------------------------------------------------------------------
(* A change lands where its sender meant it: of the characters he saw, those    *)
(* that are left before his position are before it still, and the others after, *)
(* as long as the changes he had not seen are all in the history kept (ot.go     *)
(* transform, historyCap).                                                      *)
PlaceKept ==
    LET saw == texts[placed.base + 1]
        met == texts[version]
    IN version - 1 - placed.base \in 1..HistoryCap =>
          \A i \in DOMAIN saw : \A j \in DOMAIN met :
              saw[i] = met[j] => (i <= placed.pos <=> j <= placed.at)
=============================================================================
