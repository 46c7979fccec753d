----------------------------- MODULE GapFreeSeries -----------------------------
(***************************************************************************)
(* What the document-number allocator promises (ADR 0109): in every series *)
(* the documents carry 1, 2, 3, ... in the order in which they come into   *)
(* existence, with no hole and no number used twice.  No transaction, lock *)
(* or counter appears here; Numbering is shown to implement it.            *)
(***************************************************************************)
EXTENDS Naturals, Sequences

CONSTANT Series   \* the (organization, series, year) triples

VARIABLE issued   \* per series, the numbers of its documents, oldest first

Init == issued = [s \in Series |-> << >>]

Issue(s) == issued' = [issued EXCEPT ![s] = Append(@, Len(@) + 1)]

Next == \E s \in Series : Issue(s)

Spec == Init /\ [][Next]_issued
================================================================================
