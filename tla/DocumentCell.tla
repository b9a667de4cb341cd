------------------------------ MODULE DocumentCell ------------------------------
(* What the document store promises for one document: what a reader gets is  *)
(* one fetch, text and metadata together; it is replaced by a newer fetch in *)
(* one step, or deleted.  The step of a mishap is marked, and after it       *)
(* nothing is promised.                                                      *)
EXTENDS Naturals

CONSTANTS MaxFetches,  \* bound: fetches of the document, 0 is one from before
          None         \* no document

VARIABLES shown,   \* what a reader gets: the fetch of the text, of the metadata
          excused  \* a mishap hit the document

Fetches == 0 .. MaxFetches

Init == /\ shown \in {None, [content |-> 0, of |-> 0]}
        /\ excused = FALSE

Replace == /\ ~excused
           /\ \E n \in Fetches :
                 /\ shown # None => n > shown.content
                 /\ shown' = [content |-> n, of |-> n]
           /\ UNCHANGED excused

Delete == ~excused /\ shown' = None /\ UNCHANGED excused

Mishap == excused' = TRUE  \* shown' is anything

Next == Replace \/ Delete \/ Mishap

Spec == Init /\ [][Next]_<<shown, excused>>
=============================================================================
