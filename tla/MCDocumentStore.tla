---------------------------- MODULE MCDocumentStore ----------------------------
(* Instances of DocumentStore for TLC. *)
EXTENDS DocumentStore, TLC

CONSTANTS t1, t2

Two == {t1, t2}
AnyOrder == Permutations(Two)
===============================================================================
